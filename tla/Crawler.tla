------------------------------- MODULE Crawler ------------------------------
(***************************************************************************)
(* internal/dhtcrawler, the path of info hashes: sampled hashes are        *)
(* triaged in batches, their peers and meta info are requested, torrents   *)
(* are stored with a queue job that classifies them, and their swarms are  *)
(* scraped.  Stages are joined by bounded channels; a stage that cannot    *)
(* send on blocks with the hash in its hands.  The batching channels are   *)
(* the abstract queue that BatchingChannel implements.                     *)
(*                                                                         *)
(* The release-name policy excludes no hash here: the crawler value that   *)
(* OnStart builds has no namePolicy (the one New was given stays in the    *)
(* value it replaces), and a policy that is nil excludes nothing.          *)
(***************************************************************************)
EXTENDS Integers, FiniteSets, Sequences, SequencesExt

CONSTANTS
    Hashes,        \* info hashes
    Samples,       \* bound on the new hashes in replies to sample_infohashes
    ChannelRoom,   \* stage -> what its channel holds
    TriageBatch,   \* most hashes triaged or stored together
    ClassifyBatch, \* most hashes in one classification job (classifyBatchSize)
    Peers,         \* most peers in a reply to get_peers
    BadHashes      \* hashes that the blocklist and the blocking manager may come to hold

ASSUME CrawlerAssumption ==
    /\ Samples \in Nat
    /\ {TriageBatch, ClassifyBatch, Peers} \subseteq Nat \ {0}
    /\ BadHashes \subseteq Hashes

VARIABLES
    sampled,       \* new hashes in replies so far
    channel,       \* stage -> the hashes waiting in its channel
    hands,         \* stage -> what it holds: [hash, to] to send on, or [hash, peer] to ask
    torrents,      \* hash -> "absent" (or without its files), "stored" or "scraped"
    classified,    \* stored hashes whose classification job has been settled
    jobs           \* unsettled classification jobs: the sequences of hashes they name

crVars == <<sampled, channel, hands, torrents, classified, jobs>>
dbVars == <<torrents, classified, jobs>>

Stages == {"triage", "getPeers", "requestMetaInfo", "persistTorrents", "scrape", "persistSources"}
Stored == {"stored", "scraped"}

CrTypeOK ==
    /\ sampled \in 0..Samples
    /\ channel \in [Stages -> Seq(Hashes)]
    /\ \A s \in Stages : Len(channel[s]) <= ChannelRoom[s]
    /\ torrents \in [Hashes -> {"absent"} \cup Stored]
    /\ classified \subseteq Hashes
    /\ jobs \subseteq Seq(Hashes)

ToSend(h, stage) == [hash |-> h, to |-> stage]
ToAsk(h, peer) == [hash |-> h, peer |-> peer]

\* The worker of a stage is free and its channel has n hashes for it.
Ready(stage, n) == hands[stage] = {} /\ n <= Len(channel[stage])

\* It takes them, and then holds the set held.
TakeAndHold(stage, n, held) ==
    /\ channel' = [channel EXCEPT ![stage] = SubSeq(@, n + 1, Len(@))]
    /\ hands' = [hands EXCEPT ![stage] = held]

Batch(stage, n) == SubSeq(channel[stage], 1, n)

-----------------------------------------------------------------------------
\* runSampleInfoHashes: the hashes of a reply that the filter of seen hashes lets through go to triage.
\* The filter is a stable bloom filter: it forgets hashes and takes new ones for seen.
Sample(fresh) ==
    /\ sampled + Cardinality(fresh) <= Samples
    /\ hands["sample"] = {}
    /\ sampled' = sampled + Cardinality(fresh)
    /\ hands' = [hands EXCEPT !["sample"] = {ToSend(h, "triage") : h \in fresh}]
    /\ UNCHANGED <<channel, dbVars>>

\* MUTANT: one hash too many is let into the channel.
RoomOnOneMore(stage) == Len(channel[stage]) <= ChannelRoom[stage]

RoomOn(stage) == Len(channel[stage]) < ChannelRoom[stage]

\* A blocking send on the channel of another stage.
SendOn(stage, item) ==
    /\ item \in hands[stage]
    /\ "to" \in DOMAIN item
    /\ RoomOn(item.to)
    /\ channel' = [channel EXCEPT ![item.to] = Append(@, item.hash)]
    /\ hands' = [hands EXCEPT ![stage] = @ \ {item}]
    /\ UNCHANGED <<sampled, dbVars>>

\* Where a hash that passed the filters goes: unknown torrents and those without files to get_peers,
\* those without a recent scrape to scrape, the others nowhere.
Routed(kept) ==
    {ToSend(h, "getPeers") : h \in {k \in kept : torrents[k] = "absent"}}
        \cup {ToSend(h, "scrape") : h \in {k \in kept : torrents[k] = "stored"}}

\* runInfoHashTriage: the blocklist, the blocking manager and the verdicts filter the batch.
Triage(n, blocked) ==
    /\ Ready("triage", n)
    /\ TakeAndHold("triage", n, Routed(ToSet(Batch("triage", n)) \ blocked))
    /\ UNCHANGED <<sampled, dbVars>>

\* The blocking manager or the search for known torrents fails, and the batch is dropped.
TriageFails(n) ==
    /\ Ready("triage", n)
    /\ TakeAndHold("triage", n, {})
    /\ UNCHANGED <<sampled, dbVars>>

\* runGetPeers, runScrape: a worker takes a hash to ask for it.
Ask(stage) ==
    /\ stage \in {"getPeers", "scrape"}
    /\ Ready(stage, 1)
    /\ TakeAndHold(stage, 1, {ToAsk(h, 1) : h \in ToSet(Batch(stage, 1))})
    /\ UNCHANGED <<sampled, dbVars>>

NextStage(stage) == IF stage = "getPeers" THEN "requestMetaInfo" ELSE "persistSources"

\* The node answers.
Answered(stage) ==
    /\ stage \in {"getPeers", "scrape"}
    /\ \E item \in hands[stage] :
         /\ "peer" \in DOMAIN item
         /\ hands' = [hands EXCEPT ![stage] = {ToSend(item.hash, NextStage(stage))}]
    /\ UNCHANGED <<sampled, channel, dbVars>>

\* MUTANT: a worker that gets no answer never becomes free.
HeldAfterFailureKept(stage, item) == {[hash |-> item.hash]}

\* The worker that gets no answer, or no peers, is done with the hash.
HeldAfterFailure(stage, item) == {}

Unanswered(stage) ==
    /\ stage \in {"getPeers", "scrape"}
    /\ \E item \in hands[stage] :
         /\ "peer" \in DOMAIN item
         /\ hands' = [hands EXCEPT ![stage] = HeldAfterFailure(stage, item)]
    /\ UNCHANGED <<sampled, channel, dbVars>>

-----------------------------------------------------------------------------
\* doRequestMetaInfo: the blocklist is consulted once, before the first peer.
StartFetch(listed) ==
    /\ Ready("requestMetaInfo", 1)
    /\ LET h == Head(channel["requestMetaInfo"])
       IN TakeAndHold("requestMetaInfo", 1, IF h \in listed THEN {} ELSE {ToAsk(h, 1)})
    /\ UNCHANGED <<sampled, dbVars>>

\* A peer fails: the next one is asked, if there is one.
FetchFails ==
    /\ \E item \in hands["requestMetaInfo"] :
         /\ "peer" \in DOMAIN item
         /\ hands' \in {[hands EXCEPT !["requestMetaInfo"] = held] :
                          held \in {{}} \cup {{ToAsk(item.hash, p)} : p \in {item.peer + 1} \cap (1..Peers)}}
    /\ UNCHANGED <<sampled, channel, dbVars>>

\* The meta info arrives: it goes to be stored, unless it is banned (and its hash is blocked) or the
\* content filter drops it.
Fetched ==
    /\ \E item \in hands["requestMetaInfo"] :
         /\ "peer" \in DOMAIN item
         /\ hands' \in {[hands EXCEPT !["requestMetaInfo"] = held] :
                          held \in {{}, {ToSend(item.hash, "persistTorrents")}}}
    /\ UNCHANGED <<sampled, channel, dbVars>>

-----------------------------------------------------------------------------
\* A batch without its repetitions.
Once(batch) == FoldLeft(LAMBDA seen, h : IF h \in ToSet(seen) THEN seen ELSE Append(seen, h), <<>>, batch)

\* MUTANT: only the first part of a batch becomes a job.
JobsForFirst(batch) ==
    LET once == Once(batch)
    IN {SubSeq(once, 1, IF ClassifyBatch < Len(once) THEN ClassifyBatch ELSE Len(once))}

\* The jobs that classify a batch: its hashes without repetitions, in order, ClassifyBatch at a time.
JobsFor(batch) ==
    LET once == Once(batch)
    IN {SubSeq(once, i, IF i + ClassifyBatch - 1 < Len(once) THEN i + ClassifyBatch - 1 ELSE Len(once)) :
          i \in {j \in 1..Len(once) : (j - 1) % ClassifyBatch = 0}}

\* The unique index on the fingerprint of an unsettled job refuses a second one with the same payload,
\* and with it the whole transaction.
MayStore(batch) == JobsFor(batch) \cap jobs = {}

\* runPersistTorrents: torrents, sources and jobs in one transaction; then on to scrape.
Store(n) ==
    /\ Ready("persistTorrents", n)
    /\ LET batch == Batch("persistTorrents", n)
           stored == ToSet(batch)
       IN /\ MayStore(batch)
          /\ TakeAndHold("persistTorrents", n, {ToSend(h, "scrape") : h \in stored})
          /\ torrents' = [h \in Hashes |->
                            IF h \in stored /\ torrents[h] \notin Stored THEN "stored" ELSE torrents[h]]
          /\ classified' = classified \ stored
          /\ jobs' = jobs \cup JobsFor(batch)
    /\ UNCHANGED sampled

\* The transaction fails, always when a job's payload is already queued: the batch is dropped.
StoreFails(n) ==
    /\ Ready("persistTorrents", n)
    /\ TakeAndHold("persistTorrents", n, {})
    /\ UNCHANGED <<sampled, dbVars>>

\* runPersistSources: the seeders and leechers of torrents that still exist; an error drops the batch.
StoreSources(n) ==
    /\ Ready("persistSources", n)
    /\ TakeAndHold("persistSources", n, {})
    /\ torrents' \in {torrents,
                      [h \in Hashes |-> IF h \in ToSet(Batch("persistSources", n)) /\ torrents[h] = "stored"
                                        THEN "scraped" ELSE torrents[h]]}
    /\ UNCHANGED <<sampled, classified, jobs>>

\* The queue settles a classification job.
JobSettles(j) ==
    /\ jobs' = jobs \ {j}
    /\ classified' = classified \cup {h \in ToSet(j) : torrents[h] \in Stored}
    /\ UNCHANGED <<sampled, channel, hands, torrents>>

\* A torrent is deleted.
Delete(h) ==
    /\ torrents[h] \in Stored
    /\ torrents' = [torrents EXCEPT ![h] = "absent"]
    /\ classified' = classified \ {h}
    /\ UNCHANGED <<sampled, channel, hands, jobs>>

CrInit ==
    /\ sampled = 0
    /\ channel = [s \in Stages |-> <<>>]
    /\ hands = [s \in {"sample"} \cup Stages |-> {}]
    /\ torrents = [h \in Hashes |-> "absent"]
    /\ classified = {} /\ jobs = {}

SendSome(stage) == \E item \in hands[stage] : SendOn(stage, item)
TriageStep ==
    \E n \in 1..TriageBatch : (\E blocked \in SUBSET BadHashes : Triage(n, blocked)) \/ TriageFails(n)
StoreStep == \E n \in 1..TriageBatch : Store(n) \/ StoreFails(n)
SourcesStep == \E n \in 1..TriageBatch : StoreSources(n)
AskStep(stage) == Ask(stage) \/ Answered(stage) \/ Unanswered(stage)
FetchStep == (\E listed \in SUBSET BadHashes : StartFetch(listed)) \/ FetchFails \/ Fetched

StageStep(stage) ==
    \/ SendSome(stage)
    \/ AskStep(stage)
    \/ stage = "triage" /\ TriageStep
    \/ stage = "requestMetaInfo" /\ FetchStep
    \/ stage = "persistTorrents" /\ StoreStep
    \/ stage = "persistSources" /\ SourcesStep

CrNext ==
    \/ \E fresh \in SUBSET Hashes \ {{}} : Sample(fresh)
    \/ \E h \in Hashes : Delete(h)
    \/ \E stage \in {"sample"} \cup Stages : StageStep(stage)
    \/ \E j \in jobs : JobSettles(j)

\* Some goroutine that can run does run: tickers flush batches and requests time out.  No more is
\* needed, since no hash moves back.
CrFairness == WF_crVars(\E stage \in {"sample"} \cup Stages : StageStep(stage))

CrSpec == CrInit /\ [][CrNext]_crVars /\ CrFairness

-----------------------------------------------------------------------------
\* A torrent the crawler has stored is classified or named by a job that will classify it, whatever
\* fails on the way and however often its hash is found again (persist.go:104-136).
TorrentsAreClassified ==
    \A h \in Hashes : torrents[h] \in Stored /\ h \notin classified => \E j \in jobs : h \in ToSet(j)

\* The pipeline never wedges: once nothing new is sampled it becomes empty and stays so, although
\* every send between stages blocks without a timeout.
PipelineDrains ==
    <>[](/\ \A s \in Stages : channel[s] = <<>>
         /\ \A s \in DOMAIN hands : hands[s] = {})
=============================================================================
