------------------------------ MODULE Liveness ------------------------------
(***************************************************************************)
(* internal/evidence/liveness and the writes of internal/seeds: whether a  *)
(* torrent is alive, suspect or dead.  Observations of the download        *)
(* clients and imports arrive from several goroutines at once, trackers    *)
(* are scraped in batches, and the revalidator asks the DHT about dead     *)
(* torrents.  Each statement is atomic; the promotion to dead is a         *)
(* statement of its own, after the one that counted the observation.       *)
(*                                                                         *)
(* Times are what the code compares: whether suspect_first_seen_at is at   *)
(* least the stall threshold ago, and the order in which the timers of     *)
(* dead rows run out (every timer is armed for the same TTL).              *)
(***************************************************************************)
EXTENDS Integers, Sequences, Functions

CONSTANTS
    Watched,          \* torrents
    Ingesters,        \* goroutines that insert evidence and run its hook
    MinObservations,  \* suspect observations before a torrent may be dead
    LookupBatch,      \* RevalidateBatchSize
    MaxObservations,  \* bound on suspect_observations
    MaxTimeouts       \* bound on DHT lookups that use up their time

ASSUME LivenessAssumption ==
    /\ MinObservations \in Nat \ {0} /\ LookupBatch \in Nat \ {0}
    /\ MaxObservations \in Nat /\ MaxTimeouts \in Nat

VARIABLES
    rows,       \* torrent -> its row of torrent_liveness
    timers,     \* dead torrents in the order of next_revalidate_at
    elapsed,    \* how many of these timers have run out
    promoting,  \* ingester -> the torrents (at most one) that it is about to mark dead
    lookups,    \* torrents of the revalidator's cycle whose lookup has not ended
    timeouts,   \* lookups that have used up their time so far
    stalls      \* torrent -> suspect observations of a download client since it was last alive

lvVars == <<rows, timers, elapsed, promoting, lookups, timeouts, stalls>>

\* qb: last_qb_state is not null; first: suspect_first_seen_at.
Row == [status : {"none", "alive", "suspect", "dead"}, qb : BOOLEAN, first : {"null", "recent", "old"},
        count : 0..MaxObservations, local : BOOLEAN]
NoRow == [status |-> "none", qb |-> FALSE, first |-> "null", count |-> 0, local |-> FALSE]
\* A row that an earlier version blacklisted without a timer.
Blacklisted == [NoRow EXCEPT !.status = "dead"]

LvTypeOK ==
    /\ rows \in [Watched -> Row]
    /\ timers \in Seq(Watched) /\ IsInjective(timers) /\ elapsed \in 0..Len(timers)
    /\ promoting \in [Ingesters -> SUBSET Watched]
    /\ lookups \subseteq Watched /\ timeouts \in 0..MaxTimeouts

\* The timers without those of some torrents.
Disarm(gone) ==
    /\ timers' = SelectSeq(timers, LAMBDA t : t \notin gone)
    /\ elapsed' = Len(SelectSeq(SubSeq(timers, 1, elapsed), LAMBDA t : t \notin gone))

\* MUTANT: a timer that is armed again comes first.
RearmedFirst(h) ==
    /\ timers' = <<h>> \o SelectSeq(timers, LAMBDA t : t # h)
    /\ elapsed' = Len(SelectSeq(SubSeq(timers, 1, elapsed), LAMBDA t : t # h))

\* next_revalidate_at = now() + TTL: the timer comes last.
Rearmed(h) ==
    /\ timers' = Append(SelectSeq(timers, LAMBDA t : t # h), h)
    /\ elapsed' = Len(SelectSeq(SubSeq(timers, 1, elapsed), LAMBDA t : t # h))

-----------------------------------------------------------------------------
AliveRow(qb, local) == [status |-> "alive", qb |-> qb, first |-> "null", count |-> 0, local |-> local]

\* Store.MarkAlive: any earlier state is cleared.  local: the source is qb_state or arr_webhook_import.
MarkAlive(h, qb, local) ==
    /\ rows' = [rows EXCEPT ![h] = AliveRow(qb, local)]
    /\ stalls' = [stalls EXCEPT ![h] = 0]
    /\ Disarm({h})

\* handleQBState with a state of the alive class.
ObserveAlive(i, h) ==
    /\ promoting[i] = {}
    /\ MarkAlive(h, TRUE, TRUE)
    /\ UNCHANGED <<promoting, lookups, timeouts>>

\* handleArrImport.  No source gives an import a category, so none is taken for a private one.
ObserveImport(i, h) ==
    /\ promoting[i] = {}
    /\ MarkAlive(h, FALSE, TRUE)
    /\ UNCHANGED <<promoting, lookups, timeouts>>

\* MUTANT: observations of scrapes count for the download client.
RestartsWindowAlive(row) == row.status \in {"none", "alive"}

\* A new window: no row, an alive one, or one that no download client has observed.
RestartsWindow(row) == row.status \in {"none", "alive"} \/ ~row.qb

\* Store.RecordSuspect.
Suspected(row) ==
    [status |-> IF row.status = "dead" THEN "dead" ELSE "suspect",
     qb |-> TRUE,
     first |-> IF RestartsWindow(row) \/ row.first = "null" THEN "recent" ELSE row.first,
     count |-> IF RestartsWindow(row) THEN 1 ELSE row.count + 1,
     local |-> row.local]

\* The thresholds of handleQBState.
MayPromote(row) == row.status = "suspect" /\ row.first = "old" /\ row.count >= MinObservations

\* handleQBState with a state of the suspect class: the observation is counted, and the row that
\* comes back decides whether MarkDead follows.
ObserveSuspect(i, h) ==
    /\ promoting[i] = {}
    /\ LET row == Suspected(rows[h])
       IN /\ row.count <= MaxObservations
          /\ rows' = [rows EXCEPT ![h] = row]
          /\ promoting' = [promoting EXCEPT ![i] = IF MayPromote(row) THEN {h} ELSE {}]
    /\ stalls' = [stalls EXCEPT ![h] = @ + 1]
    /\ UNCHANGED <<timers, elapsed, lookups, timeouts>>

\* Store.MarkDead: whatever the row has become meanwhile.
MarkDead(i) ==
    /\ \E h \in promoting[i] :
         /\ rows' = [rows EXCEPT ![h].status = "dead"]
         /\ Rearmed(h)
    /\ promoting' = [promoting EXCEPT ![i] = {}]
    /\ UNCHANGED <<lookups, timeouts, stalls>>

\* The statement fails, or the process stops before it.
MarkDeadFails(i) ==
    /\ promoting[i] # {}
    /\ promoting' = [promoting EXCEPT ![i] = {}]
    /\ UNCHANGED <<rows, timers, elapsed, lookups, timeouts, stalls>>

-----------------------------------------------------------------------------
\* markAliveBatch: suspect and dead rows, except those that are dead without a timer.
Revivable(h) == rows[h].status = "suspect" \/ (rows[h].status = "dead" /\ h \in Range(timers))

\* recordSuspectBatch: rows without an observation of a download client, unless alive on local evidence.
MayDoubt(row) == ~row.qb /\ ~(row.status = "alive" /\ row.local)

Doubted(row) ==
    [status |-> IF row.status = "dead" THEN "dead" ELSE "suspect",
     qb |-> row.qb,
     first |-> IF row.status = "alive" \/ row.first = "null" THEN "recent" ELSE row.first,
     count |-> IF row.status = "alive" THEN 1 ELSE row.count + 1,
     local |-> row.local]

\* RunBatch: one transaction for the swarms that trackers found (positives) and those they know to be
\* empty (zeros).
Scrape(positives, zeros) ==
    LET revived == {h \in positives : Revivable(h)}
        doubted == {h \in zeros : MayDoubt(rows[h])}
    IN /\ positives \cap zeros = {}
       /\ \A h \in doubted : rows[h].count < MaxObservations
       /\ rows' = [h \in Watched |->
                     IF h \in revived
                     THEN AliveRow(rows[h].qb, FALSE)
                     ELSE IF h \in doubted THEN Doubted(rows[h]) ELSE rows[h]]
       /\ stalls' = [h \in Watched |-> IF h \in revived THEN 0 ELSE stalls[h]]
       /\ Disarm(revived)
       /\ UNCHANGED <<promoting, lookups, timeouts>>

-----------------------------------------------------------------------------
\* runOnce: DueForRevalidation, the oldest timers first.
StartCycle ==
    /\ lookups = {}
    /\ elapsed > 0
    /\ lookups' = Range(SubSeq(timers, 1, IF elapsed < LookupBatch THEN elapsed ELSE LookupBatch))
    /\ UNCHANGED <<rows, timers, elapsed, promoting, timeouts, stalls>>

\* revalidateOneWith finds enough peers: MarkAliveFromDHT.
LookupFinds(h) ==
    /\ h \in lookups
    /\ lookups' = lookups \ {h}
    /\ MarkAlive(h, FALSE, FALSE)
    /\ UNCHANGED <<promoting, timeouts>>

\* It finds too few, or knows no nodes: RearmRevalidate, if the row is still dead.
LookupFindsNone(h) ==
    /\ h \in lookups
    /\ lookups' = lookups \ {h}
    /\ IF rows[h].status = "dead" THEN Rearmed(h) ELSE UNCHANGED <<timers, elapsed>>
    /\ UNCHANGED <<rows, promoting, timeouts, stalls>>

\* Its time is used up: the statement that should follow runs in the same context and fails.
LookupTimesOut(h) ==
    /\ h \in lookups
    /\ timeouts < MaxTimeouts
    /\ lookups' = lookups \ {h}
    /\ timeouts' = timeouts + 1
    /\ UNCHANGED <<rows, timers, elapsed, promoting, stalls>>

\* Time passes: the next timer runs out, or the stall threshold of a row.
TimerElapses ==
    /\ elapsed < Len(timers)
    /\ elapsed' = elapsed + 1
    /\ UNCHANGED <<rows, timers, promoting, lookups, timeouts, stalls>>

ThresholdPasses(h) ==
    /\ rows[h].first = "recent"
    /\ rows' = [rows EXCEPT ![h].first = "old"]
    /\ UNCHANGED <<timers, elapsed, promoting, lookups, timeouts, stalls>>

LvInit ==
    /\ rows \in [Watched -> {NoRow, Blacklisted}]
    /\ timers = <<>> /\ elapsed = 0
    /\ promoting = [i \in Ingesters |-> {}]
    /\ lookups = {} /\ timeouts = 0
    /\ stalls = [h \in Watched |-> 0]

LookupEnds == \E h \in lookups : LookupFinds(h) \/ LookupFindsNone(h) \/ LookupTimesOut(h)

LvNext ==
    \/ \E i \in Ingesters, h \in Watched : ObserveAlive(i, h) \/ ObserveImport(i, h) \/ ObserveSuspect(i, h)
    \/ \E i \in Ingesters : MarkDead(i) \/ MarkDeadFails(i)
    \/ \E positives, zeros \in SUBSET Watched : Scrape(positives, zeros)
    \/ StartCycle \/ LookupEnds \/ TimerElapses
    \/ \E h \in Watched : ThresholdPasses(h)

\* The revalidator's ticker goes on, lookups end, and time passes.
LvFairness == WF_lvVars(StartCycle) /\ WF_lvVars(LookupEnds) /\ WF_lvVars(TimerElapses)

LvSpec == LvInit /\ [][LvNext]_lvVars /\ LvFairness

-----------------------------------------------------------------------------
\* What promotes a torrent to dead are observations of a download client since it was last alive:
\* zeros that trackers report never add to them, in whatever order scrapes, imports, lookups and
\* observations come (store.go:153-158 and 459-471 of liveness).
CountsAreLocal ==
    \A h \in Watched : rows[h].status = "suspect" /\ rows[h].qb => rows[h].count <= stalls[h]

\* A dead torrent with a timer is looked up again or revived, also when there are more of them than
\* one cycle takes and lookups have failed before (store.go:277-284, revalidator.go:202).
DeadAreRevisited == \A h \in Watched : h \in Range(timers) ~> (h \in lookups \/ rows[h].status # "dead")
=============================================================================
