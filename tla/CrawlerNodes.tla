---------------------------- MODULE CrawlerNodes ----------------------------
(***************************************************************************)
(* internal/dhtcrawler, the cycle of nodes: discovered nodes are           *)
(* dispatched to the find_node, sample_infohashes and ping channels, and   *)
(* what find_node and the others learn is discovered again.  Every channel *)
(* is bounded and the sends of find_node block without a timeout.          *)
(*                                                                         *)
(* Nodes are counted, not named.  The discovered-nodes channel is the      *)
(* abstract queue that BatchingChannel implements; a buffered channel with *)
(* its workers is a queue and a number of busy workers (BufferedConcurrent *)
(* Channel.Run).                                                           *)
(***************************************************************************)
EXTENDS Integers, FiniteSets

CONSTANTS
    NodeDepth,     \* what the discovered-nodes channel holds
    NodeBatch,     \* its batch size
    NodeQueue,     \* capacity of each of the three node channels
    Finders,       \* find_node workers
    Samplers,      \* sample_infohashes workers
    MaxNodes       \* most nodes in one reply

ASSUME CrawlerNodesAssumption ==
    NodeDepth \in Nat \ {0} /\ NodeBatch \in Nat \ {0} /\ NodeQueue \in Nat \ {0} /\ MaxNodes \in Nat

VARIABLES
    found,        \* nodes in the discovered-nodes channel
    dispatching,  \* nodes of the current batch that still wait for a channel
    nodesFor,     \* "find", "sample", "ping" -> nodes in that channel
    finder,       \* find_node worker -> nodes of its reply it still has to discover, Asking or Free
    sampler,      \* sample worker -> "free", "asking" or "triage" (blocked on the hash pipeline)
    pinging       \* whether the ping worker is busy

cnVars == <<found, dispatching, nodesFor, finder, sampler, pinging>>

Free == -1
Asking == 0
NodeChannels == {"find", "sample", "ping"}

-----------------------------------------------------------------------------
\* runDiscoveredNodes takes a batch; repeated and known addresses are left out.
TakeNodes ==
    /\ dispatching = 0
    /\ \E n \in 1..NodeBatch : \E unknown \in 0..n :
         /\ n <= found
         /\ found' = found - n
         /\ dispatching' = unknown
    /\ UNCHANGED <<nodesFor, finder, sampler, pinging>>

\* MUTANT: discovered nodes are sent to find_node only.
DispatchableFind(ch) == ch = "find"

Dispatchable(ch) == ch \in NodeChannels

\* The select over the three channels.
Dispatch ==
    /\ dispatching > 0
    /\ \E ch \in NodeChannels :
         /\ Dispatchable(ch)
         /\ nodesFor[ch] < NodeQueue
         /\ nodesFor' = [nodesFor EXCEPT ![ch] = @ + 1]
    /\ dispatching' = dispatching - 1
    /\ UNCHANGED <<found, finder, sampler, pinging>>

\* getNodesForFindNode, getNodesForSampleInfoHashes, getOldNodes and reseedBootstrapNodes add nodes of
\* the table and of the configuration to the same channels.
Feed(ch) ==
    /\ nodesFor[ch] < NodeQueue
    /\ nodesFor' = [nodesFor EXCEPT ![ch] = @ + 1]
    /\ UNCHANGED <<found, dispatching, finder, sampler, pinging>>

NodesHaveRoom == found < NodeDepth

\* The offers with a timeout: incoming requests, replies to get_peers, scrape and sample_infohashes.
Offer ==
    /\ NodesHaveRoom
    /\ found' = found + 1
    /\ UNCHANGED <<dispatching, nodesFor, finder, sampler, pinging>>

\* runFindNode: a worker asks; the reply fails or names some nodes.
FindStart(w) ==
    /\ finder[w] = Free
    /\ nodesFor["find"] > 0
    /\ nodesFor' = [nodesFor EXCEPT !["find"] = @ - 1]
    /\ finder' = [finder EXCEPT ![w] = Asking]
    /\ UNCHANGED <<found, dispatching, sampler, pinging>>

FindReply(w) ==
    /\ finder[w] = Asking
    /\ finder' \in {[finder EXCEPT ![w] = r] : r \in {Free} \cup (1..MaxNodes)}
    /\ UNCHANGED <<found, dispatching, nodesFor, sampler, pinging>>

\* It blocks until every node is in the discovered-nodes channel.
FindSend(w) ==
    /\ finder[w] \in 1..MaxNodes
    /\ NodesHaveRoom
    /\ found' = found + 1
    /\ finder' = [finder EXCEPT ![w] = IF @ = 1 THEN Free ELSE @ - 1]
    /\ UNCHANGED <<dispatching, nodesFor, sampler, pinging>>

\* runSampleInfoHashes: the reply fails, or its hashes wait for the triage channel.
SampleStart(w) ==
    /\ sampler[w] = "free"
    /\ nodesFor["sample"] > 0
    /\ nodesFor' = [nodesFor EXCEPT !["sample"] = @ - 1]
    /\ sampler' = [sampler EXCEPT ![w] = "asking"]
    /\ UNCHANGED <<found, dispatching, finder, pinging>>

SampleReply(w) ==
    /\ sampler[w] = "asking"
    /\ sampler' \in {[sampler EXCEPT ![w] = r] : r \in {"free", "triage"}}
    /\ UNCHANGED <<found, dispatching, nodesFor, finder, pinging>>

SampleSent(w) ==
    /\ sampler[w] = "triage"
    /\ sampler' = [sampler EXCEPT ![w] = "free"]
    /\ UNCHANGED <<found, dispatching, nodesFor, finder, pinging>>

\* runPing sends nothing on: its worker always becomes free.
PingStart ==
    /\ ~pinging
    /\ nodesFor["ping"] > 0
    /\ nodesFor' = [nodesFor EXCEPT !["ping"] = @ - 1]
    /\ pinging' = TRUE
    /\ UNCHANGED <<found, dispatching, finder, sampler>>

PingEnd ==
    /\ pinging
    /\ pinging' = FALSE
    /\ UNCHANGED <<found, dispatching, nodesFor, finder, sampler>>

CnInit ==
    /\ found = 0 /\ dispatching = 0
    /\ nodesFor = [ch \in NodeChannels |-> 0]
    /\ finder = [w \in Finders |-> Free]
    /\ sampler = [w \in Samplers |-> "free"]
    /\ pinging = FALSE

FindStep(w) == FindStart(w) \/ FindReply(w) \/ FindSend(w)

CnNext ==
    \/ TakeNodes \/ Dispatch \/ Offer
    \/ \E ch \in NodeChannels : Feed(ch)
    \/ \E w \in Finders : FindStep(w)
    \/ \E w \in Samplers : SampleStart(w) \/ SampleReply(w) \/ SampleSent(w)
    \/ PingStart \/ PingEnd

\* Goroutines run and requests time out.  Those that wait at a Go channel are served in order, so
\* none is overtaken for ever (strong fairness).  Nothing is asked of the hash
\* pipeline: SampleSent has no fairness.
CnFairness ==
    /\ WF_cnVars(TakeNodes) /\ SF_cnVars(Dispatch)
    /\ WF_cnVars(PingStart \/ PingEnd)
    /\ \A w \in Finders : WF_cnVars(FindStep(w)) /\ SF_cnVars(FindSend(w))

CnSpec == CnInit /\ [][CnNext]_cnVars /\ CnFairness

-----------------------------------------------------------------------------
\* The cycle of bounded channels never wedges, even when the hash pipeline takes nothing more and
\* every sampler is blocked: a batch of discovered nodes is dispatched, and a find_node worker gets
\* rid of its reply (find_node.go:37-45 against discovered_nodes.go:48-60).
NodeCycleFlows ==
    /\ dispatching > 0 ~> dispatching = 0
    /\ \A w \in Finders : finder[w] # Free ~> finder[w] = Free
=============================================================================
