----------------------------- MODULE MCProgress -----------------------------
(***************************************************************************)
(* Small instances of the components that hand things on and must not get  *)
(* stuck: the feedback of a processor, the batching channel, and the two   *)
(* cycles of the crawler.  Each behaviour is one of one component.         *)
(***************************************************************************)
EXTENDS ProcessorFeedback, BatchingChannel, CrawlerNodes, Crawler

VARIABLE component   \* the component that this behaviour is about

\* Two places where a second batch must be able to form, one elsewhere.
crRoom == [s \in Stages |-> IF s \in {"triage", "persistTorrents", "persistSources"} THEN 2 ELSE 1]

mcVars == <<component, fbVars, bcVars, cnVars, crVars>>

Init ==
    /\ component \in {"feedback", "batching", "nodes", "hashes"}
    /\ FbInit /\ BcInit /\ CnInit /\ CrInit

Next ==
    /\ UNCHANGED component
    /\ \/ component = "feedback" /\ FbNext /\ UNCHANGED <<bcVars, cnVars, crVars>>
       \/ component = "batching" /\ BcNext /\ UNCHANGED <<fbVars, cnVars, crVars>>
       \/ component = "nodes" /\ CnNext /\ UNCHANGED <<fbVars, bcVars, crVars>>
       \/ component = "hashes" /\ CrNext /\ UNCHANGED <<fbVars, bcVars, cnVars>>

\* No fair action of a component is enabled in its initial state, so the fairness of the components
\* that do not run asks for nothing.
Spec == Init /\ [][Next]_mcVars /\ FbFairness /\ BcFairness /\ CnFairness /\ CrFairness
=============================================================================
