---------------------------- MODULE MCComponents ----------------------------
(***************************************************************************)
(* Small instances of the components that meet the rest of the program     *)
(* only at the interfaces their modules describe (an answer, a full or an  *)
(* empty channel, a lock).  Each behaviour is one of one component.        *)
(***************************************************************************)
EXTENDS TLC, ProcessorLocks, MCKTable, DhtServer, DhtResponder, Crawler, Evidence

VARIABLE component   \* the component that this behaviour is about

\* Two places where a second batch must be able to form, one elsewhere.
crRoom == [s \in Stages |-> IF s \in {"triage", "persistTorrents", "persistSources"} THEN 2 ELSE 1]

\* Reports about one torrent that differ in strength, time and object, and one that carries no label.
evReports ==
    {[kind |-> "webhookGrab", torrent |-> "a", instance |-> "sonarr", at |-> 1],
     [kind |-> "webhookGrab", torrent |-> "a", instance |-> "radarr", at |-> 2],
     [kind |-> "webhookImport", torrent |-> "a", instance |-> "sonarr", at |-> 2],
     [kind |-> "pollImport", torrent |-> "a", instance |-> "radarr", at |-> 1],
     [kind |-> "publicCategory", torrent |-> "a", instance |-> "qb", at |-> 2],
     [kind |-> "privateCategory", torrent |-> "a", instance |-> "qb", at |-> 1],
     [kind |-> "state", torrent |-> "a", instance |-> "qb", at |-> 2]}
evFeatures == [t \in {"a"} |-> {"codec", "tracker"}]

Symmetry == Permutations(Txs)

mcVars == <<component, lkVars, ktVars, dhtVars, rspVars, crVars, evVars>>

Init ==
    /\ component \in {"locks", "ktable", "server", "responder", "crawler", "evidence"}
    /\ LkInit /\ KtInit /\ DhtInit /\ RspInit /\ CrInit /\ EvInit

Next ==
    /\ UNCHANGED component
    /\ \/ component = "locks" /\ LkNext /\ UNCHANGED <<ktVars, dhtVars, rspVars, crVars, evVars>>
       \/ component = "ktable" /\ KtNext /\ UNCHANGED <<lkVars, dhtVars, rspVars, crVars, evVars>>
       \/ component = "server" /\ DhtNext /\ UNCHANGED <<lkVars, ktVars, rspVars, crVars, evVars>>
       \/ component = "responder" /\ RspNext /\ UNCHANGED <<lkVars, ktVars, dhtVars, crVars, evVars>>
       \/ component = "crawler" /\ CrNext /\ UNCHANGED <<lkVars, ktVars, dhtVars, rspVars, evVars>>
       \/ component = "evidence" /\ EvNext /\ UNCHANGED <<lkVars, ktVars, dhtVars, rspVars, crVars>>

Spec == Init /\ [][Next]_mcVars

\* The variables of every component keep their types: channels, bursts and tables never exceed their
\* sizes, and the routing table never holds this node itself (ktable/keyspace.go, limiter.go,
\* the channels of dhtcrawler/factory.go).
ComponentsTypeOK == KtTypeOK /\ DhtTypeOK /\ RspTypeOK /\ CrTypeOK /\ EvTypeOK
=============================================================================
