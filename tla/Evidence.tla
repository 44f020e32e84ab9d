------------------------------ MODULE Evidence ------------------------------
(***************************************************************************)
(* internal/evidence and internal/evidence/priors: what Sonarr, Radarr and *)
(* qBittorrent report about torrents.  A report is stored once, with the   *)
(* label of its torrent, in one transaction; after it a hook of the same   *)
(* goroutine records a grab or resolves the grabs of an import.  Expirers  *)
(* (one a process) turn the grabs that nothing imported into failures, in  *)
(* one transaction, and count them in another.                             *)
(*                                                                         *)
(* No source gives an import a category, so no import is a private one.    *)
(***************************************************************************)
EXTENDS Integers, FiniteSets

CONSTANTS
    Reports,     \* reports: [kind, torrent, instance, at]; at is observed_at
    Features,    \* feature keys
    FeaturesOf,  \* torrent -> the features of its title and its sources
    TitleOnly,   \* the features that do not need the lookup of its sources
    Expirers

ReportKinds == {"webhookGrab", "webhookImport", "pollGrab", "pollImport", "publicCategory", "privateCategory", "state"}

ASSUME EvidenceAssumption ==
    /\ \A e \in Reports : e.kind \in ReportKinds /\ e.at \in Nat /\ FeaturesOf[e.torrent] \subseteq Features
    /\ TitleOnly \subseteq Features /\ IsFiniteSet(Expirers)

VARIABLES
    evidence,   \* the table label_evidence
    canonical,  \* torrent_canonical_labels: the reports that the labels come from
    hooks,      \* reports whose hook has not run
    attempts,   \* torrent_grab_attempts: grab -> [outcome, features]
    alpha, beta,\* grab_outcome_priors: feature -> successes and failures
    expired,    \* expirer -> features of the attempts it has marked as failures and not counted
    resolved    \* every outcome an attempt was ever given (history, not code)

evVars == <<evidence, canonical, hooks, attempts, alpha, beta, expired, resolved>>
priorsVars == <<attempts, alpha, beta, expired, resolved>>

\* The grabs that make rows of torrent_grab_attempts.
Grabs == {e \in Reports : e.kind = "webhookGrab"}
Attempt == [outcome : {"pending", "success", "failure"}, features : SUBSET Features]

EvTypeOK ==
    /\ evidence \subseteq Reports /\ canonical \subseteq evidence /\ hooks \subseteq evidence
    /\ DOMAIN attempts \subseteq Grabs /\ attempts \in [DOMAIN attempts -> Attempt]
    /\ alpha \in [Features -> Nat] /\ beta \in [Features -> Nat]
    /\ expired \in [Expirers -> SUBSET Features]
    /\ resolved \subseteq Grabs \X {"success", "failure"}

-----------------------------------------------------------------------------
\* The ranks of the kinds that carry a label.
Strength(e) ==
    CASE e.kind = "publicCategory" -> 30
      [] e.kind = "privateCategory" -> 40
      [] e.kind \in {"pollGrab", "webhookGrab"} -> 60
      [] e.kind = "pollImport" -> 80
      [] e.kind = "webhookImport" -> 100

LabelBearing(e) == e.kind # "state"

\* The unique index on source, kind, instance and object: a webhook names the download, a category
\* its torrent, whatever the category is; an entry of a history and a state also have their own time.
SameObject(d, e) ==
    LET kind(x) == IF x.kind \in {"publicCategory", "privateCategory"} THEN "category" ELSE x.kind
    IN /\ kind(d) = kind(e) /\ d.torrent = e.torrent /\ d.instance = e.instance
       /\ kind(d) \in {"pollGrab", "pollImport", "state"} => d.at = e.at

\* MUTANT: the later label wins.
OutranksLater(e, label) == label.at < e.at

\* The condition of the upsert.
Outranks(e, label) ==
    Strength(label) < Strength(e) \/ (Strength(label) = Strength(e) /\ label.at < e.at)

\* Insert up to the commit; a duplicate changes nothing, and its hook does not run.
Insert(e) ==
    LET labels == {l \in canonical : l.torrent = e.torrent}
    IN /\ \A d \in evidence : ~SameObject(d, e)
       /\ evidence' = evidence \cup {e}
       /\ canonical' = IF LabelBearing(e) /\ \A l \in labels : Outranks(e, l)
                       THEN (canonical \ labels) \cup {e}
                       ELSE canonical
       /\ hooks' = IF e.kind \in {"webhookGrab", "webhookImport"} THEN hooks \cup {e} ELSE hooks
       /\ UNCHANGED priorsVars

-----------------------------------------------------------------------------
Counted(counts, keys) == [k \in Features |-> counts[k] + (IF k \in keys THEN 1 ELSE 0)]

\* mergeFeatures: each feature once for all the attempts.
MergeFeatures(grabs) == UNION {attempts[g].features : g \in grabs}

WithOutcome(grabs, outcome) ==
    [g \in DOMAIN attempts |-> IF g \in grabs THEN [attempts[g] EXCEPT !.outcome = outcome] ELSE attempts[g]]

\* handleGrab; the lookup of the sources may fail.
RecordGrab(e, features) ==
    /\ e \in hooks
    /\ e.kind = "webhookGrab"
    /\ attempts' = [g \in DOMAIN attempts \cup {e} |->
                      IF g = e THEN [outcome |-> "pending", features |-> features] ELSE attempts[g]]
    /\ hooks' = hooks \ {e}
    /\ UNCHANGED <<evidence, canonical, alpha, beta, expired, resolved>>

\* handleImport: ResolvePendingAndIncrement in one transaction.
ResolveImport(e) ==
    LET pending == {g \in DOMAIN attempts : g.torrent = e.torrent /\ attempts[g].outcome = "pending"}
    IN /\ e \in hooks
       /\ e.kind = "webhookImport"
       /\ attempts' = WithOutcome(pending, "success")
       /\ alpha' = Counted(alpha, MergeFeatures(pending))
       /\ resolved' = resolved \cup (pending \X {"success"})
       /\ hooks' = hooks \ {e}
       /\ UNCHANGED <<evidence, canonical, beta, expired>>

\* The hook fails, runs out of time, or the process stops before it: nothing runs it again.
HookLost(e) ==
    /\ e \in hooks
    /\ hooks' = hooks \ {e}
    /\ UNCHANGED <<evidence, canonical, priorsVars>>

\* MUTANT: the age of an attempt is all that counts.
ExpirableByAge(g) == g \in DOMAIN attempts

Expirable(g) == g \in DOMAIN attempts /\ attempts[g].outcome = "pending"

\* ExpirePending: attempts that are old enough, up to the batch size and not locked by another.
ExpirePending(x, grabs) ==
    /\ expired[x] = {}
    /\ grabs # {}
    /\ \A g \in grabs : Expirable(g)
    /\ attempts' = WithOutcome(grabs, "failure")
    /\ expired' = [expired EXCEPT ![x] = MergeFeatures(grabs)]
    /\ resolved' = resolved \cup (grabs \X {"failure"})
    /\ UNCHANGED <<evidence, canonical, hooks, alpha, beta>>

\* ApplyExpired: IncrementPriors, in a transaction of its own.
ApplyExpired(x) ==
    /\ expired[x] # {}
    /\ beta' = Counted(beta, expired[x])
    /\ expired' = [expired EXCEPT ![x] = {}]
    /\ UNCHANGED <<evidence, canonical, hooks, attempts, alpha, resolved>>

\* IncrementPriors fails, or the process stops before it.
ApplyFails(x) ==
    /\ expired[x] # {}
    /\ expired' = [expired EXCEPT ![x] = {}]
    /\ UNCHANGED <<evidence, canonical, hooks, attempts, alpha, beta, resolved>>

\* PurgeResolved: attempts resolved long enough ago.
PurgeResolved(grabs) ==
    /\ grabs # {}
    /\ \A g \in grabs : g \in DOMAIN attempts /\ attempts[g].outcome # "pending"
    /\ attempts' = [g \in DOMAIN attempts \ grabs |-> attempts[g]]
    /\ UNCHANGED <<evidence, canonical, hooks, alpha, beta, expired, resolved>>

EvInit ==
    /\ evidence = {} /\ canonical = {} /\ hooks = {}
    /\ attempts = [g \in {} |-> {}]
    /\ alpha = [k \in Features |-> 0] /\ beta = [k \in Features |-> 0]
    /\ expired = [x \in Expirers |-> {}]
    /\ resolved = {}

EvNext ==
    \/ \E e \in Reports :
         \/ Insert(e) \/ ResolveImport(e) \/ HookLost(e)
         \/ RecordGrab(e, FeaturesOf[e.torrent]) \/ RecordGrab(e, FeaturesOf[e.torrent] \cap TitleOnly)
    \/ \E grabs \in SUBSET Grabs : PurgeResolved(grabs) \/ \E x \in Expirers : ExpirePending(x, grabs)
    \/ \E x \in Expirers : ApplyExpired(x) \/ ApplyFails(x)

EvSpec == EvInit /\ [][EvNext]_evVars

-----------------------------------------------------------------------------
\* The label of a torrent comes from the strongest report stored about it, the latest of these, in
\* whatever order webhooks and pollers store them (store.go:117-138): none stored outranks it.
CanonicalIsStrongest ==
    \A e \in evidence : LabelBearing(e) =>
        \E l \in canonical : /\ l.torrent = e.torrent
                              /\ \/ Strength(l) > Strength(e)
                                 \/ Strength(l) = Strength(e) /\ l.at >= e.at

\* A grab is a success or a failure, never one after the other, although imports, two expirers and
\* the purge race for its row; and no feature has more successes or failures than there were grabs
\* (store.go:267-290 and 140-148 of priors).
OutcomesCountOnce ==
    LET given(outcome) == {g \in Grabs : <<g, outcome>> \in resolved}
        carry(grabs, k) == Cardinality({g \in grabs : k \in FeaturesOf[g.torrent]})
    IN /\ given("success") \cap given("failure") = {}
       /\ \A k \in Features :
            /\ alpha[k] <= carry(given("success"), k)
            /\ beta[k] + Cardinality({x \in Expirers : k \in expired[x]}) <= carry(given("failure"), k)
=============================================================================
