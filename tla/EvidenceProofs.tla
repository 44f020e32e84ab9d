--------------------------- MODULE EvidenceProofs ---------------------------
(***************************************************************************)
(* What labels, outcomes and counts of suspect observations mean, for any  *)
(* number of reports, torrents, features, expirers and goroutines.         *)
(***************************************************************************)
EXTENDS Evidence, Liveness, FiniteSetTheorems, TLAPS

-----------------------------------------------------------------------------
(* Canonical labels *)

\* Labels come from stored reports that carry one.
LabelsAreStored ==
    /\ evidence \subseteq Reports
    /\ canonical \subseteq evidence
    /\ \A l \in canonical : LabelBearing(l)

LabelInv == LabelsAreStored /\ CanonicalIsStrongest

\* The ranks are numbers.
LEMMA StrengthIsNat == ASSUME NEW e \in Reports, LabelBearing(e) PROVE Strength(e) \in Nat /\ e.at \in Nat
  BY EvidenceAssumption DEF Strength, LabelBearing, ReportKinds

\* The label that replaces another is at least as strong as all that the other one was as strong as;
\* and a report that does not replace one meets one that is as strong.
LEMMA InsertKeepsLabels == ASSUME LabelInv, NEW e \in Reports, Insert(e) PROVE LabelInv'
<1> DEFINE labels == {l \in canonical : l.torrent = e.torrent}
           replaces == LabelBearing(e) /\ \A l \in labels : Outranks(e, l)
           covers(l, d) == l.torrent = d.torrent
                            /\ (Strength(l) > Strength(d) \/ (Strength(l) = Strength(d) /\ l.at >= d.at))
<1>1. evidence' = evidence \cup {e}
      /\ canonical' = IF replaces THEN (canonical \ labels) \cup {e} ELSE canonical
  BY DEF Insert
<1>2. LabelsAreStored'
  BY <1>1 DEF LabelInv, LabelsAreStored
<1>3. ASSUME NEW d \in evidence, LabelBearing(d) PROVE \E l \in canonical' : covers(l, d)
  <2>1. PICK l \in canonical : covers(l, d)
    BY <1>3 DEF LabelInv, CanonicalIsStrongest
  <2>2. CASE l \in canonical'
    BY <2>1, <2>2
  <2>3. CASE l \notin canonical'
    <3>1. replaces /\ l \in labels
      BY <1>1, <2>3
    <3>2. Outranks(e, l) /\ e \in canonical' /\ e.torrent = d.torrent
      BY <1>1, <2>1, <3>1
    <3>3. /\ Strength(e) \in Nat /\ Strength(l) \in Nat /\ Strength(d) \in Nat
          /\ e.at \in Nat /\ l.at \in Nat /\ d.at \in Nat
      BY <1>3, <3>1, StrengthIsNat DEF LabelInv, LabelsAreStored
    <3>4. covers(e, d)
      BY <2>1, <3>2, <3>3 DEF Outranks
    <3>5. QED
      BY <3>2, <3>4
  <2>4. QED
    BY <2>2, <2>3
<1>4. ASSUME LabelBearing(e) PROVE \E l \in canonical' : covers(l, e)
  <2>0. Strength(e) \in Nat /\ e.at \in Nat
    BY <1>4, StrengthIsNat
  <2>1. CASE replaces
    <3>1. e \in canonical' /\ covers(e, e)
      BY <1>1, <2>0, <2>1
    <3>2. QED
      BY <3>1
  <2>2. CASE ~replaces
    <3>1. PICK l \in labels : ~Outranks(e, l)
      BY <1>4, <2>2
    <3>2. Strength(l) \in Nat /\ l.at \in Nat
      BY StrengthIsNat DEF LabelInv, LabelsAreStored
    <3>3. covers(l, e)
      BY <2>0, <3>1, <3>2 DEF Outranks
    <3>4. QED
      BY <1>1, <2>2, <3>3
  <2>3. QED
    BY <2>1, <2>2
<1>5. CanonicalIsStrongest'
  <2>1. ASSUME NEW d \in evidence', LabelBearing(d) PROVE \E l \in canonical' : covers(l, d)
    BY <1>1, <1>3, <1>4, <2>1
  <2>2. QED
    BY <2>1 DEF CanonicalIsStrongest, LabelBearing, Strength
<1>6. QED
  BY <1>2, <1>5 DEF LabelInv

\* No other step touches reports or labels.
LEMMA LabelNextInv == LabelInv /\ [EvNext]_evVars => LabelInv'
<1> SUFFICES ASSUME LabelInv, [EvNext]_evVars PROVE LabelInv'
  OBVIOUS
<1>1. ASSUME NEW e \in Reports, Insert(e) PROVE LabelInv'
  BY <1>1, InsertKeepsLabels
<1>2. CASE UNCHANGED <<evidence, canonical>>
  BY <1>2 DEF LabelInv, LabelsAreStored, CanonicalIsStrongest
<1>3. QED
  BY <1>1, <1>2
  DEF EvNext, evVars, RecordGrab, ResolveImport, HookLost, ExpirePending, ApplyExpired, ApplyFails, PurgeResolved

\* The label of a torrent is that of the strongest report stored about it, in whatever order webhooks
\* and pollers deliver (evidence/store.go:117-138).
THEOREM CanonicalIsStrongestAlways == EvSpec => []CanonicalIsStrongest
<1>1. EvInit => LabelInv
  BY DEF EvInit, LabelInv, LabelsAreStored, CanonicalIsStrongest
<1>2. LabelInv => CanonicalIsStrongest
  BY DEF LabelInv
<1>3. QED
  BY <1>1, <1>2, LabelNextInv, PTL DEF EvSpec

-----------------------------------------------------------------------------
(* Outcomes of grabs *)

\* The grabs that were given an outcome, those of them that carry a feature, and the expirers that
\* have marked failures of a feature and not counted them.
Given(outcome) == {g \in Grabs : <<g, outcome>> \in resolved}
Carriers(outcome, k) == {g \in Given(outcome) : k \in FeaturesOf[g.torrent]}
Owing(k) == {x \in Expirers : k \in expired[x]}

\* A grab is on its way, then recorded and pending, then resolved.
GrabsAreTyped ==
    /\ evidence \subseteq Reports /\ IsFiniteSet(evidence)
    /\ hooks \subseteq evidence
    /\ resolved \subseteq (Grabs \cap evidence) \X {"success", "failure"}
    /\ DOMAIN attempts \subseteq Grabs \cap evidence
    /\ \A g \in DOMAIN attempts : attempts[g] \in Attempt /\ attempts[g].features \subseteq FeaturesOf[g.torrent]
    /\ expired \in [Expirers -> SUBSET Features]

\* What is on its way or pending has had no outcome.
PendingIsOpen ==
    /\ hooks \cap DOMAIN attempts = {}
    /\ \A g \in hooks, o \in {"success", "failure"} : <<g, o>> \notin resolved
    /\ \A g \in DOMAIN attempts, o \in {"success", "failure"} :
         attempts[g].outcome = "pending" => <<g, o>> \notin resolved

CountsFollow ==
    /\ alpha \in [Features -> Nat] /\ beta \in [Features -> Nat]
    /\ Given("success") \cap Given("failure") = {}
    /\ \A k \in Features :
         /\ alpha[k] <= Cardinality(Carriers("success", k))
         /\ beta[k] + Cardinality(Owing(k)) <= Cardinality(Carriers("failure", k))

OutcomeInv == GrabsAreTyped /\ PendingIsOpen /\ CountsFollow

\* CountsFollow is OutcomesCountOnce with its counters named.
LEMMA CountsOnce == CountsFollow => OutcomesCountOnce
  BY DEF CountsFollow, OutcomesCountOnce, Given, Carriers, Owing

\* What is counted is finite, however many reports there may be.
LEMMA CarriersAreFinite ==
    ASSUME GrabsAreTyped, NEW o \in {"success", "failure"}, NEW k \in Features
    PROVE  /\ IsFiniteSet(Carriers(o, k)) /\ Cardinality(Carriers(o, k)) \in Nat
           /\ IsFiniteSet(Owing(k)) /\ Cardinality(Owing(k)) \in Nat
<1>1. Carriers(o, k) \subseteq evidence
  BY DEF GrabsAreTyped, Carriers, Given
<1>2. Owing(k) \subseteq Expirers
  BY DEF Owing
<1>3. QED
  BY <1>1, <1>2, FS_Subset, FS_CardinalityType, EvidenceAssumption DEF GrabsAreTyped

\* The same for the next state.
LEMMA CarriersFinitePrimed ==
    ASSUME GrabsAreTyped', NEW o \in {"success", "failure"}, NEW k \in Features
    PROVE  IsFiniteSet(Carriers(o, k)') /\ Cardinality(Carriers(o, k)') \in Nat
<1>1. Carriers(o, k)' \subseteq evidence'
  BY DEF GrabsAreTyped, Carriers, Given
<1>2. QED
  BY <1>1, FS_Subset, FS_CardinalityType DEF GrabsAreTyped

\* Giving open grabs an outcome adds at least one carrier of each feature that they merge to.
LEMMA ResolvingAddsCarriers ==
    ASSUME GrabsAreTyped, GrabsAreTyped', PendingIsOpen,
           NEW o \in {"success", "failure"}, NEW grabs \in SUBSET DOMAIN attempts,
           \A g \in grabs : attempts[g].outcome = "pending",
           resolved' = resolved \cup (grabs \X {o}), NEW k \in Features
    PROVE  /\ Cardinality(Carriers(o, k)) <= Cardinality(Carriers(o, k)')
           /\ k \in MergeFeatures(grabs) => Cardinality(Carriers(o, k)) + 1 <= Cardinality(Carriers(o, k)')
           /\ \A p \in {"success", "failure"} \ {o} : Given(p)' = Given(p)
           /\ Given(o)' = Given(o) \cup grabs
           /\ \A p \in {"success", "failure"} : Given(p) \cap grabs = {}
<1>1. IsFiniteSet(Carriers(o, k)')
  BY CarriersFinitePrimed
<1>2. Carriers(o, k) \subseteq Carriers(o, k)'
  BY DEF Carriers, Given
<1>3. Cardinality(Carriers(o, k)) <= Cardinality(Carriers(o, k)')
  BY <1>1, <1>2, FS_Subset
<1>4. ASSUME k \in MergeFeatures(grabs) PROVE Cardinality(Carriers(o, k)) + 1 <= Cardinality(Carriers(o, k)')
  <2>1. PICK g \in grabs : k \in attempts[g].features
    BY <1>4 DEF MergeFeatures
  <2>2. g \in Carriers(o, k)' /\ g \notin Carriers(o, k)
    BY <2>1 DEF GrabsAreTyped, PendingIsOpen, Carriers, Given
  <2>3. Carriers(o, k) \cup {g} \subseteq Carriers(o, k)'
    BY <1>2, <2>2
  <2>4. Cardinality(Carriers(o, k) \cup {g}) = Cardinality(Carriers(o, k)) + 1
    BY <2>2, CarriersAreFinite, FS_AddElement
  <2>5. QED
    BY <1>1, <2>3, <2>4, FS_Subset
<1>5. \A p \in {"success", "failure"} \ {o} : Given(p)' = Given(p)
  BY DEF Given
<1>6. Given(o)' = Given(o) \cup grabs
  BY DEF Given, GrabsAreTyped
<1>7. \A p \in {"success", "failure"} : Given(p) \cap grabs = {}
  BY DEF Given, PendingIsOpen
<1>8. QED
  BY <1>3, <1>4, <1>5, <1>6, <1>7

\* A stored report is new, so its hook concerns a grab without a row and without an outcome.
LEMMA InsertKeepsOutcomes == ASSUME OutcomeInv, NEW e \in Reports, Insert(e) PROVE OutcomeInv'
<1> USE DEF OutcomeInv
<1>1. e \notin evidence
  BY DEF Insert, SameObject
<1>2. evidence' = evidence \cup {e} /\ hooks' \subseteq hooks \cup {e} /\ UNCHANGED priorsVars
  BY DEF Insert
<1>3. GrabsAreTyped'
  BY <1>2, FS_AddElement DEF GrabsAreTyped, priorsVars
<1>4. PendingIsOpen'
  BY <1>1, <1>2 DEF GrabsAreTyped, PendingIsOpen, priorsVars
<1>5. CountsFollow'
  BY <1>2 DEF CountsFollow, Given, Carriers, Owing, priorsVars
<1>6. QED
  BY <1>3, <1>4, <1>5

\* The row of a grab is inserted once, because its hook runs once.
LEMMA RecordGrabKeepsOutcomes ==
    ASSUME OutcomeInv, NEW e \in Reports, NEW features \in SUBSET FeaturesOf[e.torrent], RecordGrab(e, features)
    PROVE  OutcomeInv'
<1> USE DEF OutcomeInv
<1>1. e \in Grabs /\ e \in evidence /\ features \subseteq Features
  BY EvidenceAssumption DEF RecordGrab, Grabs, GrabsAreTyped
<1>2. /\ DOMAIN attempts' = DOMAIN attempts \cup {e}
      /\ attempts'[e] = [outcome |-> "pending", features |-> features]
      /\ \A g \in DOMAIN attempts : g # e => attempts'[g] = attempts[g]
  BY DEF RecordGrab
<1>3. GrabsAreTyped'
  BY <1>1, <1>2 DEF RecordGrab, GrabsAreTyped, Attempt
<1>4. PendingIsOpen'
  BY <1>2 DEF RecordGrab, PendingIsOpen
<1>5. CountsFollow'
  BY DEF RecordGrab, CountsFollow, Given, Carriers, Owing
<1>6. QED
  BY <1>3, <1>4, <1>5

\* What WithOutcome changes: the outcomes of the given attempts.
LEMMA WithOutcomeChanges ==
    ASSUME GrabsAreTyped, NEW grabs \in SUBSET DOMAIN attempts, NEW o \in {"success", "failure"},
           attempts' = WithOutcome(grabs, o)
    PROVE  /\ DOMAIN attempts' = DOMAIN attempts
           /\ \A g \in grabs : attempts'[g].outcome = o
           /\ \A g \in DOMAIN attempts \ grabs : attempts'[g] = attempts[g]
           /\ \A g \in DOMAIN attempts : attempts'[g] \in Attempt /\ attempts'[g].features = attempts[g].features
  BY DEF WithOutcome, GrabsAreTyped, Attempt

\* Open attempts get an outcome, and nothing else of the rows changes.
LEMMA ResolvingKeepsOpen ==
    ASSUME GrabsAreTyped, PendingIsOpen, NEW grabs \in SUBSET DOMAIN attempts, NEW o \in {"success", "failure"},
           attempts' = WithOutcome(grabs, o), resolved' = resolved \cup (grabs \X {o}),
           hooks' \subseteq hooks, evidence' = evidence, expired' \in [Expirers -> SUBSET Features]
    PROVE  GrabsAreTyped' /\ PendingIsOpen'
<1>1. /\ DOMAIN attempts' = DOMAIN attempts
      /\ \A g \in grabs : attempts'[g].outcome = o
      /\ \A g \in DOMAIN attempts \ grabs : attempts'[g] = attempts[g]
      /\ \A g \in DOMAIN attempts : attempts'[g] \in Attempt /\ attempts'[g].features = attempts[g].features
  BY WithOutcomeChanges
<1>2. GrabsAreTyped'
  BY <1>1 DEF GrabsAreTyped
<1>3. PendingIsOpen'
  BY <1>1 DEF PendingIsOpen
<1>4. QED
  BY <1>2, <1>3

\* An import: its pending grabs succeed, and each of their features is counted once.
LEMMA ResolveImportKeepsOutcomes ==
    ASSUME OutcomeInv, NEW e \in Reports, ResolveImport(e)
    PROVE  OutcomeInv'
<1> USE DEF OutcomeInv
<1> DEFINE pending == {g \in DOMAIN attempts : g.torrent = e.torrent /\ attempts[g].outcome = "pending"}
<1>1. /\ attempts' = WithOutcome(pending, "success") /\ alpha' = Counted(alpha, MergeFeatures(pending))
      /\ resolved' = resolved \cup (pending \X {"success"})
      /\ hooks' \subseteq hooks /\ evidence' = evidence /\ beta' = beta /\ expired' = expired
  BY DEF ResolveImport
<1> HIDE DEF pending
<1>2. pending \in SUBSET DOMAIN attempts /\ \A g \in pending : attempts[g].outcome = "pending"
  BY DEF pending
<1>3. GrabsAreTyped' /\ PendingIsOpen'
  BY <1>1, <1>2, ResolvingKeepsOpen DEF GrabsAreTyped
<1>4. ASSUME NEW k \in Features
      PROVE  /\ Cardinality(Carriers("success", k)) <= Cardinality(Carriers("success", k)')
             /\ k \in MergeFeatures(pending)
                  => Cardinality(Carriers("success", k)) + 1 <= Cardinality(Carriers("success", k)')
             /\ Given("failure")' = Given("failure")
             /\ Given("success")' = Given("success") \cup pending
             /\ Given("failure") \cap pending = {}
  BY <1>1, <1>2, <1>3, <1>4, ResolvingAddsCarriers
<1>5. ASSUME NEW k \in Features
      PROVE  /\ alpha'[k] <= Cardinality(Carriers("success", k)')
             /\ beta'[k] + Cardinality(Owing(k)') <= Cardinality(Carriers("failure", k)')
  <2>1. Cardinality(Carriers("success", k)) \in Nat /\ Cardinality(Carriers("success", k)') \in Nat
    BY <1>3, CarriersAreFinite, CarriersFinitePrimed
  <2>2. alpha'[k] = alpha[k] + (IF k \in MergeFeatures(pending) THEN 1 ELSE 0)
    BY <1>1 DEF Counted
  <2>3. alpha'[k] <= Cardinality(Carriers("success", k)')
    BY <1>4, <2>1, <2>2 DEF CountsFollow
  <2>4. Carriers("failure", k)' = Carriers("failure", k) /\ Owing(k)' = Owing(k)
    BY <1>1, <1>4 DEF Carriers, Owing
  <2>5. QED
    BY <1>1, <2>3, <2>4 DEF CountsFollow
<1>6. Given("success")' \cap Given("failure")' = {}
  <2>1. /\ Given("failure")' = Given("failure") /\ Given("success")' = Given("success") \cup pending
        /\ Given("failure") \cap pending = {}
    BY <1>1, <1>2 DEF Given, PendingIsOpen, GrabsAreTyped
  <2>2. QED
    BY <2>1 DEF CountsFollow
<1>7. alpha' \in [Features -> Nat] /\ beta' \in [Features -> Nat]
  BY <1>1 DEF CountsFollow, Counted
<1>8. QED
  BY <1>3, <1>5, <1>6, <1>7 DEF CountsFollow

\* An expirer: the open grabs fail, and it owes the count of each of their features.
LEMMA ExpirePendingKeepsOutcomes ==
    ASSUME OutcomeInv, NEW x \in Expirers, NEW grabs \in SUBSET Grabs, ExpirePending(x, grabs)
    PROVE  OutcomeInv'
<1> USE DEF OutcomeInv
<1>1. /\ attempts' = WithOutcome(grabs, "failure") /\ resolved' = resolved \cup (grabs \X {"failure"})
      /\ expired[x] = {} /\ expired' = [expired EXCEPT ![x] = MergeFeatures(grabs)]
      /\ hooks' = hooks /\ evidence' = evidence /\ alpha' = alpha /\ beta' = beta
  BY DEF ExpirePending
<1>2. grabs \in SUBSET DOMAIN attempts /\ \A g \in grabs : attempts[g].outcome = "pending"
  BY DEF ExpirePending, Expirable
<1>3. expired' \in [Expirers -> SUBSET Features]
  <2>1. MergeFeatures(grabs) \subseteq Features
    BY <1>2 DEF MergeFeatures, GrabsAreTyped, Attempt
  <2>2. QED
    BY <1>1, <2>1 DEF GrabsAreTyped
<1>4. GrabsAreTyped' /\ PendingIsOpen'
  BY <1>1, <1>2, <1>3, ResolvingKeepsOpen
<1>5. ASSUME NEW k \in Features
      PROVE  /\ alpha'[k] <= Cardinality(Carriers("success", k)')
             /\ beta'[k] + Cardinality(Owing(k)') <= Cardinality(Carriers("failure", k)')
  <2>1. /\ Cardinality(Carriers("failure", k)) <= Cardinality(Carriers("failure", k)')
        /\ k \in MergeFeatures(grabs)
             => Cardinality(Carriers("failure", k)) + 1 <= Cardinality(Carriers("failure", k)')
        /\ Given("success")' = Given("success")
    BY <1>1, <1>2, <1>4, ResolvingAddsCarriers
  <2>2. Carriers("success", k)' = Carriers("success", k)
    BY <2>1 DEF Carriers
  <2>3. /\ Cardinality(Carriers("failure", k)) \in Nat /\ Cardinality(Carriers("failure", k)') \in Nat
        /\ IsFiniteSet(Owing(k)) /\ Cardinality(Owing(k)) \in Nat
    BY <1>4, CarriersAreFinite, CarriersFinitePrimed
  <2>4. CASE k \in MergeFeatures(grabs)
    <3>1. Owing(k)' = Owing(k) \cup {x} /\ x \notin Owing(k)
      BY <1>1, <2>4 DEF Owing, GrabsAreTyped
    <3>2. Cardinality(Owing(k)') = Cardinality(Owing(k)) + 1
      BY <2>3, <3>1, FS_AddElement
    <3>3. QED
      BY <1>1, <2>1, <2>2, <2>3, <2>4, <3>2 DEF CountsFollow
  <2>5. CASE k \notin MergeFeatures(grabs)
    <3>1. Owing(k)' = Owing(k)
      BY <1>1, <2>5 DEF Owing, GrabsAreTyped
    <3>2. QED
      BY <1>1, <2>1, <2>2, <2>3, <3>1 DEF CountsFollow
  <2>6. QED
    BY <2>4, <2>5
<1>6. Given("success")' \cap Given("failure")' = {}
  <2>1. /\ Given("success")' = Given("success") /\ Given("failure")' = Given("failure") \cup grabs
        /\ Given("success") \cap grabs = {}
    BY <1>1, <1>2 DEF Given, PendingIsOpen, GrabsAreTyped
  <2>2. QED
    BY <2>1 DEF CountsFollow
<1>7. QED
  BY <1>1, <1>4, <1>5, <1>6 DEF CountsFollow

\* What an expirer owes is counted, or given up.
LEMMA ApplyKeepsOutcomes ==
    ASSUME OutcomeInv, NEW x \in Expirers, ApplyExpired(x) \/ ApplyFails(x)
    PROVE  OutcomeInv'
<1> USE DEF OutcomeInv
<1>1. /\ expired' = [expired EXCEPT ![x] = {}]
      /\ UNCHANGED <<evidence, hooks, attempts, alpha, resolved>>
      /\ beta' = beta \/ beta' = Counted(beta, expired[x])
  BY DEF ApplyExpired, ApplyFails
<1>2. GrabsAreTyped' /\ PendingIsOpen'
  BY <1>1 DEF GrabsAreTyped, PendingIsOpen
<1>3. beta' \in [Features -> Nat]
  BY <1>1 DEF CountsFollow, Counted
<1>4. ASSUME NEW k \in Features PROVE beta'[k] + Cardinality(Owing(k)') <= beta[k] + Cardinality(Owing(k))
  <2>1. IsFiniteSet(Owing(k)) /\ Cardinality(Owing(k)) \in Nat /\ beta[k] \in Nat
    BY CarriersAreFinite DEF CountsFollow
  <2>2. Owing(k)' = Owing(k) \ {x}
    BY <1>1 DEF Owing, GrabsAreTyped
  <2>3. CASE k \in expired[x]
    <3>1. x \in Owing(k)
      BY <2>3 DEF Owing
    <3>2. Cardinality(Owing(k)') = Cardinality(Owing(k)) - 1
      BY <2>1, <2>2, <3>1, FS_RemoveElement
    <3>3. beta'[k] \in {beta[k], beta[k] + 1}
      BY <1>1, <2>3 DEF Counted
    <3>4. QED
      BY <2>1, <3>2, <3>3
  <2>4. CASE k \notin expired[x]
    <3>1. Owing(k)' = Owing(k)
      BY <2>2, <2>4 DEF Owing
    <3>2. beta'[k] = beta[k]
      BY <1>1, <2>1, <2>4 DEF Counted
    <3>3. QED
      BY <2>1, <3>1, <3>2
  <2>5. QED
    BY <2>3, <2>4
<1>5. \A o \in {"success", "failure"}, k \in Features : Given(o)' = Given(o) /\ Carriers(o, k)' = Carriers(o, k)
  BY <1>1 DEF Given, Carriers
<1>6. ASSUME NEW k \in Features
      PROVE  /\ alpha'[k] <= Cardinality(Carriers("success", k)')
             /\ beta'[k] + Cardinality(Owing(k)') <= Cardinality(Carriers("failure", k)')
  <2>1. /\ Cardinality(Owing(k)) \in Nat /\ Cardinality(Owing(k)') \in Nat
        /\ Cardinality(Carriers("failure", k)) \in Nat
    <3>1. Owing(k)' \subseteq Expirers
      BY DEF Owing
    <3>2. QED
      BY <3>1, CarriersAreFinite, FS_Subset, FS_CardinalityType, EvidenceAssumption
  <2>2. QED
    BY <1>1, <1>3, <1>4, <1>5, <2>1 DEF CountsFollow
<1>7. Given("success")' \cap Given("failure")' = {}
  BY <1>1 DEF Given, CountsFollow
<1>8. QED
  BY <1>1, <1>2, <1>3, <1>6, <1>7 DEF CountsFollow

\* The purge takes rows that have their outcome; a lost hook takes a grab that never gets one.
LEMMA ForgettingKeepsOutcomes ==
    ASSUME OutcomeInv, (\E grabs \in SUBSET Grabs : PurgeResolved(grabs)) \/ (\E e \in Reports : HookLost(e))
    PROVE  OutcomeInv'
<1> USE DEF OutcomeInv
<1>1. ASSUME NEW grabs \in SUBSET Grabs, PurgeResolved(grabs) PROVE OutcomeInv'
  <2>1. /\ DOMAIN attempts' = DOMAIN attempts \ grabs
        /\ \A g \in DOMAIN attempts' : attempts'[g] = attempts[g]
        /\ UNCHANGED <<evidence, hooks, alpha, beta, expired, resolved>>
    BY <1>1 DEF PurgeResolved
  <2>2. GrabsAreTyped' /\ PendingIsOpen'
    BY <2>1 DEF GrabsAreTyped, PendingIsOpen
  <2>3. CountsFollow'
    BY <2>1 DEF CountsFollow, Given, Carriers, Owing
  <2>4. QED
    BY <2>2, <2>3
<1>2. ASSUME NEW e \in Reports, HookLost(e) PROVE OutcomeInv'
  <2>1. hooks' \subseteq hooks /\ UNCHANGED <<evidence, attempts, alpha, beta, expired, resolved>>
    BY <1>2 DEF HookLost, priorsVars
  <2>2. GrabsAreTyped' /\ PendingIsOpen'
    BY <2>1 DEF GrabsAreTyped, PendingIsOpen
  <2>3. CountsFollow'
    BY <2>1 DEF CountsFollow, Given, Carriers, Owing
  <2>4. QED
    BY <2>2, <2>3
<1>3. QED
  BY <1>1, <1>2

\* Every step of EvNext keeps the account.
LEMMA OutcomeNextInv == OutcomeInv /\ [EvNext]_evVars => OutcomeInv'
<1> SUFFICES ASSUME OutcomeInv, [EvNext]_evVars PROVE OutcomeInv'
  OBVIOUS
<1>1. ASSUME NEW e \in Reports, Insert(e) PROVE OutcomeInv'
  BY <1>1, InsertKeepsOutcomes
<1>2. ASSUME NEW e \in Reports, ResolveImport(e) PROVE OutcomeInv'
  BY <1>2, ResolveImportKeepsOutcomes
<1>3. ASSUME NEW e \in Reports,
             \/ RecordGrab(e, FeaturesOf[e.torrent])
             \/ RecordGrab(e, FeaturesOf[e.torrent] \cap TitleOnly)
      PROVE  OutcomeInv'
  <2>1. PICK features \in SUBSET FeaturesOf[e.torrent] : RecordGrab(e, features)
    BY <1>3
  <2>2. QED
    BY <2>1, RecordGrabKeepsOutcomes
<1>4. ASSUME NEW grabs \in SUBSET Grabs, NEW x \in Expirers, ExpirePending(x, grabs) PROVE OutcomeInv'
  BY <1>4, ExpirePendingKeepsOutcomes
<1>5. ASSUME NEW x \in Expirers, ApplyExpired(x) \/ ApplyFails(x) PROVE OutcomeInv'
  BY <1>5, ApplyKeepsOutcomes
<1>6. ASSUME NEW grabs \in SUBSET Grabs, PurgeResolved(grabs) PROVE OutcomeInv'
  BY <1>6, ForgettingKeepsOutcomes
<1>7. ASSUME NEW e \in Reports, HookLost(e) PROVE OutcomeInv'
  BY <1>7, ForgettingKeepsOutcomes
<1>8. CASE UNCHANGED evVars
  BY <1>8 DEF evVars, OutcomeInv, GrabsAreTyped, PendingIsOpen, CountsFollow, Given, Carriers, Owing
<1>9. QED
  BY <1>1, <1>2, <1>3, <1>4, <1>5, <1>6, <1>7, <1>8 DEF EvNext

\* A grab succeeds or fails once, and no feature has more successes or failures than grabs that carry
\* it, for any number of racing imports, expirers and purges (priors/store.go:140-148 and 267-290).
THEOREM OutcomesCountOnceAlways == EvSpec => []OutcomesCountOnce
<1>1. EvInit => OutcomeInv
  <2> SUFFICES ASSUME EvInit PROVE OutcomeInv
    OBVIOUS
  <2>1. GrabsAreTyped /\ PendingIsOpen
    BY FS_EmptySet DEF EvInit, GrabsAreTyped, PendingIsOpen
  <2>2. ASSUME NEW k \in Features PROVE Carriers("success", k) = {} /\ Carriers("failure", k) = {} /\ Owing(k) = {}
    BY DEF EvInit, Carriers, Given, Owing
  <2>3. Given("success") = {} /\ Given("failure") = {}
    BY DEF EvInit, Given
  <2>4. CountsFollow
    <3>1. Cardinality({}) = 0
      BY FS_EmptySet
    <3>2. alpha \in [Features -> Nat] /\ beta \in [Features -> Nat] /\ \A k \in Features : alpha[k] = 0 /\ beta[k] = 0
      BY DEF EvInit
    <3>3. QED
      BY <2>2, <2>3, <3>1, <3>2 DEF CountsFollow
  <2>5. QED
    BY <2>1, <2>4 DEF OutcomeInv
<1>2. OutcomeInv => OutcomesCountOnce
  BY CountsOnce DEF OutcomeInv
<1>3. QED
  BY <1>1, <1>2, OutcomeNextInv, PTL DEF EvSpec

-----------------------------------------------------------------------------
(* Counts of suspect observations *)

CountInv ==
    /\ rows \in [Watched -> Row]
    /\ stalls \in [Watched -> Nat]
    /\ CountsAreLocal

\* The rows that statements write are rows.
LEMMA AliveRowIsRow ==
    ASSUME NEW qb \in BOOLEAN, NEW local \in BOOLEAN
    PROVE  AliveRow(qb, local) \in Row /\ AliveRow(qb, local).status = "alive"
  BY LivenessAssumption DEF AliveRow, Row

LEMMA SuspectedIsRow ==
    ASSUME NEW r \in Row, Suspected(r).count <= MaxObservations
    PROVE  /\ Suspected(r) \in Row
           /\ Suspected(r).status = "suspect" => r.status # "dead"
           /\ Suspected(r).count = IF RestartsWindow(r) THEN 1 ELSE r.count + 1
<1>1. Suspected(r).count = IF RestartsWindow(r) THEN 1 ELSE r.count + 1
  BY DEF Suspected
<1>2. Suspected(r).status = "suspect" => r.status # "dead"
  BY DEF Suspected
<1>3. r.count \in 0..MaxObservations /\ r.first \in {"null", "recent", "old"} /\ r.local \in BOOLEAN
  BY DEF Row
<1>4. Suspected(r).count \in 0..MaxObservations
  BY <1>1, <1>3
<1>5. Suspected(r) \in Row
  BY <1>3, <1>4 DEF Suspected, Row
<1>6. QED
  BY <1>1, <1>2, <1>5

LEMMA DoubtedIsRow ==
    ASSUME NEW r \in Row, r.count < MaxObservations
    PROVE  Doubted(r) \in Row /\ Doubted(r).qb = r.qb
  BY LivenessAssumption DEF Doubted, Row

\* Whatever makes a torrent alive starts the count anew, with a row that is not suspect.
LEMMA MarkAliveKeepsCounts ==
    ASSUME CountInv, NEW h, NEW qb \in BOOLEAN, NEW local \in BOOLEAN, MarkAlive(h, qb, local)
    PROVE  CountInv'
<1>1. AliveRow(qb, local) \in Row /\ AliveRow(qb, local).status = "alive"
  BY AliveRowIsRow
<1>2. rows' = [rows EXCEPT ![h] = AliveRow(qb, local)] /\ stalls' = [stalls EXCEPT ![h] = 0]
  BY DEF MarkAlive
<1>3. QED
  BY <1>1, <1>2 DEF CountInv, CountsAreLocal

\* An observation of a download client starts a window, or adds one to both counts.
LEMMA ObserveSuspectKeepsCounts ==
    ASSUME CountInv, NEW i \in Ingesters, NEW h \in Watched, ObserveSuspect(i, h)
    PROVE  CountInv'
<1> DEFINE row == Suspected(rows[h])
<1>1. row.count <= MaxObservations /\ rows' = [rows EXCEPT ![h] = row] /\ stalls' = [stalls EXCEPT ![h] = @ + 1]
  BY DEF ObserveSuspect
<1>2. rows[h] \in Row /\ stalls[h] \in Nat
  BY DEF CountInv
<1>3. /\ row.status = "suspect" => rows[h].status # "dead"
      /\ row.count = IF RestartsWindow(rows[h]) THEN 1 ELSE rows[h].count + 1
      /\ row \in Row
  BY <1>1, <1>2, SuspectedIsRow
<1>4. row.status = "suspect" => row.count <= stalls[h] + 1
  <2>1. CASE RestartsWindow(rows[h])
    BY <1>2, <1>3, <2>1
  <2>2. CASE ~RestartsWindow(rows[h]) /\ row.status = "suspect"
    <3>1. rows[h].status = "suspect" /\ rows[h].qb
      BY <1>2, <1>3, <2>2 DEF Row, RestartsWindow
    <3>2. rows[h].count <= stalls[h] /\ rows[h].count \in Nat
      BY <1>2, <3>1, LivenessAssumption DEF CountInv, CountsAreLocal, Row
    <3>3. QED
      BY <1>2, <1>3, <2>2, <3>2
  <2>3. QED
    BY <2>1, <2>2
<1> HIDE DEF row
<1>5. QED
  BY <1>1, <1>2, <1>3, <1>4 DEF CountInv, CountsAreLocal

\* A batch of scrapes revives rows, or charges rows that no download client has observed.
LEMMA ScrapeKeepsCounts ==
    ASSUME CountInv, NEW positives \in SUBSET Watched, NEW zeros \in SUBSET Watched, Scrape(positives, zeros)
    PROVE  CountInv'
<1> DEFINE revived == {h \in positives : Revivable(h)}
           doubted == {h \in zeros : MayDoubt(rows[h])}
<1>1. /\ \A h \in doubted : rows[h].count < MaxObservations
      /\ rows' = [h \in Watched |->
                    IF h \in revived
                    THEN AliveRow(rows[h].qb, FALSE)
                    ELSE IF h \in doubted THEN Doubted(rows[h]) ELSE rows[h]]
      /\ stalls' = [h \in Watched |-> IF h \in revived THEN 0 ELSE stalls[h]]
  BY DEF Scrape
<1>2. ASSUME NEW h \in Watched
      PROVE  /\ rows'[h] \in Row /\ stalls'[h] \in Nat
             /\ rows'[h].status = "suspect" /\ rows'[h].qb => rows'[h].count <= stalls'[h]
  <2>1. /\ rows[h] \in Row /\ stalls[h] \in Nat
        /\ rows[h].status = "suspect" /\ rows[h].qb => rows[h].count <= stalls[h]
    BY DEF CountInv, CountsAreLocal
  <2>2. CASE h \in revived
    <3>1. rows[h].qb \in BOOLEAN
      BY <2>1 DEF Row
    <3>2. rows'[h] = AliveRow(rows[h].qb, FALSE)
      BY <1>1, <2>2
    <3>3. stalls'[h] \in Nat
      BY <1>1, <2>2
    <3>4. rows'[h] \in Row /\ rows'[h].status = "alive"
      BY <3>1, <3>2, AliveRowIsRow
    <3>5. rows'[h].status # "suspect"
      BY <3>4
    <3>6. QED
      BY <3>3, <3>4, <3>5, Zenon
  <2>3. CASE h \notin revived /\ h \in doubted
    <3>1. rows'[h] = Doubted(rows[h]) /\ stalls'[h] = stalls[h] /\ ~rows[h].qb /\ rows[h].count < MaxObservations
      BY <1>1, <2>3 DEF MayDoubt
    <3>2. rows'[h] \in Row /\ rows'[h].qb = rows[h].qb
      BY <2>1, <3>1, DoubtedIsRow
    <3>3. QED
      BY <2>1, <3>1, <3>2
  <2>4. CASE h \notin revived /\ h \notin doubted
    BY <1>1, <2>1, <2>4
  <2>5. QED
    BY <2>2, <2>3, <2>4
<1>3. rows' \in [Watched -> Row] /\ stalls' \in [Watched -> Nat]
  BY <1>1, <1>2
<1>4. QED
  BY <1>2, <1>3 DEF CountInv, CountsAreLocal

\* The promotion to dead and the passing of the threshold touch neither count.
LEMMA RowStepsKeepCounts ==
    ASSUME CountInv, NEW h, UNCHANGED stalls,
           rows' = [rows EXCEPT ![h].status = "dead"] \/ rows' = [rows EXCEPT ![h].first = "old"]
    PROVE  CountInv'
<1>1. ASSUME NEW t \in Watched
      PROVE  /\ rows'[t] \in Row /\ rows'[t].qb = rows[t].qb /\ rows'[t].count = rows[t].count
             /\ rows'[t].status \in {rows[t].status, "dead"}
  <2>1. rows[t] \in Row
    BY DEF CountInv
  <2>2. \/ rows'[t] = rows[t]
        \/ rows'[t] = [rows[t] EXCEPT !.status = "dead"]
        \/ rows'[t] = [rows[t] EXCEPT !.first = "old"]
    BY DEF CountInv
  <2>3. CASE rows'[t] = [rows[t] EXCEPT !.status = "dead"]
    BY <2>1, <2>3 DEF Row
  <2>4. CASE rows'[t] = [rows[t] EXCEPT !.first = "old"]
    BY <2>1, <2>4 DEF Row
  <2>5. QED
    BY <2>1, <2>2, <2>3, <2>4
<1>2. rows' \in [Watched -> Row] /\ stalls' = stalls
  BY <1>1 DEF CountInv
<1>3. QED
  BY <1>1, <1>2 DEF CountInv, CountsAreLocal

\* Every step of LvNext is one of these, or leaves rows and stalls alone.
LEMMA CountNextInv == CountInv /\ [LvNext]_lvVars => CountInv'
<1> SUFFICES ASSUME CountInv, [LvNext]_lvVars PROVE CountInv'
  OBVIOUS
<1>1. ASSUME NEW i \in Ingesters, NEW h \in Watched, ObserveAlive(i, h) \/ ObserveImport(i, h) PROVE CountInv'
  BY <1>1, MarkAliveKeepsCounts DEF ObserveAlive, ObserveImport
<1>2. ASSUME NEW i \in Ingesters, NEW h \in Watched, ObserveSuspect(i, h) PROVE CountInv'
  BY <1>2, ObserveSuspectKeepsCounts
<1>3. ASSUME NEW i \in Ingesters, MarkDead(i) PROVE CountInv'
  BY <1>3, RowStepsKeepCounts DEF MarkDead
<1>4. ASSUME NEW positives \in SUBSET Watched, NEW zeros \in SUBSET Watched, Scrape(positives, zeros) PROVE CountInv'
  BY <1>4, ScrapeKeepsCounts
<1>5. ASSUME NEW h \in lookups, LookupFinds(h) PROVE CountInv'
  BY <1>5, MarkAliveKeepsCounts DEF LookupFinds
<1>6. ASSUME NEW h \in Watched, ThresholdPasses(h) PROVE CountInv'
  BY <1>6, RowStepsKeepCounts DEF ThresholdPasses
<1>7. CASE UNCHANGED <<rows, stalls>>
  BY <1>7 DEF CountInv, CountsAreLocal
<1>8. QED
  BY <1>1, <1>2, <1>3, <1>4, <1>5, <1>6, <1>7
  DEF LvNext, lvVars, LookupEnds, MarkDeadFails, StartCycle, LookupFindsNone, LookupTimesOut, TimerElapses

\* What promotes a torrent to dead are observations of a download client since it was last alive, for
\* any number of torrents, goroutines and scrapes (liveness/store.go:153-158 and 459-471).
THEOREM CountsAreLocalAlways == LvSpec => []CountsAreLocal
<1>1. LvInit => CountInv
  <2> SUFFICES ASSUME LvInit PROVE CountInv
    OBVIOUS
  <2>0. NoRow \in Row /\ NoRow.status = "none"
    BY LivenessAssumption DEF NoRow, Row
  <2>1. Blacklisted \in Row /\ Blacklisted.status = "dead"
    BY <2>0 DEF Blacklisted, Row
  <2>2. \A h \in Watched : rows[h] \in Row /\ rows[h].status # "suspect"
    BY <2>0, <2>1 DEF LvInit
  <2>3. rows \in [Watched -> Row] /\ stalls \in [Watched -> Nat]
    BY <2>2 DEF LvInit
  <2>4. QED
    BY <2>2, <2>3 DEF CountInv, CountsAreLocal
<1>2. CountInv => CountsAreLocal
  BY DEF CountInv
<1>3. QED
  BY <1>1, <1>2, CountNextInv, PTL DEF LvSpec
=============================================================================
