------------------------ MODULE ProcessorPlanProofs ------------------------
(***************************************************************************)
(* Jobs and the registry, proved for any number of torrents, services,     *)
(* workers, attempts, requests and disturbances.                           *)
(***************************************************************************)
EXTENDS ProcessorsProofs, FiniteSetTheorems

RegistryTypeOK ==
    /\ registry \in [Entries -> Entry \cup {None}]
    /\ sequence \in Nat

PlanInv == RegistryTypeOK /\ ActiveJobsRunTheRegistry

-----------------------------------------------------------------------------
\* The steps of the plan are the entries that are not paused.
LEMMA PlanSteps ==
    RegistryTypeOK =>
        /\ Steps(Plan) = {p \in Entries : registry[p] # None /\ registry[p].state # "paused"}
        /\ \A p \in Steps(Plan) : /\ Plan.steps[p].mode = registry[p].mode
                                  /\ Plan.steps[p].generation = registry[p].execution_generation
<1> HAVE RegistryTypeOK
<1>1. ASSUME NEW p \in Entries, registry[p] # None, registry[p].state # "paused"
      PROVE  /\ Plan.steps[p].mode = registry[p].mode
             /\ Plan.steps[p].generation = registry[p].execution_generation
             /\ Plan.steps[p] # None
  <2>1. registry[p] \in Entry
    BY <1>1 DEF RegistryTypeOK
  <2>2. Plan.steps[p] = [mode |-> registry[p].mode, learning |-> registry[p].learning,
                         generation |-> registry[p].execution_generation]
    BY <1>1 DEF Plan, Registered
  <2>3. Plan.steps[p] \in Step
    BY <2>1, <2>2 DEF Entry, Step
  <2> QED
    BY <2>2, <2>3, NoneAssumption
<1>2. ASSUME NEW p \in Entries, registry[p] = None \/ registry[p].state = "paused"
      PROVE  Plan.steps[p] = None
  BY <1>2 DEF Plan, Registered
<1>3. \A p \in Entries : Plan.steps[p] # None <=> registry[p] # None /\ registry[p].state # "paused"
  BY <1>1, <1>2
<1> QED
  BY <1>1, <1>3 DEF Steps

\* The same after a step.
LEMMA PlanStepsNext ==
    (RegistryTypeOK =>
        /\ Steps(Plan) = {p \in Entries : registry[p] # None /\ registry[p].state # "paused"}
        /\ \A p \in Steps(Plan) : /\ Plan.steps[p].mode = registry[p].mode
                                  /\ Plan.steps[p].generation = registry[p].execution_generation)'
BY PlanSteps, PTL

\* Without a change of the registry or the epoch, only the current plan enters.
LEMMA KeptPlans ==
    ASSUME PlanInv, UNCHANGED <<epoch, registry, sequence>>,
           \A j \in ActiveJobs' : j \in ActiveJobs \/ j.plan = Plan
    PROVE  PlanInv'
<1>1. Plan' = Plan
  BY DEF Plan, Registered
<1>2. Plan.epoch = epoch
  BY DEF Plan
<1>3. \A j \in ActiveJobs' :
         /\ j.plan.epoch = epoch
         /\ Steps(j.plan) = Steps(Plan)
         /\ \A p \in Steps(j.plan) : /\ j.plan.steps[p].mode = Plan.steps[p].mode
                                     /\ j.plan.steps[p].generation = Plan.steps[p].generation
  <2> SUFFICES ASSUME NEW j \in ActiveJobs'
               PROVE  /\ j.plan.epoch = epoch
                      /\ Steps(j.plan) = Steps(Plan)
                      /\ \A p \in Steps(j.plan) :
                            /\ j.plan.steps[p].mode = Plan.steps[p].mode
                            /\ j.plan.steps[p].generation = Plan.steps[p].generation
    OBVIOUS
  <2>1. CASE j \in ActiveJobs
    BY <2>1 DEF PlanInv, ActiveJobsRunTheRegistry
  <2>2. CASE j.plan = Plan
    BY <2>2, <1>2
  <2> QED
    BY <2>1, <2>2
<1>4. RegistryTypeOK'
  BY DEF PlanInv, RegistryTypeOK
<1>5. ActiveJobsRunTheRegistry'
  BY <1>1, <1>3 DEF ActiveJobsRunTheRegistry, Steps
<1> QED
  BY <1>4, <1>5 DEF PlanInv

\* A change of epoch leaves no active job behind.
LEMMA NoPlans ==
    ASSUME RegistryTypeOK', ActiveJobs' = {}
    PROVE  PlanInv'
BY DEF PlanInv, ActiveJobsRunTheRegistry

\* invalidateFor leaves no active job, so nothing is left to disagree with the registry.
LEMMA InvalidateEndsJobs ==
    ASSUME LeaseInv, invalidateFor
    PROVE  ActiveJobs' = {}
<1>1. jobs' = [j \in DOMAIN jobs |-> IF j \in ActiveJobs THEN [jobs[j] EXCEPT !.state = "stale"] ELSE jobs[j]]
  BY DEF invalidateFor, Moved
<1>2. \A j \in DOMAIN jobs : jobs[j] \in Job
  BY LeaseRows DEF LeaseInv
<1>3. \A j \in DOMAIN jobs : jobs'[j].state \notin Active
  BY <1>1, <1>2 DEF ActiveJobs, Active, Job
<1> QED
  BY <1>1, <1>3 DEF ActiveJobs

\* Draining, resuming and a new learning setting change neither which services a
\* plan calls nor their modes and execution generations.
LEMMA ControlKeepsPlans ==
    ASSUME LeaseInv, PlanInv, NEW p \in Entries,
           NEW state \in {"active", "draining", "paused"}, NEW mode \in Modes,
           NEW learning \in Learnings, NEW reselects \in BOOLEAN,
           Control(p, state, mode, learning, reselects)
    PROVE  PlanInv'
<1> DEFINE exec == IF ControlChanges(registry[p], state, mode, reselects)
                   THEN sequence + 1 ELSE registry[p].execution_generation
           entry == [generation |-> sequence + 1, execution_generation |-> exec,
                     state |-> state, mode |-> mode, learning |-> learning]
<1>1. registry[p] \in Entry /\ registry' = [registry EXCEPT ![p] = entry] /\ sequence' = sequence + 1
  BY DEF Control, Registered, PlanInv, RegistryTypeOK
<1>2. sequence + 1 \in Nat /\ exec \in Nat
  BY <1>1 DEF PlanInv, RegistryTypeOK, Entry
<1>3. entry \in Entry /\ entry # None
  <2> HIDE DEF exec
  <2>1. entry \in Entry
    BY <1>2, ProcessorAssumption DEF ProcessorAssumption, Entry
  <2> QED
    BY <2>1, NoneAssumption
<1>4. RegistryTypeOK'
  <2> HIDE DEF entry
  <2> QED
    BY <1>1, <1>2, <1>3 DEF PlanInv, RegistryTypeOK
<1>5. CASE ControlChanges(registry[p], state, mode, reselects)
  BY <1>4, <1>5, InvalidateEndsJobs, NoPlans DEF Control
<1>6. CASE ~ControlChanges(registry[p], state, mode, reselects)
  <2>1. UNCHANGED <<epoch, jobs>> /\ ActiveJobs' = ActiveJobs
    BY <1>6 DEF Control, ActiveJobs
  <2>2. /\ mode = registry[p].mode /\ (state = "paused" <=> registry[p].state = "paused")
        /\ exec = registry[p].execution_generation
    BY <1>6 DEF ControlChanges
  <2>3. /\ registry'[p] # None /\ registry[p] # None /\ registry'[p].mode = registry[p].mode
        /\ registry'[p].state = "paused" <=> registry[p].state = "paused"
        /\ registry'[p].execution_generation = registry[p].execution_generation
    <3>1. registry'[p] = entry
      BY <1>1 DEF PlanInv, RegistryTypeOK
    <3>2. registry[p] # None
      BY <1>1, NoneAssumption
    <3> QED
      BY <3>1, <3>2, <2>2, <1>3
  <2>4. \A q \in Entries \ {p} : registry'[q] = registry[q]
    BY <1>1 DEF PlanInv, RegistryTypeOK
  <2>5. /\ {q \in Entries : registry'[q] # None /\ registry'[q].state # "paused"}
             = {q \in Entries : registry[q] # None /\ registry[q].state # "paused"}
        /\ \A q \in Entries : registry[q] # None =>
              /\ registry'[q].mode = registry[q].mode
              /\ registry'[q].execution_generation = registry[q].execution_generation
    BY <2>3, <2>4
  <2>6. /\ Steps(Plan') = Steps(Plan)
        /\ \A q \in Steps(Plan) : /\ Plan'.steps[q].mode = Plan.steps[q].mode
                                   /\ Plan'.steps[q].generation = Plan.steps[q].generation
    <3>1. /\ Steps(Plan') = {q \in Entries : registry'[q] # None /\ registry'[q].state # "paused"}
          /\ \A q \in Steps(Plan') : /\ Plan'.steps[q].mode = registry'[q].mode
                                      /\ Plan'.steps[q].generation = registry'[q].execution_generation
      BY <1>4, PlanStepsNext DEF Steps
    <3>2. RegistryTypeOK
      BY DEF PlanInv
    <3> QED
      BY <3>1, <3>2, <2>5, PlanSteps
  <2> QED
    BY <1>4, <2>1, <2>6 DEF PlanInv, ActiveJobsRunTheRegistry, Steps
<1> QED
  BY <1>5, <1>6

\* Moving active jobs to another state makes no job active.
LEMMA MovedPlans ==
    ASSUME LeaseInv, PlanInv, UNCHANGED <<epoch, registry, sequence>>,
           NEW js \in SUBSET ActiveJobs, NEW state, jobs' = Moved(js, state)
    PROVE  PlanInv'
<1>1. \A j \in ActiveJobs' : j \in ActiveJobs
  BY DEF ActiveJobs, Moved
<1> QED
  BY <1>1, KeptPlans

\* Neither does a step of the worker that holds a lease.
LEMMA HeldPlans ==
    ASSUME PlanInv, UNCHANGED <<epoch, registry, sequence>>,
           NEW w \in Workers, Holds(w) \/ UNCHANGED jobs,
           DOMAIN jobs' = DOMAIN jobs,
           \A j \in DOMAIN jobs : j # workers[w].job => jobs'[j] = jobs[j]
    PROVE  PlanInv'
<1>1. \A j \in ActiveJobs' : j \in ActiveJobs
  BY DEF ActiveJobs, Holds, Active
<1> QED
  BY <1>1, KeptPlans

\* Operators: a change either ends the active jobs or leaves the steps as they are.
LEMMA OperatorKeepsPlans == LeaseInv /\ PlanInv /\ Operator => PlanInv'
<1> SUFFICES ASSUME LeaseInv, PlanInv, Operator PROVE PlanInv'
  OBVIOUS
<1>1. ASSUME NEW p \in Entries, NEW mode \in Modes, NEW learning \in Learnings,
             NEW state \in {"active", "draining", "paused"}, Register(p, mode, state, learning)
      PROVE  PlanInv'
  <2> DEFINE entry == [generation |-> sequence + 1, execution_generation |-> sequence + 1,
                       state |-> state, mode |-> mode, learning |-> learning]
  <2>1. registry' = [registry EXCEPT ![p] = entry] /\ sequence' = sequence + 1 /\ invalidateFor
    BY <1>1 DEF Register
  <2>2. sequence + 1 \in Nat
    BY DEF PlanInv, RegistryTypeOK
  <2>3. entry \in Entry
    BY <2>2, ProcessorAssumption DEF ProcessorAssumption, Entry
  <2> HIDE DEF entry
  <2>4. RegistryTypeOK'
    BY <2>1, <2>2, <2>3 DEF PlanInv, RegistryTypeOK
  <2> QED
    BY <2>1, <2>4, InvalidateEndsJobs, NoPlans
<1>2. ASSUME NEW p \in Entries, Remove(p) PROVE PlanInv'
  <2>1. RegistryTypeOK' /\ invalidateFor
    BY <1>2 DEF Remove, PlanInv, RegistryTypeOK
  <2> QED
    BY <2>1, InvalidateEndsJobs, NoPlans
<1>3. ASSUME NEW cohort, SetAdmission(cohort) PROVE PlanInv'
  <2> DEFINE n == Cardinality(Registered)
  <2>1. /\ invalidateFor /\ sequence' = sequence + n /\ sequence + n \in Nat
    <3>1. invalidateFor /\ sequence' = sequence + n
      BY ZenonT(60), <1>3 DEF SetAdmission
    <3>2. n \in Nat
      BY FS_Subset, FS_CardinalityType, ProcessorAssumption DEF ProcessorAssumption, Registered
    <3> QED
      BY <3>1, <3>2 DEF PlanInv, RegistryTypeOK
  <2>2. PICK order \in [Registered -> 1..n] :
           registry' = [p \in Entries |->
                          IF p \in Registered
                          THEN [registry[p] EXCEPT !.generation = sequence + order[p],
                                                   !.execution_generation = sequence + order[p]]
                          ELSE None]
    BY ZenonT(60), <1>3 DEF SetAdmission
  <2>3. ASSUME NEW p \in Registered
        PROVE  [registry[p] EXCEPT !.generation = sequence + order[p],
                                   !.execution_generation = sequence + order[p]] \in Entry
    <3>1. order[p] \in Nat /\ sequence + order[p] \in Nat
      BY <2>3 DEF PlanInv, RegistryTypeOK
    <3>2. registry[p] \in Entry
      BY <2>3 DEF PlanInv, RegistryTypeOK, Registered
    <3> QED
      BY ZenonT(60), <3>1, <3>2 DEF Entry
  <2>4. RegistryTypeOK'
    BY ZenonT(60), <2>1, <2>2, <2>3 DEF RegistryTypeOK
  <2> QED
    BY <2>1, <2>4, InvalidateEndsJobs, NoPlans
<1>4. ASSUME NEW j \in ActiveJobs, Cancel(j) PROVE PlanInv'
  <2>1. {j} \in SUBSET ActiveJobs /\ jobs' = Moved({j}, "canceled")
        /\ UNCHANGED <<epoch, registry, sequence>>
    BY <1>4 DEF Cancel, control
  <2> QED
    BY <2>1, MovedPlans
<1>5. ASSUME NEW j \in DOMAIN jobs, Reprocess(j) PROVE PlanInv'
  <2>1. UNCHANGED <<epoch, registry, sequence, jobs>>
    BY <1>5 DEF Reprocess, control
  <2> QED
    BY <2>1, KeptPlans DEF ActiveJobs
<1>6. ASSUME NEW r, CancelReprocessing(r) PROVE PlanInv'
  <2>1. CanceledJobs(r) \in SUBSET ActiveJobs /\ jobs' = Moved(CanceledJobs(r), "canceled")
        /\ UNCHANGED <<epoch, registry, sequence>>
    BY <1>6 DEF CancelReprocessing, CanceledJobs, control
  <2> QED
    BY <2>1, MovedPlans
<1> QED
  BY <1>1, <1>2, <1>3, <1>4, <1>5, <1>6, ControlKeepsPlans DEF Operator

\* Scan admits jobs with the current plan only.
LEMMA ScannerKeepsPlans == PlanInv /\ Scanner => PlanInv'
<1> SUFFICES ASSUME PlanInv, NEW expired, NEW doomed \in SUBSET Prunable, Scan(expired, doomed)
             PROVE  PlanInv'
  BY DEF Scanner
<1> DEFINE kept == DOMAIN jobs \ doomed
           reqs == settleReprocessing(expired)
           new == {JobOf(reqs, t) : t \in {u \in Admission(reqs, kept).read : Inserts(reqs, kept, u)}}
<1>1. UNCHANGED <<epoch, registry, sequence>>
  BY ZenonT(60) DEF Scan
<1>2. CASE UNCHANGED jobs
  BY <1>1, <1>2, KeptPlans DEF ActiveJobs
<1>3. CASE jobs' = [j \in kept \cup new |-> IF j \in new THEN NewJob ELSE jobs[j]]
  <2>1. \A j \in new : j.plan = Plan
    BY DEF JobOf
  <2> HIDE DEF new
  <2>2. \A j \in ActiveJobs' : j \in ActiveJobs \/ j.plan = Plan
    BY <1>3, <2>1 DEF ActiveJobs
  <2> QED
    BY <1>1, <2>2, KeptPlans
<1> QED
  BY ZenonT(60), <1>2, <1>3 DEF Scan

\* The steps of RunOne make no job active that was not.
LEMMA WorkerKeepsPlans ==
    ASSUME LeaseInv, PlanInv, NEW w \in Workers, Worker(w)
    PROVE  PlanInv'
<1>1. UNCHANGED <<epoch, registry, sequence>>
  BY ZenonT(60) DEF Worker, Proceed, ClaimNone, ClaimJob, ClaimExpires, Prepare, PrepareStale, PrepareFails,
         Abandon, FailPreparation, StartAttempt, Finish, FinishStale, Crash, control
<1>2. ASSUME NEW expired, ClaimNone(w, expired) PROVE PlanInv'
  <2>1. expired \in SUBSET ActiveJobs /\ jobs' = Moved(expired, "queued")
    BY <1>2 DEF ClaimNone, ClaimExpires, Requeued, LeasedJobs, ActiveJobs, Active
  <2> QED
    BY <1>1, <2>1, MovedPlans
<1>3. ASSUME NEW expired, NEW j, ClaimJob(w, expired, j) PROVE PlanInv'
  <2>1. /\ expired \subseteq LeasedJobs /\ j \in DOMAIN jobs
        /\ Moved(expired, "queued")[j].state \in {"queued", "deferred"}
        /\ jobs' = [Moved(expired, "queued") EXCEPT ![j].state = "leased",
                                                    ![j].generation = NextGeneration(j)]
    BY <1>3 DEF ClaimJob, ClaimExpires, Requeued, Leasable, Moved
  <2>2. \A i \in ActiveJobs' : i \in ActiveJobs
    BY ZenonT(60), <2>1 DEF ActiveJobs, LeasedJobs, Moved, Active
  <2> QED
    BY <1>1, <2>2, KeptPlans
<1>4. ASSUME Abandon(w) PROVE PlanInv'
  <2> DEFINE js == IF Holds(w) THEN {workers[w].job} ELSE {}
  <2>1. js \in SUBSET ActiveJobs /\ jobs' = Moved(js, "stale")
    BY <1>4 DEF Abandon, Holds, ActiveJobs, Active
  <2> QED
    BY <1>1, <2>1, MovedPlans
<1>5. ASSUME NEW row, Holds(w), jobs' = [jobs EXCEPT ![workers[w].job] = row] PROVE PlanInv'
  <2>1. DOMAIN jobs' = DOMAIN jobs /\ \A j \in DOMAIN jobs : j # workers[w].job => jobs'[j] = jobs[j]
    BY <1>5 DEF LeaseInv, LeaseTypeOK
  <2> QED
    BY <1>1, <1>5, <2>1, HeldPlans
<1>6. ASSUME UNCHANGED jobs PROVE PlanInv'
  BY <1>1, <1>6, KeptPlans DEF ActiveJobs
<1>7. ASSUME Prepare(w) \/ FailPreparation(w) \/ StartAttempt(w) PROVE PlanInv'
  BY ZenonT(60), <1>5, <1>6, <1>7 DEF Prepare, FailPreparation, StartAttempt, Starts
<1>8. ASSUME NEW outcome, NEW enriched, Finish(w, outcome, enriched) PROVE PlanInv'
  BY ZenonT(60), <1>5, <1>8 DEF Finish, Valid
<1>9. ASSUME PrepareStale(w) \/ PrepareFails(w) \/ Crash(w) \/ FinishStale(w) PROVE PlanInv'
  BY <1>6, <1>9 DEF PrepareStale, PrepareFails, Crash, FinishStale
<1> QED
  BY <1>2, <1>3, <1>4, <1>7, <1>8, <1>9 DEF Worker, Proceed

\* However operators, scanner and workers interleave, an active job runs exactly the
\* registered services, in their modes and execution generations (invalidateFor).
THEOREM ActiveJobsRunTheRegistryAlways == Spec => []ActiveJobsRunTheRegistry
<1>1. Init => PlanInv
  <2> SUFFICES ASSUME Init PROVE PlanInv
    OBVIOUS
  <2>1. DOMAIN jobs = {} /\ RegistryTypeOK
    BY DEF Init, RegistryTypeOK
  <2> QED
    BY <2>1 DEF PlanInv, ActiveJobsRunTheRegistry, ActiveJobs
<1>2. LeaseInv /\ PlanInv /\ [Next]_vars => PlanInv'
  <2> SUFFICES ASSUME LeaseInv, PlanInv, [Next]_vars PROVE PlanInv'
    OBVIOUS
  <2>1. ASSUME Core \/ UNCHANGED vars PROVE PlanInv'
    <3>1. UNCHANGED <<epoch, registry, sequence, jobs>>
      BY ZenonT(60), <2>1 DEF Core, CoreReads, CoreRetries, RecordCore, CoreEnds, CoreChanges, vars, control
    <3> QED
      BY <3>1, KeptPlans DEF ActiveJobs
  <2> QED
    BY <2>1, OperatorKeepsPlans, ScannerKeepsPlans, WorkerKeepsPlans DEF Next
<1>3. PlanInv => ActiveJobsRunTheRegistry
  BY DEF PlanInv
<1> QED
  BY <1>1, <1>2, <1>3, LeaseInvariance, PTL DEF Spec
=============================================================================
