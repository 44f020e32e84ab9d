------------------------- MODULE ProcessorRegistry -------------------------
(***************************************************************************)
(* The operator's transactions of internal/processors/store.go and         *)
(* admission.go.  Each holds the control row FOR UPDATE (Cancel is a       *)
(* single statement), so each is one step.  An operator names the          *)
(* generation it has seen; a write with an outdated one changes nothing,   *)
(* so the actions are those with the current generation.                   *)
(***************************************************************************)
EXTENDS ProcessorTables

\* MUTANT: the active jobs are left to find out by themselves.
invalidateForEpochOnly ==
    /\ epoch' = epoch + 1
    /\ scan_after' = 0
    /\ UNCHANGED <<jobs, attempts>>

\* invalidateFor: a new epoch; no active job survives it.
invalidateFor ==
    /\ epoch' = epoch + 1
    /\ scan_after' = 0
    /\ jobs' = Moved(ActiveJobs, "stale")
    /\ attempts' = Closed(ActiveJobs, "unknown")

\* The tables that no operator transaction touches.
OperatorLeaves == UNCHANGED <<facts, outputs, workers, disturbances>>

\* Register: a new or replaced service, always with a new execution generation.
Register(p, mode, state, learning) ==
    /\ sequence < MaxGeneration
    /\ sequence' = sequence + 1
    /\ registry' = [registry EXCEPT ![p] =
                      [generation |-> sequence + 1, execution_generation |-> sequence + 1,
                       state |-> state, mode |-> mode, learning |-> learning]]
    /\ invalidateFor
    /\ OperatorLeaves /\ UNCHANGED <<admission, requests>>

\* A change of mode or of the selector, a pause or an unpause starts a new
\* execution generation.
ControlChanges(old, state, mode, reselects) ==
    \/ mode # old.mode
    \/ reselects
    \/ (state = "paused") # (old.state = "paused")

\* Control: draining, resuming and learning keep the running jobs.
Control(p, state, mode, learning, reselects) ==
    /\ p \in Registered
    /\ sequence < MaxGeneration
    /\ sequence' = sequence + 1
    /\ registry' = [registry EXCEPT ![p] =
                      [generation |-> sequence + 1,
                       execution_generation |-> IF ControlChanges(@, state, mode, reselects)
                                                THEN sequence + 1
                                                ELSE @.execution_generation,
                       state |-> state, mode |-> mode, learning |-> learning]]
    /\ \/ ControlChanges(registry[p], state, mode, reselects) /\ invalidateFor
       \/ ~ControlChanges(registry[p], state, mode, reselects) /\ UNCHANGED <<epoch, scan_after, jobs, attempts>>
    /\ OperatorLeaves /\ UNCHANGED <<admission, requests>>

\* Remove: the service leaves the registry; its results and exclusions stay.
Remove(p) ==
    /\ p \in Registered
    /\ registry' = [registry EXCEPT ![p] = None]
    /\ invalidateFor
    /\ OperatorLeaves /\ UNCHANGED <<admission, sequence, requests>>

\* SetAdmission: a different policy (the cohort may be the same under another seed
\* or version) also gives every entry a new generation.
SetAdmission(cohort) ==
    /\ admission.generation < MaxGeneration
    /\ admission' = [generation |-> admission.generation + 1, cohort |-> cohort]
    /\ LET n == Cardinality(Registered)
       IN  /\ sequence + n <= MaxGeneration
           /\ sequence' = sequence + n
           /\ \E order \in [Registered -> 1..n] :
                /\ \A p, q \in Registered : p # q => order[p] # order[q]
                /\ registry' = [p \in Entries |->
                     IF p \in Registered
                     THEN [registry[p] EXCEPT !.generation = sequence + order[p],
                                              !.execution_generation = sequence + order[p]]
                     ELSE None]
    /\ invalidateFor
    /\ OperatorLeaves /\ UNCHANGED requests

\* Cancel: the operator ends one job; its attempt has an unknown outcome.
Cancel(j) ==
    /\ j \in ActiveJobs
    /\ jobs' = Moved({j}, "canceled")
    /\ attempts' = Closed({j}, "unknown")
    /\ OperatorLeaves /\ UNCHANGED <<control, requests>>
=============================================================================
