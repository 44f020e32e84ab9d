-------------------------- MODULE ProcessorQueue ---------------------------
(***************************************************************************)
(* Admission and execution (queue.go, apply.go, attempt_window.go).  Scan  *)
(* and Claim hold the control row FOR UPDATE; Prepare, Finish and          *)
(* failPreparation hold it FOR SHARE together with the row of the job, so  *)
(* each transaction is one step, and RunOne is the steps of one worker     *)
(* with nothing held between them.  A worker may stop anywhere.            *)
(***************************************************************************)
EXTENDS ProcessorReprocessing, Functions

\* The i-th element of a set of numbers, and its first n elements, in order.
Nth(S, i) == CHOOSE x \in S : Cardinality({y \in S : y < x}) = i - 1
Lowest(S, n) == [i \in 1..Min({n, Cardinality(S)}) |-> Nth(S, i)]

NewJob == [state |-> "queued", generation |-> 0, step |-> 0, step_attempts |-> 0,
           preparation_failures |-> 0, prepared |-> None, results |-> <<>>]

\* pruneJobs: jobs that finished longer ago than the retention.  Config.Validate
\* keeps the retention (an hour or more) above the minute a RunOne may take.
Prunable == {j \in DOMAIN jobs \ ActiveJobs :
                ~\E w \in Workers : Busy(w) /\ workers[w].job = j}

Idle == [pc |-> "idle"]

\* The foreign key of processor_attempts: a pruned job takes its attempts along.
Cascaded(kept) == [a \in {b \in DOMAIN attempts : b.job \in kept} |-> attempts[a]]

\* How many jobs one Scan may admit.
Capacity(kept) ==
    Min({ScanBatch, QueueCapacity - Cardinality(kept \cap ActiveJobs),
         RetainedJobs - Cardinality(kept)})

\* The job that Scan would admit for a torrent.
JobOf(reqs, t) == [hash |-> t, revision |-> Source(reqs, t), plan |-> Plan]

\* Whether it does: the torrent is in the cohort and allowed, its job is not in the
\* table and its result was not applied before.
Inserts(reqs, kept, t) ==
    /\ t \in admission.cohort
    /\ Admitted(t)
    /\ JobOf(reqs, t) \notin kept
    /\ ~(/\ t \in DOMAIN applications
         /\ applications[t].applied = Source(reqs, t)
         /\ applications[t].plan = Plan)

\* The loop of Scan after settlement and pruning: which torrents it comes to before
\* its capacity is used up, explicit requests first, and what else it does.
Admission(reqs, kept) ==
    LET capacity == Capacity(kept)
        ready    == Lowest({r \in DOMAIN reqs : reqs[r].state = "ready"}, Min({16, capacity}))
        priority == [i \in DOMAIN ready |-> reqs[ready[i]].hash]
        normal   == Lowest({t \in Torrents :
                              /\ t > scan_after
                              /\ facts[t] # Gone
                              /\ ~\E r \in DOMAIN reqs : reqs[r].hash = t /\ reqs[r].state = "waiting_core"},
                           ScanBatch - Len(priority))
        hashes   == priority \o SelectSeq(normal, LAMBDA t : t \notin Range(priority))
        seen     == {i \in DOMAIN hashes :
                        Cardinality({k \in 1..(i - 1) : Inserts(reqs, kept, hashes[k])}) < capacity}
        walked   == {hashes[i] : i \in {k \in seen : k > Len(priority)}}
    IN  IF capacity <= 0
        THEN [aborts |-> FALSE, read |-> {}, held |-> {}, after |-> scan_after]
        ELSE [aborts |-> \E t \in Range(priority) : t \in admission.cohort /\ facts[t] = Gone,
              read   |-> {hashes[i] : i \in seen},
              held   |-> {t \in Range(priority) : t \in admission.cohort /\ ~Admitted(t)},
              after  |-> IF normal = <<>> /\ priority = <<>> THEN 0
                         ELSE IF walked = {} THEN scan_after
                         ELSE Max(walked)]

\* Scan: settle the requests, prune, then admit.  A ready request whose torrent
\* is gone makes the transaction fail; nothing of it is kept.
Scan(expired, doomed) ==
    LET reqs == settleReprocessing(expired)
        kept == DOMAIN jobs \ doomed
        a    == Admission(reqs, kept)
        new  == {JobOf(reqs, t) : t \in {u \in a.read : Inserts(reqs, kept, u)}}
    IN  /\ IF Steps(Plan) = {} \/ Draining \/ admission.cohort = {}
           THEN doomed = {} /\ requests' = reqs /\ UNCHANGED <<jobs, attempts, scan_after>>
           ELSE /\ ~a.aborts
                /\ jobs' = [j \in kept \cup new |-> IF j \in new THEN NewJob ELSE jobs[j]]
                /\ attempts' = Cascaded(kept)
                /\ requests' = [r \in DOMAIN reqs |->
                      IF reqs[r].state # "ready" THEN reqs[r]
                      ELSE IF reqs[r].hash \in a.held THEN [reqs[r] EXCEPT !.state = "held"]
                      ELSE IF \E j \in new : j.hash = reqs[r].hash
                           THEN [reqs[r] EXCEPT !.state = "queued",
                                                !.job = CHOOSE j \in new : j.hash = reqs[r].hash]
                           ELSE reqs[r]]
                /\ scan_after' = a.after
        /\ UNCHANGED <<epoch, admission, sequence, registry, facts, outputs, workers, disturbances>>

-----------------------------------------------------------------------------
\* MUTANT: the attempt of a lease that ran out stays open.
RequeuedOpen(expired) == [jobs |-> Moved(expired, "queued"), attempts |-> attempts]

\* MUTANT: only leases under which a service was called are found to run out.
RequeuedDispatched(expired) ==
    [jobs |-> Moved({j \in expired : jobs[j].step_attempts > 0}, "queued"),
     attempts |-> Closed(expired, "failed")]

\* Claim, first half: the leases that have run out go back to the queue, and an
\* attempt under such a lease has failed.
Requeued(expired) == [jobs |-> Moved(expired, "queued"), attempts |-> Closed(expired, "failed")]

\* A lease that runs out under a worker that is still running is a disturbance.
StillWorked(expired) == {j \in expired : \E w \in Workers : Holds(w) /\ workers[w].job = j}

Leasable(js) == {j \in DOMAIN js : js[j].state \in {"queued", "deferred"} /\ j.plan.epoch = epoch}

\* MUTANT: only the leases under which a service was called are counted.
LeaseCountDispatched(js) ==
    Cardinality({j \in DOMAIN js : js[j].state = "leased" /\ js[j].step_attempts > 0})

LeaseCount(js) == Cardinality({j \in DOMAIN js : js[j].state = "leased"})

\* MUTANT: a lease is taken over under its old generation.
NextGenerationSame(j) == Max({jobs[j].generation, 1})

\* The generation that fences every earlier lease of the job.
NextGeneration(j) == jobs[j].generation + 1

ClaimExpires(w, expired) ==
    /\ ~Busy(w)
    /\ expired \subseteq LeasedJobs
    /\ disturbances + Cardinality(StillWorked(expired)) <= MaxDisturbances
    /\ disturbances' = disturbances + Cardinality(StillWorked(expired))
    /\ attempts' = Requeued(expired).attempts
    /\ UNCHANGED <<control, facts, outputs, requests>>

\* Claim returns no lease: the concurrency is used up, or no job is available
\* (a deferred job may still be in its backoff, a queued one never is).
ClaimNone(w, expired) ==
    LET js == Requeued(expired).jobs
    IN  /\ expired # {}
        /\ ClaimExpires(w, expired)
        /\ \/ LeaseCount(js) >= Concurrency
           \/ \A j \in Leasable(js) : js[j].state # "queued"
        /\ jobs' = js
        /\ UNCHANGED workers

\* Claim leases a job under a new generation.
ClaimJob(w, expired, j) ==
    LET js == Requeued(expired).jobs
    IN  /\ ClaimExpires(w, expired)
        /\ LeaseCount(js) < Concurrency
        /\ j \in Leasable(js)
        /\ jobs' = [js EXCEPT ![j].state = "leased", ![j].generation = NextGeneration(j)]
        /\ workers' = [workers EXCEPT ![w] =
                          [pc |-> "claimed", job |-> j, generation |-> NextGeneration(j),
                           step |-> jobs[j].step, step_attempts |-> jobs[j].step_attempts,
                           results |-> jobs[j].results, input |-> None]]

\* The worker stops: a crash, a shutdown, a database error, or a call that took
\* longer than the lease.  Its lease stays until Claim finds it run out.
Crash(w) ==
    /\ Busy(w)
    /\ disturbances < MaxDisturbances
    /\ disturbances' = disturbances + 1
    /\ workers' = [workers EXCEPT ![w] = Idle]
    /\ UNCHANGED <<control, facts, jobs, attempts, outputs, requests>>

-----------------------------------------------------------------------------
(* The steps of RunOne after Claim, for the lease l of a worker. *)

WorkerMoves(w, pc, input) ==
    workers' = [workers EXCEPT ![w].pc = pc, ![w].input = input]

WorkerEnds(w) == workers' = [workers EXCEPT ![w] = Idle]

\* MUTANT: every preparation builds a new request.
PreparedAnew(j) == Hints

\* The request of a step: frozen by its first preparation, then reused.
PreparedInputs(j) == IF jobs[j].prepared = None THEN Hints ELSE {jobs[j].prepared}

\* Prepare: the source, the plan and the lease are checked (not the lease's time).
Prepare(w) ==
    LET j == workers[w].job
    IN  /\ workers[w].pc = "claimed"
        /\ Fresh(j) /\ Holds(w)
        /\ \E input \in PreparedInputs(j) :
             /\ jobs' = [jobs EXCEPT ![j].prepared = input]
             /\ WorkerMoves(w, "prepared", input)
        /\ UNCHANGED <<control, facts, attempts, outputs, requests, disturbances>>

\* Prepare finds the source, the plan or the lease outdated.
PrepareStale(w) ==
    /\ workers[w].pc = "claimed"
    /\ ~(Fresh(workers[w].job) /\ Holds(w))
    /\ WorkerMoves(w, "abandoning", None)
    /\ UNCHANGED <<control, facts, jobs, attempts, outputs, requests, disturbances>>

\* Prepare fails for another reason: an invalid or oversize request, a database error.
PrepareFails(w) ==
    /\ workers[w].pc = "claimed"
    /\ WorkerMoves(w, "failing", None)
    /\ UNCHANGED <<control, facts, jobs, attempts, outputs, requests, disturbances>>

\* abandon: one statement, without the control row.
Abandon(w) ==
    LET js == IF Holds(w) THEN {workers[w].job} ELSE {}
    IN  /\ workers[w].pc = "abandoning"
        /\ jobs' = Moved(js, "stale")
        /\ attempts' = Closed(js, "unknown")
        /\ WorkerEnds(w)
        /\ UNCHANGED <<control, facts, outputs, requests, disturbances>>

\* failPreparation: counted apart from the attempts of the step.
FailPreparation(w) ==
    LET j == workers[w].job
    IN  /\ workers[w].pc = "failing"
        /\ IF j.plan.epoch = epoch /\ Holds(w)
           THEN jobs' = [jobs EXCEPT ![j].preparation_failures = @ + 1,
                                     ![j].state = IF jobs[j].preparation_failures + 1 >= MaxAttempts
                                                  THEN "failed" ELSE "deferred"]
           ELSE UNCHANGED jobs
        /\ WorkerEnds(w)
        /\ UNCHANGED <<control, facts, attempts, outputs, requests, disturbances>>

\* MUTANT: the attempt is recorded without looking at the lease.
StartsUnfenced(w) == workers[w].job \in DOMAIN jobs

Starts(w) == Holds(w)

\* MUTANT: the attempts of a step are not limited.
MayDispatchEver(w) == TRUE

MayDispatch(w) == workers[w].step_attempts < MaxAttempts

\* startAttempt: an open attempt of this lease; then the service is called.
StartAttempt(w) ==
    LET j == workers[w].job
        a == [job |-> j, generation |-> workers[w].generation]
    IN  /\ workers[w].pc = "prepared"
        /\ MayDispatch(w)
        /\ IF Starts(w)
           THEN /\ jobs' = [jobs EXCEPT ![j].step_attempts = @ + 1]
                /\ attempts' = [x \in DOMAIN attempts \cup {a} |-> IF x = a THEN "open" ELSE attempts[x]]
                /\ WorkerMoves(w, "dispatched", workers[w].input)
           ELSE /\ WorkerEnds(w)
                /\ UNCHANGED <<jobs, attempts>>
        /\ UNCHANGED <<control, facts, outputs, requests, disturbances>>

-----------------------------------------------------------------------------
\* The processor of the i-th step of a plan.
StepEntry(plan, i) == Nth(Steps(plan), i)

\* MUTANT: a shadow step counts like the others.
AppliedOutcomesOfAll(plan, results) == {results[i] : i \in DOMAIN results}

\* The outcomes of the steps whose processor is in mode "apply".
AppliedOutcomes(plan, results) ==
    {results[i] : i \in {k \in DOMAIN results : plan.steps[StepEntry(plan, k)].mode = "apply"}}

\* canEnrich, and a proposal to apply.
MayEnrich(plan, results) ==
    /\ AppliedOutcomes(plan, results) \cap {"failed", "deferred"} = {}
    /\ AppliedOutcomes(plan, results) \cap {"completed", "excluded"} # {}

\* apply: exclusions, validated enrichment ("enriched": a proposal was accepted), and
\* the application, which records the source as it is afterwards.  The feedback it
\* appends is the subject of ProcessorFeedback.
Apply(j, results, enriched) ==
    LET t == j.hash
    IN  /\ enriched = "yes" => MayEnrich(j.plan, results)
        /\ facts' = IF enriched = "yes" THEN [facts EXCEPT ![t].enriched = "yes"] ELSE facts
        /\ exclusions' = IF "excluded" \in AppliedOutcomes(j.plan, results)
                         THEN exclusions \cup {t} ELSE exclusions
        /\ applications' =
             [u \in DOMAIN applications \cup {t} |->
                IF u = t THEN [job |-> j, plan |-> j.plan,
                               applied |-> [j.revision EXCEPT !.facts = facts'[t]]]
                ELSE applications[u]]

\* The outcome a worker may finish with: the service's answer or a failed call,
\* a step its selector skips, or a step whose attempts are used up.
MayFinish(w, outcome) ==
    \/ workers[w].pc = "dispatched" /\ outcome \in Outcomes \cup {"failed"}
    \/ workers[w].pc = "prepared" /\ outcome = "abstained"
    \/ workers[w].pc = "prepared" /\ outcome = "failed" /\ ~MayDispatch(w)

\* A failed or deferred call is tried again while the step has attempts left.
Retries(w, outcome) ==
    /\ workers[w].pc = "dispatched"
    /\ outcome \in {"failed", "deferred"}
    /\ workers[w].step_attempts + 1 < MaxAttempts

\* MUTANT: Finish compares the generation of the lease but not its state.
ValidInAnyState(w) ==
    /\ workers[w].job \in DOMAIN jobs
    /\ jobs[workers[w].job].generation = workers[w].generation
    /\ workers[w].job.plan.epoch = epoch

\* The validity check of Finish, under the job's row lock.
Valid(w) == Holds(w) /\ workers[w].job.plan.epoch = epoch

\* MUTANT: the last step applies without rechecking the source.
AppliesStale(j) == j.plan.epoch = epoch /\ facts[j.hash] # Gone

\* fresh, under the catalogue locks, before the results are applied.
Applies(j) == Fresh(j)

\* Finish with an outcome: schedule a retry, go to the next step, or end the job
\* (applied, or stale) and settle its request.
Finish(w, outcome, enriched) ==
    LET l       == workers[w]
        j       == l.job
        a       == [job |-> j, generation |-> l.generation]
        results == Append(l.results, outcome)
        last    == l.step + 1 = Cardinality(Steps(j.plan))
        state   == IF ~last THEN "queued" ELSE IF Applies(j) THEN "completed" ELSE "stale"
    IN  /\ MayFinish(w, outcome)
        /\ Valid(w)
        /\ attempts' = IF l.pc = "dispatched" THEN [attempts EXCEPT ![a] = outcome] ELSE attempts
        /\ IF Retries(w, outcome)
           THEN /\ enriched = "no"
                /\ jobs' = [jobs EXCEPT ![j].state = "deferred"]
                /\ UNCHANGED <<facts, outputs, requests>>
           ELSE /\ jobs' = [jobs EXCEPT ![j].results = results, ![j].prepared = None,
                                        ![j].step = @ + 1, ![j].step_attempts = 0,
                                        ![j].state = state]
                /\ IF state = "completed"
                   THEN Apply(j, results, enriched)
                   ELSE enriched = "no" /\ UNCHANGED <<facts, outputs>>
                /\ requests' = IF ~last THEN requests
                               ELSE [r \in DOMAIN requests |->
                                       IF requests[r].job = j /\ requests[r].state = "queued"
                                       THEN [requests[r] EXCEPT !.state = "settled"] ELSE requests[r]]
        /\ WorkerEnds(w)
        /\ UNCHANGED <<control, disturbances>>

\* Finish with a lease that is no longer valid: the answer is lost.
FinishStale(w) ==
    /\ workers[w].pc \in {"prepared", "dispatched"}
    /\ ~Valid(w)
    /\ WorkerEnds(w)
    /\ UNCHANGED <<control, facts, jobs, attempts, outputs, requests, disturbances>>
=============================================================================
