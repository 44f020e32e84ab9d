----------------------------- MODULE Processors ----------------------------
(***************************************************************************)
(* The optional processor pipeline as a whole: operators, the scanner, the *)
(* workers of every replica, the core and the catalogue, interleaved.      *)
(***************************************************************************)
EXTENDS ProcessorRegistry, ProcessorQueue

Init ==
    /\ epoch = 1 /\ scan_after = 0 /\ sequence = 0
    /\ admission = [generation |-> 1, cohort |-> Torrents]
    /\ registry = [p \in Entries |-> None]
    /\ \E raw \in Raws : facts = [t \in Torrents |-> [raw |-> raw, admissible |-> "yes",
                                                     enriched |-> "no", receipt |-> None]]
    /\ jobs = [j \in {} |-> None]
    /\ attempts = [a \in {} |-> None]
    /\ applications = [t \in {} |-> None]
    /\ exclusions = {}
    /\ requests = <<>>
    /\ workers = [w \in Workers |-> Idle]
    /\ disturbances = 0

\* What the rest of the program makes of a torrent: new metadata or files, a
\* quarantine or its end, a reclassification that drops an enrichment, the
\* receipt of an ordinary run, a deletion, a new discovery.
CoreWrites(f) ==
    IF f = Gone
    THEN {[raw |-> raw, admissible |-> "yes", enriched |-> "no", receipt |-> None] : raw \in Raws}
    ELSE {[f EXCEPT !.raw = raw] : raw \in Raws}
         \cup {[f EXCEPT !.admissible = a] : a \in YesNo}
         \cup {[f EXCEPT !.enriched = "no"],
               [f EXCEPT !.receipt = [raw |-> f.raw, processing |-> "completed"]], Gone}

CoreChanges(t) ==
    /\ disturbances < MaxDisturbances
    /\ disturbances' = disturbances + 1
    /\ \E f \in CoreWrites(facts[t]) \ {facts[t]} : facts' = [facts EXCEPT ![t] = f]
    /\ UNCHANGED <<control, jobs, attempts, outputs, requests, workers>>

Operator ==
    \/ \E p \in Entries, mode \in Modes, learning \in Learnings,
          state \in {"active", "draining", "paused"} :
             \/ Register(p, mode, state, learning)
             \/ \E reselects \in BOOLEAN : Control(p, state, mode, learning, reselects)
    \/ \E p \in Entries : Remove(p)
    \/ \E cohort \in Cohorts : SetAdmission(cohort)
    \/ \E j \in ActiveJobs : Cancel(j)
    \/ \E j \in DOMAIN jobs : Reprocess(j)
    \/ \E r \in DOMAIN requests : CancelReprocessing(r)

Core ==
    \/ \E r \in DOMAIN requests : CoreReads(r) \/ CoreRetries(r)
    \/ \E r \in DOMAIN requests, p \in {"completed", "deferred"} : RecordCore(r, p)
    \/ \E r \in DOMAIN requests, s \in {"processed", "failed", "missing"} : CoreEnds(r, s)
    \/ \E t \in Torrents : CoreChanges(t)

Scanner == \E expired \in SUBSET OpenRequests, doomed \in SUBSET Prunable : Scan(expired, doomed)

\* The steps of RunOne that need nothing but the worker.
Proceed(w) ==
    \/ Prepare(w) \/ PrepareStale(w) \/ Abandon(w) \/ FailPreparation(w)
    \/ StartAttempt(w) \/ FinishStale(w)
    \/ \E outcome \in Finals, enriched \in YesNo :
          Finish(w, outcome, enriched)

Worker(w) ==
    \/ \E expired \in SUBSET LeasedJobs : \/ ClaimNone(w, expired)
                                          \/ \E j \in DOMAIN jobs : ClaimJob(w, expired, j)
    \/ PrepareFails(w) \/ Crash(w) \/ Proceed(w)

Next == Operator \/ Core \/ Scanner \/ \E w \in Workers : Worker(w)

Spec == Init /\ [][Next]_vars

\* Claim leases jobs in the order of the time they became available, so a job of
\* a torrent that can be leased again and again eventually is.
ClaimOf(t) == \E w \in Workers, j \in DOMAIN jobs : j.hash = t /\ ClaimJob(w, {}, j)

\* The lease of a worker that stopped runs out, and a later Claim finds it.
ReclaimOf(t) ==
    LET dead == {j \in LeasedJobs : j.hash = t /\ ~\E v \in Workers : Holds(v) /\ workers[v].job = j}
    IN  /\ dead # {}
        /\ \E w \in Workers : ClaimNone(w, dead) \/ \E j \in DOMAIN jobs : ClaimJob(w, dead, j)

\* The loops of Store.Worker: RunOne bounds every call by a timeout and goes on,
\* Scan runs again after every poll interval, and hours pass.
Fairness ==
    /\ \A w \in Workers : WF_vars(Proceed(w))
    /\ \A t \in Torrents : SF_vars(ClaimOf(t)) /\ SF_vars(ReclaimOf(t))
    /\ WF_vars(Scan(OpenRequests, {}))

LiveSpec == Spec /\ Fairness

-----------------------------------------------------------------------------
(* Properties *)

Lease == [pc : {"claimed", "prepared", "abandoning", "failing", "dispatched"},
          job : JobIds, generation : Nat, step : Nat, step_attempts : Nat,
          results : Seq(Finals), input : Hints \cup {None}]

\* The types of the tables; an attempt belongs to a job in the table, also after
\* pruneJobs.
TypeOK ==
    /\ epoch \in Nat /\ scan_after \in Torrents \cup {0} /\ sequence \in 0..MaxGeneration
    /\ admission \in [generation : Nat, cohort : SUBSET Torrents]
    /\ registry \in [Entries -> Entry \cup {None}]
    /\ facts \in [Torrents -> Fact \cup {Gone}]
    /\ DOMAIN jobs \subseteq JobIds /\ jobs \in [DOMAIN jobs -> Job]
    /\ DOMAIN attempts \subseteq [job : DOMAIN jobs, generation : Nat]
    /\ attempts \in [DOMAIN attempts -> Finals \cup {"open", "unknown"}]
    /\ DOMAIN applications \subseteq Torrents /\ exclusions \subseteq Torrents
    /\ requests \in Seq(Request)
    /\ workers \in [Workers -> {Idle} \cup Lease]
    /\ disturbances \in 0..MaxDisturbances

\* Changing the registry or the admission policy ends every active job, so a job
\* that can still run has exactly the services, modes and execution generations
\* registered now; only the learning setting may differ (Control keeps jobs then).
ActiveJobsRunTheRegistry ==
    \A j \in ActiveJobs :
        /\ j.plan.epoch = epoch
        /\ Steps(j.plan) = Steps(Plan)
        /\ \A p \in Steps(j.plan) :
              /\ j.plan.steps[p].mode = Plan.steps[p].mode
              /\ j.plan.steps[p].generation = Plan.steps[p].generation

\* An attempt is unfinished only while its job is leased at that generation: no
\* path (expiry, cancellation, invalidation, abandonment, crash) forgets one.
OpenAttemptIsLive ==
    \A a \in DOMAIN attempts :
        attempts[a] = "open" => /\ jobs[a.job].state = "leased"
                                /\ jobs[a.job].generation = a.generation

\* Lease generations fence workers: a lease has one holder, whatever expired.
OneHolder ==
    \A v, w \in Workers : Holds(v) /\ Holds(w) /\ workers[v].job = workers[w].job => v = w

\* The limits of the configuration, over all replicas.
ResourceBounds ==
    /\ Cardinality(LeasedJobs) <= Concurrency
    /\ Cardinality(ActiveJobs) <= QueueCapacity
    /\ Cardinality(DOMAIN jobs) <= RetainedJobs

\* "Concurrent candidate changes cannot reuse an ID with a different request":
\* every worker that calls a service for a step of a job, also one whose lease
\* was taken over, sends the same frozen request.
FrozenInput ==
    \A v, w \in Workers :
        (/\ {workers[v].pc, workers[w].pc} \subseteq {"prepared", "dispatched"}
         /\ workers[v].job = workers[w].job
         /\ workers[v].step = workers[w].step) => workers[v].input = workers[w].input

\* The retry ceilings bound the calls of a job, expired leases and crashes included.
AttemptBudget ==
    \A j \in DOMAIN jobs :
        /\ jobs[j].step_attempts <= MaxAttempts
        /\ jobs[j].preparation_failures <= MaxAttempts
        /\ Len(jobs[j].results) = jobs[j].step
        /\ Cardinality({a \in DOMAIN attempts : a.job = j}) <= MaxAttempts * Cardinality(Steps(j.plan))

\* While a request waits for the core or for admission, its torrent has no active
\* job, and it is the only open request of the torrent.
RequestIsExclusive ==
    \A r \in OpenRequests :
        /\ \A q \in OpenRequests : requests[q].hash = requests[r].hash => q = r
        /\ requests[r].state # "queued" => ~\E j \in ActiveJobs : j.hash = requests[r].hash

\* "never infers normal matching from a processed queue status": a request enters
\* the pipeline only with the receipt of its own, completed core run.
AdmissionIsEarned ==
    \A r \in DOMAIN requests : requests[r].state \in {"ready", "queued"} =>
        requests[r].receipt # None /\ requests[r].receipt.processing = "completed"

\* A request that was admitted keeps its job until it is settled: pruning never
\* removes the job of a queued request.
QueuedRequestHasJob ==
    \A r \in DOMAIN requests : requests[r].state = "queued" => requests[r].job \in DOMAIN jobs

\* "its late receipt cannot reactivate the canceled request": a canceled request
\* stays canceled, its job is never active again, and no job of its time applies.
CanceledRequestIsOver ==
    [][\A r \in DOMAIN requests : requests[r].state = "canceled" =>
          /\ requests'[r].state = "canceled"
          /\ requests[r].job \notin ActiveJobs'
          /\ \A j \in ActiveJobs : jobs'[j].state = "completed" => j.revision.reprocess # r]_vars

\* A finished job never changes state again; it can only be pruned (and, while
\* source and plan are the same, its id then be admitted anew).
TerminalForever ==
    [][\A j \in DOMAIN jobs \cap DOMAIN jobs' :
          jobs[j].state \in Terminal => jobs'[j].state = jobs[j].state \/ jobs'[j] = NewJob]_vars

\* Results take effect only when a job completes, and then its source and plan
\* are the current ones: "Old jobs cannot apply after activation".
ApplicationIsFresh ==
    [][\A t \in Torrents :
          (applications' # applications /\ t \in DOMAIN applications'
             /\ (t \notin DOMAIN applications \/ applications'[t] # applications[t])) =>
          \E j \in ActiveJobs :
             /\ j.hash = t /\ Fresh(j)
             /\ jobs'[j].state = "completed"
             /\ Steps(j.plan) = Steps(Plan)]_vars

\* A torrent is excluded only on the word of a service that is in apply mode now.
ExclusionHasAuthority ==
    [][\A t \in exclusions' \ exclusions :
          \E j \in ActiveJobs : \E i \in DOMAIN jobs'[j].results :
             /\ j.hash = t /\ jobs'[j].state = "completed"
             /\ jobs'[j].results[i] = "excluded"
             /\ LET p == StepEntry(j.plan, i)
                IN  p \in Registered /\ registry[p].mode = "apply" /\ registry[p].state # "paused"]_vars

\* A service that is paused or removed is never called again: an attempt starts
\* only for an entry of the registry at its current execution generation.
DispatchIsAuthorized ==
    [][\A a \in DOMAIN attempts' \ DOMAIN attempts :
          LET p == StepEntry(a.job.plan, jobs[a.job].step + 1)
          IN  /\ p \in Registered
              /\ registry[p].state # "paused"
              /\ registry[p].execution_generation = a.job.plan.steps[p].generation]_vars

\* Every job comes to an end: whatever services answer, workers that stop (finitely
\* often) and what operators do, no job keeps its torrent busy for ever.
JobsEnd == \A t \in Torrents : []<>(\A j \in ActiveJobs : j.hash # t)

\* "A request waiting for core/admission expires after one hour rather than
\* remaining silently pending forever."
RequestsClose ==
    \A r \in 1..MaxRequests :
        (r \in DOMAIN requests /\ requests[r].state \in Open)
            ~> (r \in DOMAIN requests /\ requests[r].state \notin Open)
=============================================================================
