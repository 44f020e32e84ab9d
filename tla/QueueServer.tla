---------------------------- MODULE QueueServer ----------------------------
(***************************************************************************)
(* The core job queue: the table queue_jobs, the polling worker of         *)
(* internal/queue/server/server.go, the handler runner of                  *)
(* internal/queue/handler/handler.go, the garbage collector and the        *)
(* manager's purge.  A worker keeps one database transaction open from the *)
(* SELECT ... FOR UPDATE SKIP LOCKED to the final UPDATE, so the row lock  *)
(* of a job is held by the worker that executes it and a crash rolls back. *)
(*                                                                         *)
(* Time is abstracted: run_after is "past" or "future", and a row in       *)
(* backoff becomes due at any moment.  Only the audited reprocessing of    *)
(* internal/processors writes the column deadline; the other producers     *)
(* leave it null ("none").                                                 *)
(***************************************************************************)
EXTENDS Naturals

CONSTANTS
    MaxRows,      \* bound on the rows ever inserted into queue_jobs
    Payloads,     \* distinct message payloads; a payload determines the fingerprint
    Workers,      \* the Concurrency permits of the handler's semaphore
    MaxRetries,   \* QueueJobMaxRetries(...)
    Deadlines,    \* the deadlines producers write: "none", "ahead" or both
    MaxCrashes    \* bound on the process crashes of a behaviour

ASSUME QueueServerAssumption ==
    /\ MaxRows \in Nat
    /\ MaxRetries \in Nat
    /\ MaxCrashes \in Nat
    /\ Deadlines \subseteq {"none", "ahead"}

VARIABLES
    issued,    \* rows inserted so far: a row's id is never used again
    jobs,      \* the rows present: a function on a subset of Rows
    worker,    \* what each permit of the semaphore is used for
    orphans,   \* handler goroutines that outlived the Exec that started them
    crashes    \* process crashes so far

vars == <<issued, jobs, worker, orphans, crashes>>

Rows == 1..MaxRows

RunAfter == {"past", "future"}

Unprocessed == {"pending", "retry"}
Statuses == Unprocessed \cup {"processed", "failed"}

Deadline == {"none", "ahead", "past"}

Job == [payload : Payloads, status : Statuses, retries : 0..MaxRetries,
        run_after : RunAfter, deadline : Deadline]

Idle == [pc |-> "idle"]

Held == [pc : {"executing", "succeeded", "errored"}, row : Rows, retries : 0..MaxRetries]

\* The types of the table and of what the workers remember; retries stay in range.
TypeOK ==
    /\ issued \in 0..MaxRows
    /\ DOMAIN jobs \subseteq 1..issued
    /\ jobs \in [DOMAIN jobs -> Job]
    /\ worker \in [Workers -> {Idle} \cup Held]
    /\ orphans \in [Rows -> Nat]
    /\ crashes \in 0..MaxCrashes

Busy(w) == worker[w].pc # "idle"

Locked(r) == \E w \in Workers : Busy(w) /\ worker[w].row = r

Init ==
    /\ issued = 0
    /\ jobs = [r \in {} |-> Idle]
    /\ worker = [w \in Workers |-> Idle]
    /\ orphans = [r \in Rows |-> 0]
    /\ crashes = 0

-----------------------------------------------------------------------------
\* An INSERT of a message.  The unique partial index on the fingerprint keeps
\* at most one unprocessed row for a payload: a second INSERT does nothing.
NewQueueJob(p, after, limit) ==
    /\ issued < MaxRows
    /\ issued' = issued + 1
    /\ \A s \in DOMAIN jobs : jobs[s].payload = p => jobs[s].status \notin Unprocessed
    /\ jobs' = [s \in DOMAIN jobs \cup {issued + 1} |->
                  IF s = issued + 1
                  THEN [payload |-> p, status |-> "pending", retries |-> 0,
                        run_after |-> after, deadline |-> limit]
                  ELSE jobs[s]]
    /\ UNCHANGED <<worker, orphans, crashes>>

\* run_after passes.
BecomeDue(r) ==
    /\ r \in DOMAIN jobs
    /\ jobs[r].run_after = "future"
    /\ jobs' = [jobs EXCEPT ![r].run_after = "past"]
    /\ UNCHANGED <<issued, worker, orphans, crashes>>

\* The deadline passes.
DeadlinePasses(r) ==
    /\ r \in DOMAIN jobs
    /\ jobs[r].deadline = "ahead"
    /\ jobs' = [jobs EXCEPT ![r].deadline = "past"]
    /\ UNCHANGED <<issued, worker, orphans, crashes>>

Runnable(r) ==
    /\ r \in DOMAIN jobs
    /\ jobs[r].status \in Unprocessed
    /\ jobs[r].run_after = "past"
    /\ ~Locked(r)

\* MUTANT: a retry is not counted.
PickJobUncounted(w, r) ==
    /\ ~Busy(w)
    /\ Runnable(r)
    /\ worker' = [worker EXCEPT ![w] =
                    [pc |-> "executing", row |-> r, retries |-> jobs[r].retries]]
    /\ UNCHANGED <<issued, jobs, orphans, crashes>>

\* The first half of handleJob: a retried row counts one more retry (in memory),
\* and Exec starts the handler.  A row whose deadline has passed is not executed:
\* it fails as it is.  The poll takes pending rows before rows in retry, but a
\* delayed notification takes its own row; which of the runnable rows is open.
PickJob(w, r) ==
    /\ ~Busy(w)
    /\ Runnable(r)
    /\ worker' = [worker EXCEPT ![w] =
                    IF jobs[r].deadline = "past"
                    THEN [pc |-> "errored", row |-> r, retries |-> jobs[r].retries]
                    ELSE [pc |-> "executing", row |-> r,
                          retries |-> IF jobs[r].status # "pending"
                                      THEN jobs[r].retries + 1
                                      ELSE jobs[r].retries]]
    /\ UNCHANGED <<issued, jobs, orphans, crashes>>

\* The handler's function returns, or panics and is recovered, before the timeout.
HandlerReturns(w, result) ==
    /\ worker[w].pc = "executing"
    /\ worker' = [worker EXCEPT ![w].pc = result]
    /\ UNCHANGED <<issued, jobs, orphans, crashes>>

\* The timeout of Exec fires first.  The handler was given the caller's context,
\* not the one with the timeout, so its goroutine goes on running.
ExecTimeout(w) ==
    /\ worker[w].pc = "executing"
    /\ worker' = [worker EXCEPT ![w].pc = "errored"]
    /\ orphans' = [orphans EXCEPT ![worker[w].row] = @ + 1]
    /\ UNCHANGED <<issued, jobs, crashes>>

OrphanEnds(r) ==
    /\ orphans[r] > 0
    /\ orphans' = [orphans EXCEPT ![r] = @ - 1]
    /\ UNCHANGED <<issued, jobs, worker, crashes>>

\* What the second half of handleJob writes to the row of its job.
Settled(j, w) ==
    IF worker[w].pc = "succeeded"
    THEN [j EXCEPT !.status = "processed", !.retries = worker[w].retries]
    ELSE IF worker[w].retries < MaxRetries
         THEN [j EXCEPT !.status = "retry", !.retries = worker[w].retries, !.run_after = "future"]
         ELSE [j EXCEPT !.status = "failed", !.retries = worker[w].retries]

\* The second half of handleJob: UPDATE and COMMIT, then the permit is released.
Settle(w) ==
    /\ worker[w].pc \in {"succeeded", "errored"}
    /\ jobs' = [jobs EXCEPT ![worker[w].row] = Settled(@, w)]
    /\ worker' = [worker EXCEPT ![w] = Idle]
    /\ UNCHANGED <<issued, orphans, crashes>>

\* The worker's transaction is rolled back: the UPDATE or COMMIT fails, or the
\* context was canceled by a shutdown.  The row keeps its status and retries.
Rollback(w) ==
    /\ worker[w].pc \in {"succeeded", "errored"}
    /\ crashes < MaxCrashes
    /\ crashes' = crashes + 1
    /\ worker' = [worker EXCEPT ![w] = Idle]
    /\ UNCHANGED <<issued, jobs, orphans>>

\* The process dies: every open transaction is rolled back, every goroutine ends.
Crash ==
    /\ crashes < MaxCrashes
    /\ \E w \in Workers : Busy(w)
    /\ crashes' = crashes + 1
    /\ worker' = [w \in Workers |-> Idle]
    /\ orphans' = [r \in Rows |-> 0]
    /\ UNCHANGED <<issued, jobs>>

\* runGarbageCollection: delete what was processed or failed long enough ago.
GarbageCollect(old) ==
    /\ old # {}
    /\ old \subseteq {r \in DOMAIN jobs : jobs[r].status \in {"processed", "failed"}}
    /\ jobs' = [r \in DOMAIN jobs \ old |-> jobs[r]]
    /\ UNCHANGED <<issued, worker, orphans, crashes>>

\* MUTANT: the purge ignores row locks.
PurgeJobsUnlocked(statuses) ==
    LET gone == {r \in DOMAIN jobs : jobs[r].status \in statuses}
    IN  /\ gone # {}
        /\ jobs' = [r \in DOMAIN jobs \ gone |-> jobs[r]]
        /\ UNCHANGED <<issued, worker, orphans, crashes>>

\* PurgeJobs for a set of statuses, or TRUNCATE for all of them: the statement
\* waits for the rows that a worker has locked.
PurgeJobs(statuses) ==
    LET gone == {r \in DOMAIN jobs : jobs[r].status \in statuses}
    IN  /\ gone # {}
        /\ \A r \in gone : ~Locked(r)
        /\ jobs' = [r \in DOMAIN jobs \ gone |-> jobs[r]]
        /\ UNCHANGED <<issued, worker, orphans, crashes>>

-----------------------------------------------------------------------------
Work(w) ==
    \/ \E r \in Rows : PickJob(w, r)
    \/ \E result \in {"succeeded", "errored"} : HandlerReturns(w, result)
    \/ ExecTimeout(w)
    \/ Settle(w)

Next ==
    \/ \E p \in Payloads, after \in RunAfter, limit \in Deadlines : NewQueueJob(p, after, limit)
    \/ \E r \in Rows : BecomeDue(r) \/ DeadlinePasses(r) \/ OrphanEnds(r)
    \/ \E w \in Workers : Work(w) \/ Rollback(w)
    \/ Crash
    \/ \E old \in SUBSET Rows : GarbageCollect(old)
    \/ \E statuses \in {{s} : s \in Statuses} \cup {Statuses} : PurgeJobs(statuses)

Spec == Init /\ [][Next]_vars

\* The polling loop keeps checking and Exec always returns (its timeout fires), so a
\* permit that can work does; run_after passes.  The poll takes the row with the
\* oldest run_after, and a row that is retried gets a later one, so a row that can
\* be picked again and again is.
Fairness ==
    /\ \A w \in Workers : WF_vars(Work(w))
    /\ \A r \in Rows : WF_vars(BecomeDue(r)) /\ SF_vars(\E w \in Workers : PickJob(w, r))

LiveSpec == Spec /\ Fairness

-----------------------------------------------------------------------------
(* Properties *)

\* A row is locked by one worker only (FOR UPDATE SKIP LOCKED), it stays in the
\* table while it is executed, and it keeps the status it was picked with: a
\* purge or the collector never removes a job under the worker that runs it.
ExecutesLiveRow ==
    \A w \in Workers : Busy(w) =>
        /\ worker[w].row \in DOMAIN jobs
        /\ jobs[worker[w].row].status \in Unprocessed
        /\ \A v \in Workers \ {w} : Busy(v) => worker[v].row # worker[w].row

\* The unique index on the fingerprint (migration 00019) holds in every state:
\* settling a job as "retry" never meets another unprocessed row for its payload.
OneUnprocessedPerPayload ==
    \A r, s \in DOMAIN jobs :
        (/\ jobs[r].payload = jobs[s].payload
         /\ {jobs[r].status, jobs[s].status} \subseteq Unprocessed) => r = s

\* handleJob gives a job up only when its retries are used up, and never lets a
\* row wait for a retry it may not have.
RetryBudget ==
    \A r \in DOMAIN jobs :
        /\ jobs[r].status = "failed" => jobs[r].retries = MaxRetries
        /\ jobs[r].status = "retry" => jobs[r].retries < MaxRetries

\* The comment on JobTimeout (handler.go): the timeout is the amount of time that
\* can be spent executing the handler's function; then the job fails and is
\* retried.  So no execution of a job starts while an earlier one still runs.
OneExecutionPerJob ==
    \A w \in Workers : worker[w].pc = "executing" => orphans[worker[w].row] = 0

\* The bounded retry of handleJob: every row is eventually processed, given up
\* or purged, whatever handlers, timeouts and (finitely many) crashes do.
EveryJobSettles ==
    \A r \in Rows :
        (r \in DOMAIN jobs /\ jobs[r].status \in Unprocessed)
            ~> (r \notin DOMAIN jobs \/ jobs[r].status \notin Unprocessed)

\* The same of the rows whose producer set no deadline, beside rows with one.
UndatedJobsSettle ==
    \A r \in Rows :
        (r \in DOMAIN jobs /\ jobs[r].deadline = "none" /\ jobs[r].status \in Unprocessed)
            ~> (r \notin DOMAIN jobs \/ jobs[r].status \notin Unprocessed)
=============================================================================
