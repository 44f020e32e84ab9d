------------------------- MODULE QueueServerProofs -------------------------
(***************************************************************************)
(* The safety properties of QueueServer for every number of rows, payloads *)
(* and workers and every retry ceiling.  Together the type invariant, the  *)
(* exclusive use of live rows, the fingerprint index and the retry budget  *)
(* are inductive: a worker's retry count stays in range because a row in   *)
(* "retry" still has a retry left, and settling finds its row because no   *)
(* purge removes a locked one.                                             *)
(***************************************************************************)
EXTENDS QueueServer, TLAPS

IInv == TypeOK /\ ExecutesLiveRow /\ OneUnprocessedPerPayload /\ RetryBudget

\* The empty table with idle workers satisfies every conjunct.
LEMMA InitIInv == Init => IInv
BY QueueServerAssumption
DEF Init, IInv, TypeOK, ExecutesLiveRow, OneUnprocessedPerPayload, RetryBudget, Rows, Idle, Busy

\* Inserting a message: the new row is fresh, so no worker holds it.
LEMMA NewQueueJobIInv ==
    ASSUME IInv, NEW p \in Payloads, NEW after \in RunAfter, NEW limit \in Deadlines, NewQueueJob(p, after, limit)
    PROVE  IInv'
<1> USE QueueServerAssumption DEF IInv, TypeOK
<1>1. issued + 1 \notin DOMAIN jobs /\ issued + 1 \in 1..MaxRows
  BY DEF NewQueueJob
<1>2. DOMAIN jobs' = DOMAIN jobs \cup {issued + 1}
  BY DEF NewQueueJob
<1>3. \A s \in DOMAIN jobs : jobs'[s] = jobs[s]
  BY <1>1 DEF NewQueueJob
<1>4. /\ jobs'[issued + 1] \in Job
      /\ jobs'[issued + 1].payload = p
      /\ jobs'[issued + 1].status = "pending"
  BY DEF NewQueueJob, Job, Statuses, Unprocessed, RunAfter, Deadline
<1>5. jobs' = [s \in DOMAIN jobs' |-> jobs'[s]]
  BY DEF NewQueueJob
<1>6. TypeOK'
  BY <1>1, <1>2, <1>3, <1>4, <1>5 DEF NewQueueJob
<1>7. ExecutesLiveRow'
  BY <1>2, <1>3 DEF NewQueueJob, ExecutesLiveRow, Busy
<1>8. OneUnprocessedPerPayload'
  BY <1>1, <1>2, <1>3, <1>4 DEF NewQueueJob, OneUnprocessedPerPayload
<1>9. RetryBudget'
  BY <1>2, <1>3, <1>4 DEF RetryBudget
<1> QED BY <1>6, <1>7, <1>8, <1>9

\* Taking a job: a row in "retry" has a retry left, so the count stays in range.
LEMMA PickJobIInv ==
    ASSUME IInv, NEW w \in Workers, NEW r \in Rows, PickJob(w, r)
    PROVE  IInv'
<1> USE QueueServerAssumption DEF IInv, TypeOK
<1>1. /\ r \in DOMAIN jobs
      /\ jobs[r] \in Job
      /\ jobs[r].status \in Unprocessed
      /\ \A v \in Workers : Busy(v) => worker[v].row # r
  BY DEF PickJob, Runnable, Locked
<1>2. worker'[w] \in Held /\ worker'[w].row = r
  BY <1>1 DEF PickJob, Held, Job, RetryBudget, Unprocessed
<1>3. \A v \in Workers \ {w} : worker'[v] = worker[v]
  BY DEF PickJob
<1>4. TypeOK'
  BY <1>2 DEF PickJob
<1>5. ExecutesLiveRow'
  BY <1>1, <1>2, <1>3 DEF PickJob, ExecutesLiveRow, Busy
<1>6. OneUnprocessedPerPayload' /\ RetryBudget'
  BY DEF PickJob, OneUnprocessedPerPayload, RetryBudget
<1> QED BY <1>4, <1>5, <1>6

\* Settling: only the worker that holds the row writes it.
LEMMA SettleIInv ==
    ASSUME IInv, NEW w \in Workers, Settle(w)
    PROVE  IInv'
<1> USE QueueServerAssumption DEF IInv, TypeOK
<1> DEFINE r == worker[w].row
<1>1. worker[w] \in Held /\ Busy(w)
  BY DEF Settle, Busy, Idle
<1>2. r \in DOMAIN jobs /\ jobs[r] \in Job /\ jobs[r].status \in Unprocessed
  BY <1>1 DEF ExecutesLiveRow
<1>3. /\ Settled(jobs[r], w) \in Job
      /\ Settled(jobs[r], w).payload = jobs[r].payload
      /\ Settled(jobs[r], w).status = "failed" => Settled(jobs[r], w).retries = MaxRetries
      /\ Settled(jobs[r], w).status = "retry" => Settled(jobs[r], w).retries < MaxRetries
  <2>1. worker[w].retries \in 0..MaxRetries
    BY <1>1 DEF Held
  <2>2. CASE worker[w].pc = "succeeded"
    BY ZenonT(60), <1>2, <2>1, <2>2 DEF Settled, Deadline, Job, Statuses, RunAfter
  <2>3. CASE worker[w].pc # "succeeded" /\ worker[w].retries < MaxRetries
    BY ZenonT(60), <1>2, <2>1, <2>3 DEF Settled, Deadline, Job, Statuses, Unprocessed, RunAfter
  <2>4. CASE worker[w].pc # "succeeded" /\ ~(worker[w].retries < MaxRetries)
    <3>1. worker[w].retries = MaxRetries
      BY <2>1, <2>4
    <3>2. Settled(jobs[r], w) = [jobs[r] EXCEPT !.status = "failed", !.retries = MaxRetries]
      BY <2>4, <3>1 DEF Settled
    <3> QED BY ZenonT(60), <1>2, <2>1, <3>1, <3>2 DEF Job, Statuses
  <2> QED BY <2>2, <2>3, <2>4
<1>4. jobs' = [jobs EXCEPT ![r] = Settled(jobs[r], w)]
  BY DEF Settle
<1>5. worker' = [worker EXCEPT ![w] = Idle]
  BY DEF Settle
<1> HIDE DEF r
<1>6. TypeOK'
  BY ZenonT(60), <1>2, <1>3, <1>4, <1>5 DEF Settle
<1>7. ExecutesLiveRow'
  <2> SUFFICES ASSUME NEW v \in Workers, Busy(v)'
               PROVE  /\ worker'[v].row \in DOMAIN jobs'
                      /\ jobs'[worker'[v].row].status \in Unprocessed
                      /\ \A u \in Workers \ {v} : Busy(u)' => worker'[u].row # worker'[v].row
    BY DEF ExecutesLiveRow
  <2>1. v # w /\ worker'[v] = worker[v] /\ Busy(v)
    BY <1>5 DEF Busy, Idle
  <2>2. worker[v].row # r
    BY <1>1, <2>1 DEF ExecutesLiveRow, r
  <2>3. jobs'[worker[v].row] = jobs[worker[v].row] /\ DOMAIN jobs' = DOMAIN jobs
    BY <1>4, <2>1, <2>2 DEF ExecutesLiveRow
  <2>4. \A u \in Workers : Busy(u)' => Busy(u) /\ worker'[u] = worker[u]
    BY <1>5 DEF Busy, Idle
  <2> QED BY <2>1, <2>3, <2>4 DEF ExecutesLiveRow
<1>8. OneUnprocessedPerPayload'
  BY <1>2, <1>3, <1>4 DEF OneUnprocessedPerPayload, Unprocessed
<1>9. RetryBudget'
  BY <1>2, <1>3, <1>4 DEF RetryBudget
<1> QED BY <1>6, <1>7, <1>8, <1>9

\* A deletion of rows that no worker holds.
LEMMA DeleteIInv ==
    ASSUME IInv, NEW gone \in SUBSET DOMAIN jobs,
           \A r \in gone : ~Locked(r),
           jobs' = [r \in DOMAIN jobs \ gone |-> jobs[r]],
           UNCHANGED <<issued, worker, orphans, crashes>>
    PROVE  IInv'
<1> USE QueueServerAssumption DEF IInv, TypeOK
<1>1. TypeOK'
  OBVIOUS
<1>2. ExecutesLiveRow'
  BY DEF ExecutesLiveRow, Busy, Locked
<1>3. OneUnprocessedPerPayload' /\ RetryBudget'
  BY DEF OneUnprocessedPerPayload, RetryBudget
<1> QED BY <1>1, <1>2, <1>3

\* Every step of the queue preserves the inductive invariant.
LEMMA NextIInv == IInv /\ [Next]_vars => IInv'
<1> SUFFICES ASSUME IInv, [Next]_vars PROVE IInv'
  OBVIOUS
<1> USE QueueServerAssumption
<1>1. ASSUME NEW p \in Payloads, NEW after \in RunAfter, NEW limit \in Deadlines, NewQueueJob(p, after, limit) PROVE IInv'
  BY <1>1, NewQueueJobIInv
<1>2. ASSUME NEW r \in Rows, BecomeDue(r) PROVE IInv'
  BY <1>2 DEF BecomeDue, IInv, TypeOK, ExecutesLiveRow, OneUnprocessedPerPayload, RetryBudget, Busy, Job, RunAfter
<1>3. ASSUME NEW r \in Rows, OrphanEnds(r) PROVE IInv'
  BY <1>3 DEF OrphanEnds, IInv, TypeOK, ExecutesLiveRow, OneUnprocessedPerPayload, RetryBudget, Busy
<1>4. ASSUME NEW w \in Workers, NEW r \in Rows, PickJob(w, r) PROVE IInv'
  BY <1>4, PickJobIInv
<1>5. ASSUME NEW w \in Workers, NEW result \in {"succeeded", "errored"}, HandlerReturns(w, result)
      PROVE  IInv'
  BY <1>5 DEF HandlerReturns, IInv, TypeOK, ExecutesLiveRow, OneUnprocessedPerPayload, RetryBudget, Busy, Held, Idle
<1>6. ASSUME NEW w \in Workers, ExecTimeout(w) PROVE IInv'
  BY <1>6 DEF ExecTimeout, IInv, TypeOK, ExecutesLiveRow, OneUnprocessedPerPayload, RetryBudget, Busy, Held, Idle
<1>7. ASSUME NEW w \in Workers, Settle(w) PROVE IInv'
  BY <1>7, SettleIInv
<1>8. ASSUME NEW w \in Workers, Rollback(w) PROVE IInv'
  BY <1>8 DEF Rollback, IInv, TypeOK, ExecutesLiveRow, OneUnprocessedPerPayload, RetryBudget, Busy, Idle
<1>9. CASE Crash
  BY <1>9 DEF Crash, IInv, TypeOK, ExecutesLiveRow, OneUnprocessedPerPayload, RetryBudget, Busy, Idle
<1>10. ASSUME NEW old \in SUBSET Rows, GarbageCollect(old) PROVE IInv'
  <2>1. \A r \in old : ~Locked(r)
    BY <1>10 DEF GarbageCollect, Locked, IInv, ExecutesLiveRow, Unprocessed
  <2> QED BY <1>10, <2>1, DeleteIInv DEF GarbageCollect
<1>11. ASSUME NEW statuses, PurgeJobs(statuses) PROVE IInv'
  BY ZenonT(60), <1>11, DeleteIInv DEF PurgeJobs
<1>12. CASE UNCHANGED vars
  BY <1>12 DEF vars, IInv, TypeOK, ExecutesLiveRow, OneUnprocessedPerPayload, RetryBudget, Busy
<1>13. ASSUME NEW r \in Rows, DeadlinePasses(r) PROVE IInv'
  BY <1>13 DEF DeadlinePasses, IInv, TypeOK, ExecutesLiveRow, OneUnprocessedPerPayload, RetryBudget, Busy, Job, Deadline
<1> QED
  BY <1>1, <1>2, <1>3, <1>4, <1>5, <1>6, <1>7, <1>8, <1>9, <1>10, <1>11, <1>12, <1>13 DEF Next, Work

\* The safety properties of the queue hold in every reachable state: a purge or
\* the collector never removes a job under the worker that runs it, settling
\* never meets a second unprocessed row for its payload, and a job is given up
\* exactly when its retries are used up.
THEOREM QueueServerSafe ==
    Spec => [](TypeOK /\ ExecutesLiveRow /\ OneUnprocessedPerPayload /\ RetryBudget)
<1>1. Spec => []IInv
  BY InitIInv, NextIInv, PTL DEF Spec
<1> QED BY <1>1, PTL DEF IInv
=============================================================================
