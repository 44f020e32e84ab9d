-------------------------- MODULE ProcessorsProofs --------------------------
(***************************************************************************)
(* Lease fencing, proved for any number of torrents, services, workers,    *)
(* attempts, requests and disturbances.                                    *)
(***************************************************************************)
EXTENDS Processors, TLAPS

\* What a worker has in hand; its job is in the table (Prunable keeps it there).
LeaseOn(js) == [pc : {"claimed", "prepared", "abandoning", "failing", "dispatched"},
                job : js, generation : Nat, step : Nat, step_attempts : Nat,
                results : Seq(Finals), input : Hints \cup {None}]

\* The rows that leases are made of have their types.
LeaseTypeOK ==
    /\ jobs \in [DOMAIN jobs -> Job]
    /\ workers \in [Workers -> {Idle} \cup LeaseOn(DOMAIN jobs)]
    /\ DOMAIN attempts \subseteq [job : DOMAIN jobs, generation : Nat]
    /\ attempts \in [DOMAIN attempts -> Finals \cup {"open", "unknown"}]

\* No lease and no attempt is ahead of the generation of its job, and two workers
\* never work under the same generation.
Fenced ==
    /\ \A w \in Workers : Busy(w) => workers[w].generation <= jobs[workers[w].job].generation
    /\ \A v, w \in Workers :
          Busy(v) /\ Busy(w) /\ workers[v].job = workers[w].job
             /\ workers[v].generation = workers[w].generation => v = w
    /\ \A a \in DOMAIN attempts : a.generation <= jobs[a.job].generation

\* A worker that has not called its service has no attempt under its generation.
NotYetAttempted ==
    \A w \in Workers : Busy(w) /\ workers[w].pc # "dispatched" =>
        [job |-> workers[w].job, generation |-> workers[w].generation] \notin DOMAIN attempts

LeaseInv == LeaseTypeOK /\ Fenced /\ NotYetAttempted /\ OpenAttemptIsLive

-----------------------------------------------------------------------------
\* The outcomes that Finish may record; none of them is the open attempt's.
LEMMA OutcomeTypes ==
    /\ Finals \subseteq {"completed", "excluded", "abstained", "failed", "deferred"}
    /\ "failed" \in Finals
    /\ "open" \notin Finals
BY ProcessorAssumption DEF ProcessorAssumption, Finals

\* No job, no attempt and no lease exist before the first service is registered.
LEMMA LeaseInit == Init => LeaseInv
<1> SUFFICES ASSUME Init PROVE LeaseInv
  OBVIOUS
<1>1. DOMAIN jobs = {} /\ DOMAIN attempts = {} /\ workers = [w \in Workers |-> Idle]
  BY DEF Init
<1>2. jobs \in [DOMAIN jobs -> Job]
  BY DEF Init
<1>3. attempts \in [DOMAIN attempts -> Finals \cup {"open", "unknown"}]
  BY DEF Init
<1>4. LeaseTypeOK
  BY <1>1, <1>2, <1>3 DEF LeaseTypeOK
<1>5. \A w \in Workers : ~Busy(w)
  BY <1>1 DEF Busy, Idle
<1> QED
  BY <1>1, <1>4, <1>5 DEF LeaseInv, Fenced, NotYetAttempted, OpenAttemptIsLive

\* What follows at once from the types: a busy worker has a row, and an attempt too.
LEMMA LeaseRows ==
    ASSUME LeaseTypeOK
    PROVE  /\ \A w \in Workers : Busy(w) => /\ workers[w] \in LeaseOn(DOMAIN jobs)
                                           /\ workers[w].job \in DOMAIN jobs
                                           /\ workers[w].generation \in Nat
           /\ \A w \in Workers : ~Busy(w) => workers[w] = Idle
           /\ \A a \in DOMAIN attempts : a.job \in DOMAIN jobs /\ a.generation \in Nat
           /\ \A j \in DOMAIN jobs : jobs[j] \in Job /\ jobs[j].generation \in Nat
<1>1. \A w \in Workers : workers[w] \in {Idle} \cup LeaseOn(DOMAIN jobs)
  BY DEF LeaseTypeOK
<1>2. \A w \in Workers : Busy(w) => workers[w] \in LeaseOn(DOMAIN jobs)
  BY <1>1 DEF Busy, Idle
<1>3. \A w \in Workers : ~Busy(w) => workers[w] = Idle
  BY <1>1 DEF Busy, Idle, LeaseOn
<1>4. \A j \in DOMAIN jobs : jobs[j] \in Job /\ jobs[j].generation \in Nat
  BY DEF LeaseTypeOK, Job
<1>5. \A a \in DOMAIN attempts : a.job \in DOMAIN jobs /\ a.generation \in Nat
  BY DEF LeaseTypeOK
<1> QED
  BY <1>2, <1>3, <1>4, <1>5 DEF LeaseOn

\* Workers that stop, and active jobs that lose their lease or end together with
\* their open attempts.
LEMMA MovePreserves ==
    ASSUME LeaseInv,
           NEW js \in SUBSET ActiveJobs,
           NEW state \in Active \cup Terminal, NEW outcome \in {"unknown", "failed"},
           NEW W \in SUBSET Workers,
           jobs' = Moved(js, state), attempts' = Closed(js, outcome),
           workers' = [w \in Workers |-> IF w \in W THEN Idle ELSE workers[w]]
    PROVE  LeaseInv'
<1>1. DOMAIN jobs' = DOMAIN jobs /\ DOMAIN attempts' = DOMAIN attempts
  BY DEF Moved, Closed
<1>2. \A j \in DOMAIN jobs : /\ jobs'[j] \in Job
                             /\ jobs'[j].generation = jobs[j].generation
                             /\ j \notin js => jobs'[j] = jobs[j]
  BY ZenonT(60) DEF LeaseInv, LeaseTypeOK, Job, Moved
<1>3. jobs' \in [DOMAIN jobs' -> Job]
  BY <1>1, <1>2 DEF Moved
<1>4. attempts' \in [DOMAIN attempts' -> Finals \cup {"open", "unknown"}]
  BY <1>1, OutcomeTypes DEF LeaseInv, LeaseTypeOK, Closed
<1>5. LeaseTypeOK'
  BY <1>1, <1>3, <1>4 DEF LeaseInv, LeaseTypeOK
<1>6. \A w \in Workers : Busy(w)' => Busy(w) /\ workers'[w] = workers[w]
  BY DEF Busy, Idle
<1>7. Fenced'
  BY <1>1, <1>2, <1>6, LeaseRows DEF LeaseInv, Fenced
<1>8. NotYetAttempted'
  BY <1>1, <1>6 DEF LeaseInv, NotYetAttempted
<1>9. OpenAttemptIsLive'
  BY <1>1, <1>2, LeaseRows DEF LeaseInv, OpenAttemptIsLive, Closed
<1> QED
  BY <1>5, <1>7, <1>8, <1>9 DEF LeaseInv

\* Moving jobs as expiry, cancellation and invalidation do, while the workers go on.
LEMMA MoveJobsPreserves ==
    ASSUME LeaseInv,
           NEW js \in SUBSET ActiveJobs,
           NEW state \in Active \cup Terminal, NEW outcome \in {"unknown", "failed"},
           jobs' = Moved(js, state), attempts' = Closed(js, outcome),
           UNCHANGED workers
    PROVE  LeaseInv'
<1>1. workers' = [v \in Workers |-> IF v \in {} THEN Idle ELSE workers[v]]
  BY DEF LeaseInv, LeaseTypeOK
<1>2. {} \in SUBSET Workers
  OBVIOUS
<1> QED
  BY ZenonT(60), <1>1, <1>2, MovePreserves

\* A worker that stops (crash, lost answer) or a step that touches no lease.
LEMMA StopPreserves ==
    ASSUME LeaseInv, UNCHANGED <<jobs, attempts>>, NEW w \in Workers,
           workers' = workers \/ workers' = [workers EXCEPT ![w] = Idle]
    PROVE  LeaseInv'
<1>1. jobs' = Moved({}, "stale") /\ attempts' = Closed({}, "unknown")
  BY DEF LeaseInv, LeaseTypeOK, Moved, Closed
<1>2. \/ workers' = [v \in Workers |-> IF v \in {} THEN Idle ELSE workers[v]]
      \/ workers' = [v \in Workers |-> IF v \in {w} THEN Idle ELSE workers[v]]
  BY DEF LeaseInv, LeaseTypeOK
<1>3. {} \in SUBSET ActiveJobs /\ {} \in SUBSET Workers /\ {w} \in SUBSET Workers
  OBVIOUS
<1> QED
  BY ZenonT(60), <1>1, <1>2, <1>3, MovePreserves DEF Terminal

\* The lease of an available job under a new generation.
LEMMA ClaimPreserves ==
    ASSUME LeaseInv, NEW w \in Workers, NEW expired, NEW j, ClaimJob(w, expired, j)
    PROVE  LeaseInv'
<1> DEFINE js == Moved(expired, "queued")
<1>1. /\ ~Busy(w) /\ expired \subseteq LeasedJobs
      /\ attempts' = Closed(expired, "failed")
      /\ j \in DOMAIN jobs /\ js[j].state \in {"queued", "deferred"}
      /\ jobs' = [js EXCEPT ![j].state = "leased", ![j].generation = jobs[j].generation + 1]
  BY DEF ClaimJob, ClaimExpires, Requeued, Leasable, NextGeneration, Moved
<1>2. DOMAIN jobs' = DOMAIN jobs /\ DOMAIN attempts' = DOMAIN attempts
  BY <1>1 DEF Moved, Closed
<1>3. \A i \in DOMAIN jobs : js[i] \in Job /\ js[i].generation = jobs[i].generation
                             /\ (i \notin expired => js[i] = jobs[i])
  BY ZenonT(60) DEF LeaseInv, LeaseTypeOK, Job, Moved, Active
<1>4. /\ jobs'[j] \in Job /\ jobs'[j].generation = jobs[j].generation + 1
      /\ \A i \in DOMAIN jobs \ {j} : jobs'[i] = js[i]
  <2>1. js[j] \in Job /\ jobs[j].generation + 1 \in Nat
    BY <1>1, <1>3, LeaseRows DEF LeaseInv
  <2>2. jobs'[j] = [js[j] EXCEPT !.state = "leased", !.generation = jobs[j].generation + 1]
    BY <1>1 DEF Moved
  <2>3. \A i \in DOMAIN jobs \ {j} : jobs'[i] = js[i]
    BY ZenonT(60), <1>1 DEF Moved
  <2> QED
    BY ZenonT(60), <2>1, <2>2, <2>3 DEF Job, Active
<1>5. \A i \in DOMAIN jobs : /\ jobs'[i] \in Job /\ jobs'[i].generation \in Nat
                             /\ jobs[i].generation <= jobs'[i].generation
  <2> SUFFICES ASSUME NEW i \in DOMAIN jobs
               PROVE  /\ jobs'[i] \in Job /\ jobs'[i].generation \in Nat
                      /\ jobs[i].generation <= jobs'[i].generation
    OBVIOUS
  <2>1. jobs[i].generation \in Nat
    BY LeaseRows DEF LeaseInv
  <2>2. jobs'[i] \in Job /\ jobs'[i].generation \in {jobs[i].generation, jobs[i].generation + 1}
    BY <1>3, <1>4
  <2> QED
    BY <2>1, <2>2
<1>6. jobs' \in [DOMAIN jobs' -> Job]
  BY ZenonT(60), <1>1, <1>2, <1>5 DEF Moved
<1>7. attempts' \in [DOMAIN attempts' -> Finals \cup {"open", "unknown"}]
  BY <1>1, <1>2, OutcomeTypes DEF LeaseInv, LeaseTypeOK, Closed
<1>8. /\ workers'[w] \in LeaseOn(DOMAIN jobs)
      /\ workers'[w].job = j /\ workers'[w].generation = jobs[j].generation + 1
      /\ workers'[w].pc = "claimed"
      /\ workers' \in [Workers -> {Idle} \cup LeaseOn(DOMAIN jobs)]
      /\ \A v \in Workers \ {w} : workers'[v] = workers[v]
  <2> DEFINE l == [pc |-> "claimed", job |-> j, generation |-> jobs[j].generation + 1,
                   step |-> jobs[j].step, step_attempts |-> jobs[j].step_attempts,
                   results |-> jobs[j].results, input |-> None]
  <2>1. workers' = [workers EXCEPT ![w] = l]
    BY DEF ClaimJob, NextGeneration
  <2>2. l \in LeaseOn(DOMAIN jobs)
    BY <1>1, LeaseRows DEF LeaseInv, LeaseOn, Job
  <2> QED
    BY <2>1, <2>2 DEF LeaseInv, LeaseTypeOK
<1>9. LeaseTypeOK'
  BY <1>2, <1>6, <1>7, <1>8 DEF LeaseInv, LeaseTypeOK
<1>10. \A v \in Workers \ {w} : Busy(v)' => Busy(v) /\ workers'[v] = workers[v]
  BY <1>8 DEF Busy
<1>11. Fenced'
  <2>1. \A v \in Workers : Busy(v)' => workers'[v].generation <= jobs'[workers'[v].job].generation
    <3>1. jobs[j].generation + 1 <= jobs'[j].generation
      BY <1>1, <1>4, LeaseRows DEF LeaseInv
    <3>2. ASSUME NEW v \in Workers \ {w}, Busy(v)'
          PROVE  workers'[v].generation <= jobs'[workers'[v].job].generation
      <4>1. Busy(v) /\ workers'[v] = workers[v]
        BY <3>2, <1>10
      <4>2. /\ workers[v].job \in DOMAIN jobs /\ workers[v].generation \in Nat
            /\ workers[v].generation <= jobs[workers[v].job].generation
            /\ jobs[workers[v].job].generation \in Nat
        BY <4>1, LeaseRows DEF LeaseInv, Fenced
      <4> QED
        BY <4>1, <4>2, <1>5
    <3> QED
      BY <3>1, <3>2, <1>8
  <2>2. \A v \in Workers \ {w} : Busy(v)' /\ workers'[v].job = j =>
            workers'[v].generation # jobs[j].generation + 1
    BY <1>10, LeaseRows DEF LeaseInv, Fenced
  <2>3. \A a \in DOMAIN attempts' : a.generation <= jobs'[a.job].generation
    BY <1>2, <1>5, LeaseRows DEF LeaseInv, Fenced
  <2> QED
    BY <2>1, <2>2, <2>3, <1>8, <1>10 DEF LeaseInv, Fenced
<1>12. NotYetAttempted'
  <2>1. [job |-> j, generation |-> jobs[j].generation + 1] \notin DOMAIN attempts
    BY <1>1, LeaseRows DEF LeaseInv, Fenced
  <2> QED
    BY <2>1, <1>2, <1>8, <1>10 DEF LeaseInv, NotYetAttempted
<1>13. OpenAttemptIsLive'
  <2> SUFFICES ASSUME NEW a \in DOMAIN attempts, attempts'[a] = "open"
               PROVE  jobs'[a.job].state = "leased" /\ jobs'[a.job].generation = a.generation
    BY <1>2 DEF OpenAttemptIsLive
  <2>1. attempts[a] = "open" /\ ~(a.job \in expired /\ a.generation = jobs[a.job].generation)
    BY <1>1 DEF Closed
  <2>2. a.job \in DOMAIN jobs /\ jobs[a.job].state = "leased" /\ jobs[a.job].generation = a.generation
    BY <2>1, LeaseRows DEF LeaseInv, OpenAttemptIsLive
  <2>3. a.job \notin expired
    BY <2>1, <2>2
  <2>4. a.job # j
    BY <2>2, <2>3, <1>1, <1>3
  <2> QED
    BY <2>2, <2>3, <2>4, <1>3, <1>4
<1> QED
  BY <1>9, <1>11, <1>12, <1>13 DEF LeaseInv

\* A worker gives its lease up for abandon or failPreparation.
LEMMA GiveUpPreserves ==
    ASSUME LeaseInv, NEW w \in Workers, workers[w].pc = "claimed",
           NEW pc \in {"abandoning", "failing"}, WorkerMoves(w, pc, None),
           UNCHANGED <<jobs, attempts>>
    PROVE  LeaseInv'
<1>1. workers[w] \in LeaseOn(DOMAIN jobs) /\ Busy(w)
  BY LeaseRows DEF LeaseInv, Busy
<1>2. /\ workers' = [workers EXCEPT ![w] = [workers[w] EXCEPT !.pc = pc, !.input = None]]
      /\ [workers[w] EXCEPT !.pc = pc, !.input = None] \in LeaseOn(DOMAIN jobs)
  BY ZenonT(60), <1>1 DEF WorkerMoves, LeaseOn, LeaseInv, LeaseTypeOK
<1>3. LeaseTypeOK'
  BY <1>2 DEF LeaseInv, LeaseTypeOK
<1>4. \A v \in Workers : /\ Busy(v)' <=> Busy(v)
                         /\ Busy(v) => /\ workers'[v].job = workers[v].job
                                       /\ workers'[v].generation = workers[v].generation
                                       /\ workers'[v].pc = workers[v].pc \/ v = w
  BY <1>1, <1>2 DEF Busy, LeaseOn, LeaseInv, LeaseTypeOK
<1>5. Fenced'
  BY <1>4 DEF LeaseInv, Fenced
<1>6. NotYetAttempted'
  BY <1>1, <1>4 DEF LeaseInv, NotYetAttempted
<1> QED
  BY <1>3, <1>5, <1>6 DEF LeaseInv, OpenAttemptIsLive

\* What the holder of a lease may do: change the row but not its generation, keep
\* or drop the lease, and open or close the one attempt under its generation.
LEMMA HolderPreserves ==
    ASSUME LeaseInv, NEW w \in Workers, Holds(w),
           NEW row \in Job, row.generation = jobs[workers[w].job].generation,
           jobs' = [jobs EXCEPT ![workers[w].job] = row],
           NEW l \in {Idle} \cup LeaseOn(DOMAIN jobs),
           l.pc # "idle" => l.job = workers[w].job /\ l.generation = workers[w].generation,
           workers' = [workers EXCEPT ![w] = l],
           NEW a, a = [job |-> workers[w].job, generation |-> workers[w].generation],
           attempts' \in [DOMAIN attempts' -> Finals \cup {"open", "unknown"}],
           DOMAIN attempts' \subseteq DOMAIN attempts \cup {a},
           \A x \in DOMAIN attempts' \ {a} : attempts'[x] = attempts[x],
           a \in DOMAIN attempts' => l.pc \in {"idle", "dispatched"},
           (a \in DOMAIN attempts' /\ attempts'[a] = "open") => row.state = "leased"
    PROVE  LeaseInv'
<1> DEFINE j == workers[w].job
<1>1. /\ j \in DOMAIN jobs /\ Busy(w) /\ jobs[j].generation = workers[w].generation
      /\ workers[w].generation \in Nat
  BY LeaseRows DEF LeaseInv, Holds
<1>2. /\ DOMAIN jobs' = DOMAIN jobs /\ jobs'[j] = row
      /\ \A i \in DOMAIN jobs \ {j} : jobs'[i] = jobs[i]
      /\ jobs' \in [DOMAIN jobs' -> Job]
  BY <1>1 DEF LeaseInv, LeaseTypeOK
<1>3. \A i \in DOMAIN jobs : jobs'[i].generation = jobs[i].generation
  BY <1>2
<1>4. DOMAIN attempts' \subseteq [job : DOMAIN jobs, generation : Nat]
  BY <1>1 DEF LeaseInv, LeaseTypeOK
<1>5. /\ workers' \in [Workers -> {Idle} \cup LeaseOn(DOMAIN jobs)]
      /\ workers'[w] = l
      /\ \A v \in Workers \ {w} : workers'[v] = workers[v]
  BY DEF LeaseInv, LeaseTypeOK
<1>6. LeaseTypeOK'
  BY <1>2, <1>4, <1>5 DEF LeaseTypeOK
<1>7. \A v \in Workers : Busy(v)' => /\ Busy(v)
                                    /\ workers'[v].job = workers[v].job
                                    /\ workers'[v].generation = workers[v].generation
  BY <1>1, <1>5 DEF Busy
<1>8. Fenced'
  <2>1. \A v \in Workers : Busy(v)' => workers'[v].generation <= jobs'[workers'[v].job].generation
    BY <1>3, <1>7, LeaseRows DEF LeaseInv, Fenced
  <2>2. \A x \in DOMAIN attempts' : x.generation <= jobs'[x.job].generation
    <3> SUFFICES ASSUME NEW x \in DOMAIN attempts' PROVE x.generation <= jobs'[x.job].generation
      OBVIOUS
    <3>1. CASE x = a
      BY <3>1, <1>1, <1>3
    <3>2. CASE x \in DOMAIN attempts
      BY <3>2, <1>3, LeaseRows DEF LeaseInv, Fenced
    <3> QED
      BY <3>1, <3>2
  <2> QED
    BY <2>1, <2>2, <1>7 DEF LeaseInv, Fenced
<1>9. NotYetAttempted'
  <2> SUFFICES ASSUME NEW v \in Workers, Busy(v)', workers'[v].pc # "dispatched"
               PROVE  [job |-> workers'[v].job, generation |-> workers'[v].generation] \notin DOMAIN attempts'
    BY DEF NotYetAttempted
  <2>1. CASE v = w
    BY <2>1, <1>5, <1>7 DEF Busy
  <2>2. CASE v # w
    <3>1. Busy(v) /\ workers'[v] = workers[v]
      BY <2>2, <1>5, <1>7
    <3>2. [job |-> workers[v].job, generation |-> workers[v].generation] # a
      BY <3>1, <2>2, <1>1 DEF LeaseInv, Fenced
    <3>3. [job |-> workers[v].job, generation |-> workers[v].generation] \notin DOMAIN attempts
      BY <3>1 DEF LeaseInv, NotYetAttempted
    <3> QED
      BY <3>1, <3>2, <3>3
  <2> QED
    BY <2>1, <2>2
<1>10. OpenAttemptIsLive'
  <2> SUFFICES ASSUME NEW x \in DOMAIN attempts', attempts'[x] = "open"
               PROVE  jobs'[x.job].state = "leased" /\ jobs'[x.job].generation = x.generation
    BY DEF OpenAttemptIsLive
  <2>1. CASE x = a
    BY <2>1, <1>1, <1>2
  <2>2. CASE x # a
    <3>1. x \in DOMAIN attempts /\ attempts[x] = "open"
      BY <2>2
    <3>2. x.job \in DOMAIN jobs /\ jobs[x.job].state = "leased" /\ jobs[x.job].generation = x.generation
      BY <3>1, LeaseRows DEF LeaseInv, OpenAttemptIsLive
    <3>3. x \in [job : DOMAIN jobs, generation : Nat]
      BY <3>1 DEF LeaseInv, LeaseTypeOK
    <3>4. x.job # j
      BY <3>2, <3>3, <2>2, <1>1
    <3> QED
      BY <3>2, <3>4, <1>2
  <2> QED
    BY <2>1, <2>2
<1> QED
  BY <1>6, <1>8, <1>9, <1>10 DEF LeaseInv

\* Pruning and admission.
LEMMA ScanPreserves ==
    ASSUME LeaseInv, NEW doomed \in SUBSET Prunable, NEW kept, kept = DOMAIN jobs \ doomed,
           NEW new, new \cap kept = {},
           jobs' = [j \in kept \cup new |-> IF j \in new THEN NewJob ELSE jobs[j]],
           attempts' = Cascaded(kept), UNCHANGED workers
    PROVE  LeaseInv'
<1>1. NewJob \in Job /\ NewJob.generation = 0
  BY DEF NewJob, Job, Active
<1>2. /\ DOMAIN jobs' = kept \cup new
      /\ \A j \in kept : j \in DOMAIN jobs /\ jobs'[j] = jobs[j]
      /\ \A j \in new : jobs'[j] = NewJob
  OBVIOUS
<1>3. jobs' \in [DOMAIN jobs' -> Job]
  BY <1>1, <1>2 DEF LeaseInv, LeaseTypeOK
<1>4. /\ DOMAIN attempts' = {a \in DOMAIN attempts : a.job \in kept}
      /\ \A a \in DOMAIN attempts' : attempts'[a] = attempts[a]
      /\ attempts' = [a \in DOMAIN attempts' |-> attempts[a]]
  BY DEF Cascaded
<1>5. /\ attempts' \in [DOMAIN attempts' -> Finals \cup {"open", "unknown"}]
      /\ DOMAIN attempts' \subseteq [job : DOMAIN jobs', generation : Nat]
  BY ZenonT(60), <1>2, <1>4 DEF LeaseInv, LeaseTypeOK
<1>6. \A w \in Workers : Busy(w) => workers[w].job \in kept
  BY LeaseRows DEF LeaseInv, Prunable
<1>7. \A w \in Workers : workers[w] \in {Idle} \cup LeaseOn(DOMAIN jobs')
  BY <1>2, <1>6, LeaseRows DEF LeaseInv, LeaseOn
<1>8. LeaseTypeOK'
  BY ZenonT(60), <1>3, <1>5, <1>7 DEF LeaseInv, LeaseTypeOK
<1>9. Fenced'
  BY ZenonT(60), <1>2, <1>4, <1>6 DEF LeaseInv, Fenced, Busy
<1>10. NotYetAttempted'
  BY <1>4 DEF LeaseInv, NotYetAttempted, Busy
<1>11. OpenAttemptIsLive'
  BY ZenonT(60), <1>2, <1>4 DEF LeaseInv, OpenAttemptIsLive
<1> QED
  BY <1>8, <1>9, <1>10, <1>11 DEF LeaseInv

-----------------------------------------------------------------------------
\* Register, Control, Remove, SetAdmission, Cancel, Reprocess, CancelReprocessing.
LEMMA OperatorPreserves == LeaseInv /\ Operator => LeaseInv'
<1> SUFFICES ASSUME LeaseInv, Operator PROVE LeaseInv'
  OBVIOUS
<1>1. ASSUME invalidateFor, UNCHANGED workers PROVE LeaseInv'
  <2>1. jobs' = Moved(ActiveJobs, "stale") /\ attempts' = Closed(ActiveJobs, "unknown")
    BY <1>1 DEF invalidateFor
  <2>2. ActiveJobs \in SUBSET ActiveJobs /\ "stale" \in Active \cup Terminal
    BY DEF Terminal
  <2> QED
    BY <2>1, <2>2, <1>1, MoveJobsPreserves
<1>2. ASSUME NEW js \in SUBSET ActiveJobs, jobs' = Moved(js, "canceled"),
             attempts' = Closed(js, "unknown"), UNCHANGED workers
      PROVE  LeaseInv'
  <2>1. "canceled" \in Active \cup Terminal
    BY DEF Terminal
  <2> QED
    BY <2>1, <1>2, MoveJobsPreserves
<1>3. ASSUME UNCHANGED <<jobs, attempts, workers>> PROVE LeaseInv'
  BY <1>3 DEF LeaseInv, LeaseTypeOK, Fenced, NotYetAttempted, OpenAttemptIsLive, Busy
<1>4. ASSUME NEW p, NEW mode, NEW state, NEW learning, Register(p, mode, state, learning)
      PROVE  LeaseInv'
  BY <1>4, <1>1 DEF Register, OperatorLeaves
<1>5. ASSUME NEW p, NEW mode, NEW state, NEW learning, NEW reselects,
             Control(p, state, mode, learning, reselects)
      PROVE  LeaseInv'
  BY <1>5, <1>1, <1>3 DEF Control, OperatorLeaves
<1>6. ASSUME NEW p, Remove(p) PROVE LeaseInv'
  BY <1>6, <1>1 DEF Remove, OperatorLeaves
<1>7. ASSUME NEW cohort, SetAdmission(cohort) PROVE LeaseInv'
  BY ZenonT(60), <1>7, <1>1 DEF SetAdmission, OperatorLeaves
<1>8. ASSUME NEW j, Cancel(j) PROVE LeaseInv'
  BY <1>8, <1>2 DEF Cancel, OperatorLeaves
<1>9. ASSUME NEW j, Reprocess(j) PROVE LeaseInv'
  BY <1>9, <1>3 DEF Reprocess
<1>10. ASSUME NEW r, CancelReprocessing(r) PROVE LeaseInv'
  BY <1>10, <1>2 DEF CancelReprocessing, CanceledJobs
<1> QED
  BY <1>4, <1>5, <1>6, <1>7, <1>8, <1>9, <1>10 DEF Operator

\* The core changes the catalogue and the requests, never a lease.
LEMMA CorePreserves == LeaseInv /\ (Core \/ UNCHANGED vars) => LeaseInv'
<1> SUFFICES ASSUME LeaseInv, Core \/ UNCHANGED vars PROVE LeaseInv'
  OBVIOUS
<1>1. UNCHANGED <<jobs, attempts, workers>>
  BY ZenonT(60) DEF Core, CoreReads, CoreRetries, RecordCore, CoreEnds, CoreChanges, vars
<1> QED
  BY <1>1 DEF LeaseInv, LeaseTypeOK, Fenced, NotYetAttempted, OpenAttemptIsLive, Busy

\* Scan: pruned jobs take their attempts along and new jobs start at generation 0.
LEMMA ScannerPreserves == LeaseInv /\ Scanner => LeaseInv'
<1> SUFFICES ASSUME LeaseInv, NEW expired, NEW doomed \in SUBSET Prunable, Scan(expired, doomed)
             PROVE  LeaseInv'
  BY DEF Scanner
<1> DEFINE kept == DOMAIN jobs \ doomed
           reqs == settleReprocessing(expired)
           new == {JobOf(reqs, t) : t \in {u \in Admission(reqs, kept).read : Inserts(reqs, kept, u)}}
<1>1. UNCHANGED workers
  BY ZenonT(60) DEF Scan
<1>2. CASE UNCHANGED <<jobs, attempts>>
  BY <1>1, <1>2 DEF LeaseInv, LeaseTypeOK, Fenced, NotYetAttempted, OpenAttemptIsLive, Busy
<1>3. CASE /\ jobs' = [j \in kept \cup new |-> IF j \in new THEN NewJob ELSE jobs[j]]
           /\ attempts' = Cascaded(kept)
  <2>1. new \cap kept = {}
    BY DEF Inserts
  <2> QED
    BY ZenonT(60), <1>1, <1>3, <2>1, ScanPreserves
<1>4. \/ UNCHANGED <<jobs, attempts>>
      \/ /\ jobs' = [j \in kept \cup new |-> IF j \in new THEN NewJob ELSE jobs[j]]
         /\ attempts' = Cascaded(kept)
  BY ZenonT(60) DEF Scan
<1> QED
  BY <1>2, <1>3, <1>4

\* Prepare freezes the request of a step under the lease.
LEMMA PreparePreserves ==
    ASSUME LeaseInv, NEW w \in Workers, Prepare(w)
    PROVE  LeaseInv'
<1> DEFINE j == workers[w].job
<1>1. Holds(w) /\ workers[w].pc = "claimed" /\ UNCHANGED attempts
  BY DEF Prepare
<1>2. j \in DOMAIN jobs /\ jobs[j] \in Job /\ workers[w] \in LeaseOn(DOMAIN jobs) /\ Busy(w)
  BY <1>1, LeaseRows DEF LeaseInv, Holds
<1>3. PICK input \in PreparedInputs(j) :
         jobs' = [jobs EXCEPT ![j].prepared = input] /\ WorkerMoves(w, "prepared", input)
  BY ZenonT(60) DEF Prepare
<1>4. input \in Hints \cup {None}
  BY <1>2 DEF PreparedInputs, Job
<1> DEFINE row == [jobs[j] EXCEPT !.prepared = input]
           l == [workers[w] EXCEPT !.pc = "prepared", !.input = input]
           a == [job |-> j, generation |-> workers[w].generation]
<1>5. row \in Job /\ row.generation = jobs[j].generation /\ jobs' = [jobs EXCEPT ![j] = row]
  BY <1>2, <1>3, <1>4 DEF Job
<1>6. /\ l \in LeaseOn(DOMAIN jobs) /\ l.job = j /\ l.generation = workers[w].generation
      /\ workers' = [workers EXCEPT ![w] = l]
  BY ZenonT(60), <1>2, <1>3, <1>4 DEF WorkerMoves, LeaseOn, LeaseInv, LeaseTypeOK
<1>7. a \notin DOMAIN attempts' /\ attempts' \in [DOMAIN attempts' -> Finals \cup {"open", "unknown"}]
  BY <1>1, <1>2 DEF LeaseInv, NotYetAttempted, LeaseTypeOK
<1> HIDE DEF j, row, l, a
<1> QED
  BY ZenonT(60), <1>1, <1>5, <1>6, <1>7, HolderPreserves DEF j, a

\* abandon ends the job, and closes its attempt, only under the lease.
LEMMA AbandonPreserves ==
    ASSUME LeaseInv, NEW w \in Workers, Abandon(w)
    PROVE  LeaseInv'
<1> DEFINE js == IF Holds(w) THEN {workers[w].job} ELSE {}
<1>1. jobs' = Moved(js, "stale") /\ attempts' = Closed(js, "unknown")
  BY DEF Abandon
<1>2. workers' = [v \in Workers |-> IF v \in {w} THEN Idle ELSE workers[v]]
  BY ZenonT(60) DEF Abandon, WorkerEnds, LeaseInv, LeaseTypeOK
<1>3. js \in SUBSET ActiveJobs
  BY DEF Holds, ActiveJobs, Active
<1>4. {w} \in SUBSET Workers /\ "stale" \in Active \cup Terminal
  BY DEF Terminal
<1> QED
  BY ZenonT(60), <1>1, <1>2, <1>3, <1>4, MovePreserves

\* failPreparation defers or fails the job, which has no open attempt then.
LEMMA FailPreparationPreserves ==
    ASSUME LeaseInv, NEW w \in Workers, FailPreparation(w)
    PROVE  LeaseInv'
<1> DEFINE j == workers[w].job
           state == IF jobs[j].preparation_failures + 1 >= MaxAttempts THEN "failed" ELSE "deferred"
           row == [jobs[j] EXCEPT !.preparation_failures = @ + 1, !.state = state]
           a == [job |-> j, generation |-> workers[w].generation]
<1>1. workers[w].pc = "failing" /\ UNCHANGED attempts /\ workers' = [workers EXCEPT ![w] = Idle]
  BY DEF FailPreparation, WorkerEnds
<1>2. CASE UNCHANGED jobs
  BY ZenonT(60), <1>1, <1>2, StopPreserves
<1>3. CASE Holds(w) /\ jobs' = [jobs EXCEPT ![j] = row]
  <2>1. jobs[j] \in Job /\ Busy(w)
    BY <1>3, LeaseRows DEF LeaseInv, Holds
  <2>2. state \in Active \cup Terminal
    BY DEF Active, Terminal
  <2>3. row \in Job /\ row.generation = jobs[j].generation
    <3>1. jobs[j].preparation_failures + 1 \in Nat
      BY <2>1 DEF Job
    <3> HIDE DEF state
    <3> QED
      BY ZenonT(60), <2>1, <2>2, <3>1 DEF Job
  <2>4. a \notin DOMAIN attempts' /\ attempts' \in [DOMAIN attempts' -> Finals \cup {"open", "unknown"}]
    BY <1>1, <2>1 DEF LeaseInv, NotYetAttempted, LeaseTypeOK
  <2>5. Idle \in {Idle} \cup LeaseOn(DOMAIN jobs) /\ Idle.pc = "idle"
    BY DEF Idle
  <2> HIDE DEF j, row, a
  <2> QED
    BY ZenonT(60), <1>1, <1>3, <2>3, <2>4, <2>5, HolderPreserves DEF j, a
<1>4. UNCHANGED jobs \/ (Holds(w) /\ jobs' = [jobs EXCEPT ![j] = row])
  BY ZenonT(60) DEF FailPreparation
<1> QED
  BY <1>2, <1>3, <1>4

\* startAttempt opens the attempt of the current generation, under the lease.
LEMMA StartAttemptPreserves ==
    ASSUME LeaseInv, NEW w \in Workers, StartAttempt(w)
    PROVE  LeaseInv'
<1> DEFINE j == workers[w].job
           row == [jobs[j] EXCEPT !.step_attempts = @ + 1]
           a == [job |-> j, generation |-> workers[w].generation]
           l == [workers[w] EXCEPT !.pc = "dispatched", !.input = workers[w].input]
<1>1. CASE UNCHANGED <<jobs, attempts>> /\ workers' = [workers EXCEPT ![w] = Idle]
  BY ZenonT(60), <1>1, StopPreserves
<1>2. CASE /\ Holds(w)
           /\ jobs' = [jobs EXCEPT ![j].step_attempts = @ + 1]
           /\ attempts' = [x \in DOMAIN attempts \cup {a} |-> IF x = a THEN "open" ELSE attempts[x]]
           /\ WorkerMoves(w, "dispatched", workers[w].input)
  <2>1. jobs[j] \in Job /\ Busy(w) /\ workers[w] \in LeaseOn(DOMAIN jobs) /\ jobs[j].state = "leased"
    BY <1>2, LeaseRows DEF LeaseInv, Holds
  <2>2. /\ row \in Job /\ row.generation = jobs[j].generation /\ row.state = "leased"
        /\ jobs' = [jobs EXCEPT ![j] = row]
    BY <1>2, <2>1 DEF Job
  <2>3. /\ l \in LeaseOn(DOMAIN jobs) /\ l.pc = "dispatched"
        /\ l.job = j /\ l.generation = workers[w].generation
        /\ workers' = [workers EXCEPT ![w] = l]
    BY ZenonT(60), <1>2, <2>1 DEF WorkerMoves, LeaseOn, LeaseInv, LeaseTypeOK
  <2>4. /\ attempts' \in [DOMAIN attempts' -> Finals \cup {"open", "unknown"}]
        /\ DOMAIN attempts' = DOMAIN attempts \cup {a}
        /\ \A x \in DOMAIN attempts' \ {a} : attempts'[x] = attempts[x]
    BY <1>2 DEF LeaseInv, LeaseTypeOK
  <2>5. Holds(w) /\ l \in {Idle} \cup LeaseOn(DOMAIN jobs)
    BY <1>2, <2>3
  <2> HIDE DEF row, l
  <2>6. /\ row \in Job /\ row.generation = jobs[workers[w].job].generation
        /\ jobs' = [jobs EXCEPT ![workers[w].job] = row]
        /\ l.pc # "idle" => l.job = workers[w].job /\ l.generation = workers[w].generation
        /\ a \in DOMAIN attempts' => l.pc \in {"idle", "dispatched"}
        /\ (a \in DOMAIN attempts' /\ attempts'[a] = "open") => row.state = "leased"
    BY <2>2, <2>3
  <2>7. DOMAIN attempts' \subseteq DOMAIN attempts \cup {a}
    BY <2>4
  <2> HIDE DEF j, a
  <2> QED
    BY ZenonT(60), <2>3, <2>4, <2>5, <2>6, <2>7, HolderPreserves DEF j, a
<1>3. \/ UNCHANGED <<jobs, attempts>> /\ workers' = [workers EXCEPT ![w] = Idle]
      \/ /\ Holds(w)
         /\ jobs' = [jobs EXCEPT ![j].step_attempts = @ + 1]
         /\ attempts' = [x \in DOMAIN attempts \cup {a} |-> IF x = a THEN "open" ELSE attempts[x]]
         /\ WorkerMoves(w, "dispatched", workers[w].input)
  BY DEF StartAttempt, Starts, WorkerEnds
<1> QED
  BY <1>1, <1>2, <1>3

\* Finish closes the attempt of its lease in the transaction that gives the lease up.
LEMMA FinishPreserves ==
    ASSUME LeaseInv, NEW w \in Workers, NEW outcome \in Finals, NEW enriched,
           Finish(w, outcome, enriched)
    PROVE  LeaseInv'
<1> DEFINE j == workers[w].job
           a == [job |-> j, generation |-> workers[w].generation]
<1>1. Holds(w) /\ MayFinish(w, outcome) /\ workers' = [workers EXCEPT ![w] = Idle]
  BY ZenonT(60) DEF Finish, Valid, WorkerEnds
<1>2. /\ jobs[j] \in Job /\ Busy(w) /\ workers[w].results \in Seq(Finals)
      /\ jobs \in [DOMAIN jobs -> Job] /\ j \in DOMAIN jobs
  BY <1>1, LeaseRows DEF LeaseInv, Holds, LeaseOn, LeaseTypeOK
<1>3. PICK row \in Job : row.generation = jobs[j].generation /\ jobs' = [jobs EXCEPT ![j] = row]
  <2>1. CASE Retries(w, outcome)
    <3>1. jobs' = [jobs EXCEPT ![j] = [jobs[j] EXCEPT !.state = "deferred"]]
      BY <2>1 DEF Finish
    <3>2. [jobs[j] EXCEPT !.state = "deferred"] \in Job
      BY ZenonT(60), <1>2 DEF Job, Active
    <3> QED
      BY ZenonT(60), <3>1, <3>2, <1>2 DEF Job
  <2>2. CASE ~Retries(w, outcome)
    <3> DEFINE results == Append(workers[w].results, outcome)
               state == IF ~(workers[w].step + 1 = Cardinality(Steps(j.plan))) THEN "queued"
                        ELSE IF Applies(j) THEN "completed" ELSE "stale"
               row == [jobs[j] EXCEPT !.results = results, !.prepared = None, !.step = @ + 1,
                                      !.step_attempts = 0, !.state = state]
    <3>1. jobs' = [jobs EXCEPT ![j].results = results, ![j].prepared = None, ![j].step = @ + 1,
                               ![j].step_attempts = 0, ![j].state = state]
      BY ZenonT(60), <2>2 DEF Finish
    <3>2. jobs' = [jobs EXCEPT ![j] = row]
      <4> HIDE DEF results, state
      <4> QED
        BY ZenonT(60), <1>2, <3>1
    <3>3. results \in Seq(Finals) /\ state \in Active \cup Terminal
      BY <1>2 DEF Active, Terminal
    <3>4. jobs[j].step + 1 \in Nat
      BY <1>2 DEF Job
    <3>5. row \in Job /\ row.generation = jobs[j].generation
      <4> HIDE DEF results, state
      <4> QED
        BY ZenonT(60), <1>2, <3>3, <3>4 DEF Job
    <3> QED
      BY ZenonT(60), <3>2, <3>5
  <2> QED
    BY <2>1, <2>2
<1>4. workers[w].pc = "dispatched" \/ a \notin DOMAIN attempts
  BY <1>2 DEF LeaseInv, NotYetAttempted
<1>5. attempts' = IF workers[w].pc = "dispatched" THEN [attempts EXCEPT ![a] = outcome] ELSE attempts
  BY ZenonT(60) DEF Finish
<1>6. /\ attempts' \in [DOMAIN attempts' -> Finals \cup {"open", "unknown"}]
      /\ DOMAIN attempts' = DOMAIN attempts
      /\ \A x \in DOMAIN attempts' \ {a} : attempts'[x] = attempts[x]
      /\ a \in DOMAIN attempts' => attempts'[a] = outcome
  <2> HIDE DEF a
  <2> QED
    BY ZenonT(60), <1>4, <1>5 DEF LeaseInv, LeaseTypeOK
<1>7. Idle \in {Idle} \cup LeaseOn(DOMAIN jobs) /\ Idle.pc = "idle" /\ outcome # "open"
  BY OutcomeTypes DEF Idle
<1>8. row.generation = jobs[workers[w].job].generation /\ jobs' = [jobs EXCEPT ![workers[w].job] = row]
  BY <1>3
<1>9. /\ Idle.pc # "idle" => Idle.job = workers[w].job /\ Idle.generation = workers[w].generation
      /\ a \in DOMAIN attempts' => Idle.pc \in {"idle", "dispatched"}
      /\ (a \in DOMAIN attempts' /\ attempts'[a] = "open") => row.state = "leased"
      /\ DOMAIN attempts' \subseteq DOMAIN attempts \cup {a}
  BY <1>6, <1>7
<1>10. a = [job |-> workers[w].job, generation |-> workers[w].generation]
  OBVIOUS
<1> HIDE DEF j, a
<1> QED
  BY ZenonT(60), <1>1, <1>6, <1>7, <1>8, <1>9, <1>10, HolderPreserves

\* Every step of RunOne, Claim and the crash of a worker included.
LEMMA WorkerPreserves ==
    ASSUME LeaseInv, NEW w \in Workers, Worker(w)
    PROVE  LeaseInv'
<1>1. ASSUME NEW expired, ClaimNone(w, expired) PROVE LeaseInv'
  <2>1. /\ expired \subseteq LeasedJobs /\ UNCHANGED workers
        /\ jobs' = Moved(expired, "queued") /\ attempts' = Closed(expired, "failed")
    BY <1>1 DEF ClaimNone, ClaimExpires, Requeued
  <2>2. expired \in SUBSET ActiveJobs /\ "queued" \in Active \cup Terminal
    BY <2>1 DEF LeasedJobs, ActiveJobs, Active
  <2> QED
    BY <2>1, <2>2, MoveJobsPreserves
<1>2. ASSUME NEW expired, NEW j, ClaimJob(w, expired, j) PROVE LeaseInv'
  BY <1>2, ClaimPreserves
<1>3. ASSUME PrepareFails(w) \/ PrepareStale(w) PROVE LeaseInv'
  BY <1>3, GiveUpPreserves DEF PrepareFails, PrepareStale
<1>4. ASSUME Crash(w) \/ FinishStale(w) PROVE LeaseInv'
  BY <1>4, StopPreserves DEF Crash, FinishStale, WorkerEnds
<1> QED
  BY <1>1, <1>2, <1>3, <1>4, PreparePreserves, AbandonPreserves, FailPreparationPreserves,
     StartAttemptPreserves, FinishPreserves DEF Worker, Proceed

\* The invariant in every reachable state.
LEMMA LeaseInvariance == Spec => []LeaseInv
<1>1. LeaseInv /\ [Next]_vars => LeaseInv'
  BY OperatorPreserves, CorePreserves, ScannerPreserves, WorkerPreserves DEF Next
<1> QED
  BY LeaseInit, <1>1, PTL DEF Spec

\* Lease generations fence workers: whatever expires, crashes, is canceled, pruned
\* or admitted again, a lease has at most one holder (Claim, Finish, Scan).
THEOREM OneHolderAlways == Spec => []OneHolder
<1>1. LeaseInv => OneHolder
  BY DEF LeaseInv, Fenced, OneHolder, Holds
<1> QED
  BY LeaseInvariance, <1>1, PTL

\* No path of the code forgets an attempt: an attempt is unfinished only while its
\* job is leased under the attempt's generation (processor_attempts.finished_at).
THEOREM OpenAttemptIsLiveAlways == Spec => []OpenAttemptIsLive
<1>1. LeaseInv => OpenAttemptIsLive
  BY DEF LeaseInv
<1> QED
  BY LeaseInvariance, <1>1, PTL
=============================================================================
