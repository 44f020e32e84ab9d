-------------------------- MODULE ProcessorTables --------------------------
(***************************************************************************)
(* The durable state of internal/processors: the control row, the service  *)
(* registry, the jobs with their attempts and results, the audited         *)
(* reprocessing requests, and the part of the catalogue that a job depends *)
(* on; with the reads and updates that several transactions share.         *)
(*                                                                         *)
(* Abstractions.  A digest is the value digested.  An info hash is a       *)
(* number, and so is a processor (in the order of priority, stage and id); *)
(* each has one stage.  A percentage and a seed are the cohort of torrents *)
(* they select, empty exactly for zero basis points.  Timestamps are left  *)
(* out: an action that compares one with the clock takes the outcome as a  *)
(* parameter.                                                              *)
(***************************************************************************)
EXTENDS Integers, Sequences, FiniteSets

CONSTANTS
    Torrents,         \* info hashes, positive numbers
    Raws,             \* raw metadata of a torrent: what the core source digest covers
    Entries,          \* ids of processors, numbers
    Workers,          \* the RunOne loops of every replica
    Hints,            \* candidates and swarm hints a request may be built from
    Outcomes,         \* outcomes a service may return
    Cohorts,          \* cohorts an admission policy may select
    Modes, Learnings, \* modes and learning settings an operator may choose
    Concurrency, QueueCapacity, RetainedJobs, ScanBatch, MaxAttempts,   \* Config
    None,             \* an absent value
    Gone,             \* the catalogue row of a deleted torrent
    MaxGeneration,    \* bound on the registry and admission generations
    MaxRequests,      \* bound on the reprocessing requests
    MaxDisturbances   \* bound on crashes, leases lost by a live worker, core changes

\* Config.Validate: the bounds the configuration must satisfy.
ASSUME ProcessorAssumption ==
    /\ Torrents \subseteq Nat \ {0}
    /\ Entries \subseteq Nat /\ IsFiniteSet(Entries)
    /\ {Concurrency, QueueCapacity, RetainedJobs, ScanBatch, MaxAttempts} \subseteq Nat \ {0}
    /\ {MaxGeneration, MaxRequests, MaxDisturbances} \subseteq Nat
    /\ QueueCapacity <= RetainedJobs
    /\ Outcomes \subseteq {"completed", "excluded", "abstained", "failed", "deferred"}
    /\ Cohorts \subseteq SUBSET Torrents
    /\ Modes \subseteq {"shadow", "apply"}
    /\ Learnings \subseteq {"on", "off"}

VARIABLES
    epoch, scan_after, admission,   \* processor_control
    sequence,                       \* processor_registry_generation
    registry,                       \* processor_registry: the entry of each id, or None
    facts,                          \* torrents and everything sourceSQL reads beside requests
    jobs,                           \* processor_jobs, a function on the job ids present
    attempts,                       \* processor_attempts, keyed by job and lease generation
    applications, exclusions,       \* processor_applications, processor_exclusions
    requests,                       \* processor_reprocess_requests, in order of creation
    workers,                        \* the lease each RunOne works on
    disturbances                    \* disturbances so far

control == <<epoch, scan_after, admission, sequence, registry>>
outputs == <<applications, exclusions>>
vars == <<control, facts, jobs, attempts, outputs, requests, workers, disturbances>>

YesNo == {"yes", "no"}
Entry == [generation : Nat, execution_generation : Nat,
          state : {"active", "draining", "paused"}, mode : {"shadow", "apply"},
          learning : {"on", "off"}]
Receipt == [raw : Raws, processing : {"completed", "deferred"}]
Fact == [raw : Raws, admissible : YesNo, enriched : YesNo, receipt : Receipt \cup {None}]
Active == {"queued", "deferred", "leased"}
Terminal == {"completed", "failed", "stale", "canceled"}
Finals == Outcomes \cup {"failed", "abstained"}
Job == [state : Active \cup Terminal, generation : Nat, step : Nat, step_attempts : Nat,
        preparation_failures : Nat, prepared : Hints \cup {None}, results : Seq(Finals)]
Step == [mode : {"shadow", "apply"}, learning : {"on", "off"}, generation : Nat]
Plans == [epoch : Nat, steps : [Entries -> Step \cup {None}]]
JobIds == [hash : Torrents, revision : [facts : Fact, reprocess : Nat], plan : Plans]
Open == {"waiting_core", "ready", "queued"}
RequestState == Open \cup {"settled", "core_only", "held", "deferred", "failed", "stale", "canceled"}
Request == [hash : Torrents, plan : Plans, state : RequestState,
            core : {"pending", "running", "processed", "failed", "missing"},
            read : Raws \cup {None}, receipt : Receipt \cup {None}, job : JobIds \cup {None}]

\* An absent value is none of the values that may be present.
ASSUME NoneAssumption == None \notin Entry /\ None \notin Step /\ None \notin Hints

-----------------------------------------------------------------------------
Registered == {p \in Entries : registry[p] # None}

\* readPlan: the steps are the entries that are not paused.  Draining and
\* resuming leave an entry's execution generation, and so the plan, unchanged.
Plan == [epoch |-> epoch,
         steps |-> [p \in Entries |->
                      IF p \in Registered /\ registry[p].state # "paused"
                      THEN [mode |-> registry[p].mode, learning |-> registry[p].learning,
                            generation |-> registry[p].execution_generation]
                      ELSE None]]

\* The processors of a plan; its steps are in the order of their numbers.
Steps(plan) == {p \in Entries : plan.steps[p] # None}

Draining == \E p \in Registered : registry[p].state = "draining"

\* The request that sourceSQL reads into the source of a torrent.
LatestRequest(reqs, t) ==
    LET R == {r \in DOMAIN reqs : /\ reqs[r].hash = t
                                  /\ reqs[r].state \in {"ready", "queued", "settled", "core_only"}}
    IN  IF R = {} THEN 0 ELSE CHOOSE r \in R : \A q \in R : q <= r

\* readSource: the snapshot whose digest is a job's input revision.
Source(reqs, t) == [facts |-> facts[t], reprocess |-> LatestRequest(reqs, t)]

\* source.admitted, and the eligibility of the name.
Admitted(t) == facts[t] # Gone /\ facts[t].admissible = "yes"

\* Store.fresh: the job's plan and source are the current ones.
Fresh(j) ==
    /\ j.plan.epoch = epoch
    /\ Admitted(j.hash)
    /\ Source(requests, j.hash) = j.revision

ActiveJobs == {j \in DOMAIN jobs : jobs[j].state \in Active}
LeasedJobs == {j \in DOMAIN jobs : jobs[j].state = "leased"}

\* Jobs that end, or lose their lease, in a new state.
Moved(js, state) ==
    [j \in DOMAIN jobs |-> IF j \in js THEN [jobs[j] EXCEPT !.state = state] ELSE jobs[j]]

\* Their unfinished attempts under the current lease are closed with an outcome.
Closed(js, outcome) ==
    [a \in DOMAIN attempts |->
        IF a.job \in js /\ a.generation = jobs[a.job].generation /\ attempts[a] = "open"
        THEN outcome ELSE attempts[a]]

Busy(w) == workers[w].pc # "idle"

\* The compare-and-swap condition on a lease.
Holds(w) ==
    /\ Busy(w)
    /\ workers[w].job \in DOMAIN jobs
    /\ jobs[workers[w].job].state = "leased"
    /\ jobs[workers[w].job].generation = workers[w].generation
=============================================================================
