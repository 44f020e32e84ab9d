----------------------- MODULE ProcessorReprocessing -----------------------
(***************************************************************************)
(* Audited reprocessing (reprocessing.go, core_receipt.go): a request      *)
(* waits for its own job of the core queue, then for the receipt that the  *)
(* core processor recorded, and only then enters the optional pipeline.    *)
(* The core job itself is the subject of QueueServer; here it is the three *)
(* things it does to these tables: it reads the torrent, it may record a   *)
(* receipt (best effort, possibly after its queue status was written, by a *)
(* handler that outlived its timeout), and it ends.                        *)
(***************************************************************************)
EXTENDS ProcessorTables, FiniteSetsExt

OpenRequests == {r \in DOMAIN requests : requests[r].state \in Open}

\* MUTANT: only a request of the torrent counts as busy, not a job.
BusyTorrentRequests(t) == \E r \in OpenRequests : requests[r].hash = t

\* The check of Reprocess under the control lock.
BusyTorrent(t) ==
    \/ \E j \in ActiveJobs : j.hash = t
    \/ \E r \in OpenRequests : requests[r].hash = t

\* Reprocess: the request and its core job, in one transaction.  The origin is a
\* finished job, read in an earlier transaction; that it may have been pruned since
\* makes no difference to the request.  The expected pipeline is the current one.
Reprocess(origin) ==
    LET t == origin.hash
    IN  /\ origin \in DOMAIN jobs \ ActiveJobs
        /\ Len(requests) < Min({MaxRequests, RetainedJobs, 1000})
        /\ Cardinality(OpenRequests) < Min({QueueCapacity, 64})
        /\ ~BusyTorrent(t)
        /\ Admitted(t)
        /\ requests' = Append(requests, [hash |-> t, plan |-> Plan, state |-> "waiting_core",
                                         core |-> "pending", read |-> None,
                                         receipt |-> None, job |-> None])
        /\ UNCHANGED <<control, facts, jobs, attempts, outputs, workers, disturbances>>

-----------------------------------------------------------------------------
\* processor.Process reads the torrent of the request (external to this package).
CoreReads(r) ==
    /\ requests[r].core = "pending"
    /\ facts[requests[r].hash] # Gone
    /\ requests' = [requests EXCEPT ![r].core = "running", ![r].read = facts[requests[r].hash].raw]
    /\ UNCHANGED <<control, facts, jobs, attempts, outputs, workers, disturbances>>

\* The queue runs the core job again, after an error, a timeout or a crash.
CoreRetries(r) ==
    /\ requests[r].core = "running"
    /\ disturbances < MaxDisturbances
    /\ disturbances' = disturbances + 1
    /\ requests' = [requests EXCEPT ![r].core = "pending"]
    /\ UNCHANGED <<control, facts, jobs, attempts, outputs, workers>>

\* A receipt is correlated with its request only while that waits for the core.
Recorded(r, receipt) ==
    [requests EXCEPT ![r].read = None,
                     ![r].receipt = IF requests[r].state = "waiting_core" THEN receipt ELSE @]

\* RecordCore: the receipt of the torrent, and of the request, for what was read.
RecordCore(r, processing) ==
    LET t == requests[r].hash
        receipt == [raw |-> requests[r].read, processing |-> processing]
    IN  /\ requests[r].read # None
        /\ facts[t] # Gone
        /\ facts' = [facts EXCEPT ![t].receipt = receipt]
        /\ requests' = Recorded(r, receipt)
        /\ UNCHANGED <<control, jobs, attempts, outputs, workers, disturbances>>

\* The core job is processed, fails for good (as it does when its torrent is
\* missing), or its row is purged, which no running job's is.  Nothing looks at the
\* status once the request no longer waits for the core.
CoreEnds(r, status) ==
    /\ requests[r].state = "waiting_core"
    /\ \/ status \in {"processed", "failed"} /\ requests[r].core = "running"
       \/ status = "failed" /\ requests[r].core = "pending" /\ facts[requests[r].hash] = Gone
       \/ status = "missing" /\ requests[r].core \in {"pending", "processed", "failed"}
    /\ requests' = [requests EXCEPT ![r].core = status]
    /\ UNCHANGED <<control, facts, jobs, attempts, outputs, workers, disturbances>>

-----------------------------------------------------------------------------
\* The verdict of settleReprocessing on a request whose core job was processed.
CoreVerdict(req) ==
    CASE req.plan # Plan                             -> "stale"
      [] req.plan = Plan /\ req.receipt = None       -> "held"
      [] req.plan = Plan /\ req.receipt # None       ->
            IF ~Admitted(req.hash) THEN "held"
            ELSE IF req.receipt.raw # facts[req.hash].raw THEN "stale"
            ELSE IF req.receipt.processing # "completed" THEN "deferred"
            ELSE IF Steps(Plan) = {} THEN "core_only"
            ELSE IF Draining \/ req.hash \notin admission.cohort THEN "held"
            ELSE "ready"

\* MUTANT: only a job that completed settles its request.
JobEndedWell(req) == req.job \in DOMAIN jobs /\ jobs[req.job].state = "completed"

JobEnded(req) == req.job \in DOMAIN jobs \ ActiveJobs

\* MUTANT: a request is ready as soon as its core job is processed.
SettledStateTrusting(req, expired) ==
    CASE req.state = "queued" /\ JobEnded(req) -> "settled"
      [] req.state = "ready" /\ req.plan # Plan -> "stale"
      [] req.state = "ready" /\ req.plan = Plan /\ expired -> "deferred"
      [] req.state = "waiting_core" /\ req.core = "processed" -> "ready"
      [] OTHER -> req.state

\* settleReprocessing, for one request; "expired": it is older than an hour.
SettledState(req, expired) ==
    CASE req.state = "queued" /\ JobEnded(req) -> "settled"
      [] req.state = "ready" /\ req.plan # Plan -> "stale"
      [] req.state = "ready" /\ req.plan = Plan /\ expired -> "deferred"
      [] req.state = "waiting_core" /\ expired -> "deferred"
      [] req.state = "waiting_core" /\ ~expired /\ req.core = "failed" -> "failed"
      [] req.state = "waiting_core" /\ ~expired /\ req.core = "missing" -> "deferred"
      [] req.state = "waiting_core" /\ ~expired /\ req.core = "processed" -> CoreVerdict(req)
      [] OTHER -> req.state

\* MUTANT: nothing expires.
settleReprocessingPatient(expired) ==
    [r \in DOMAIN requests |->
        [requests[r] EXCEPT !.state = SettledState(requests[r], FALSE)]]

settleReprocessing(expired) ==
    [r \in DOMAIN requests |->
        [requests[r] EXCEPT !.state = SettledState(requests[r], r \in expired)]]

\* MUTANT: the job of the request runs on.
CanceledJobsNone(r) == {}

CanceledJobs(r) == {requests[r].job} \cap ActiveJobs

\* CancelReprocessing: its job, if it is still active, and the request.
CancelReprocessing(r) ==
    LET js == CanceledJobs(r)
    IN  /\ jobs' = Moved(js, "canceled")
        /\ attempts' = Closed(js, "unknown")
        /\ requests' = [requests EXCEPT ![r].state = IF @ \in Open THEN "canceled" ELSE @]
        /\ UNCHANGED <<control, facts, outputs, workers, disturbances>>
=============================================================================
