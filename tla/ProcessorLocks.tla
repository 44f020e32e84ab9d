--------------------------- MODULE ProcessorLocks --------------------------
(***************************************************************************)
(* The locks behind the atomic steps of Processors: every transaction of   *)
(* internal/processors, and the one of the core that writes the same       *)
(* catalogue rows, as the locks it asks PostgreSQL for, in the order of    *)
(* its statements.  A transaction keeps its locks to its end.              *)
(*                                                                         *)
(* A program is a sequence of stages; the locks of one stage are taken in  *)
(* any order, as by an UPDATE of several rows.  Where a statement locks    *)
(* the rows that satisfy a condition, the stage has every row it may lock. *)
(* The rows of attempts, results and applications are only written under   *)
(* the lock of their job and are left out.                                 *)
(***************************************************************************)
EXTENDS Naturals, Sequences, FiniteSets

CONSTANTS
    Txs,           \* database sessions
    Rows,          \* torrents, each with one job and one request
    Kinds,         \* the transactions that run
    Concurrency    \* RunOne loops, over all replicas

ASSUME LocksAssumption == Concurrency \in Nat

VARIABLES
    kind,    \* the transaction of a session, or "none"
    row,     \* the torrent it works on, or 0
    stage,   \* the stage of its program
    held,    \* the locks it holds
    wanted   \* the lock it has asked for and waits for: a set of at most one lock

lkVars == <<kind, row, stage, held, wanted>>

ForUpdate(table, i) == [on |-> <<table, i>>, mode |-> "update"]
ForShare(table, i) == [on |-> <<table, i>>, mode |-> "share"]
EveryRow(table) == {ForUpdate(table, i) : i \in Rows}

\* LOCK TABLE ... IN SHARE MODE, and the ROW EXCLUSIVE lock of every statement
\* that inserts, updates or deletes.
LockTable(table) == [on |-> <<table, 0>>, mode |-> "SHARE"]
Writes(table) == [on |-> <<table, 0>>, mode |-> "ROW EXCLUSIVE"]

Control == {ForUpdate("control", 0)}
ControlShared == {ForShare("control", 0)}

\* readSource with lock: the tables one by one, then the torrent.  The tables that
\* no transaction of this module writes are left out.
SourceLocks(i) ==
    << {LockTable("torrent_contents")}, {LockTable("torrent_tags")}, {ForUpdate("torrents", i)} >>

\* apply: tags, the candidates of a match, the content, the learned weights.
ApplyLocks(i) ==
    << {Writes("torrent_tags")}, {LockTable("content")}, {Writes("torrent_contents")},
       {ForUpdate("registry", 0)} >>

\* MUTANT: the job is locked before the control row.
PrepareLocksJobFirst(i) == << {ForUpdate("job", i)}, ControlShared >>

\* Prepare; failPreparation and a Finish before the last step lock the same.
PrepareLocks(i) == << ControlShared, {ForUpdate("job", i)} >>

\* Finish of the last step.
FinishLocks(i) == << ControlShared, {ForUpdate("job", i)} >> \o SourceLocks(i)

Program(k, i) ==
    CASE k = "operator"     -> << Control, {ForUpdate("registry", 0)}, EveryRow("job") >>
      [] k = "Scan"         -> << Control, EveryRow("request"), EveryRow("job") >>
      [] k = "Claim"        -> << Control, EveryRow("job") >>
      [] k = "Prepare"      -> PrepareLocks(i)
      [] k = "Finish"       -> FinishLocks(i) \o ApplyLocks(i) \o << {ForUpdate("request", i)} >>
      [] k = "FinishStale"  -> FinishLocks(i) \o << {ForUpdate("request", i)} >>
      [] k = "Reprocess"    -> << Control >> \o SourceLocks(i)
      [] k = "Cancel"       -> << {ForUpdate("job", i)} >>
      [] k = "CancelReprocessing" -> << Control, {ForUpdate("request", i)}, {ForUpdate("job", i)} >>
      [] k = "RecordCore"   -> << {ForUpdate("request", i)} >>
      [] k = "RecordFeedback" -> << {ForUpdate("registry", 0)} >>
      [] k = "persist"      -> << {Writes("content")}, {ForUpdate("torrents", i)},
                                  {Writes("torrent_contents")}, {Writes("torrent_tags")} >>

\* startAttempt and abandon lock what Cancel does.
WorkerKinds == {"Prepare", "Finish", "FinishStale"}

\* The conflict tables of PostgreSQL, for the modes used here.
Conflict(l, m) ==
    /\ l.on = m.on
    /\ {l.mode, m.mode} \in {{"update"}, {"update", "share"}, {"SHARE", "ROW EXCLUSIVE"}}

Blocks(u, t) == \E l \in wanted[t], m \in held[u] : Conflict(l, m)

-----------------------------------------------------------------------------
LkInit ==
    /\ kind = [t \in Txs |-> "none"]
    /\ row = [t \in Txs |-> 0]
    /\ stage = [t \in Txs |-> 1]
    /\ held = [t \in Txs |-> {}]
    /\ wanted = [t \in Txs |-> {}]

BeginTx(t, k, i) ==
    /\ kind[t] = "none"
    /\ k \in WorkerKinds => Cardinality({u \in Txs : kind[u] \in WorkerKinds}) < Concurrency
    /\ kind' = [kind EXCEPT ![t] = k]
    /\ row' = [row EXCEPT ![t] = i]
    /\ UNCHANGED <<stage, held, wanted>>

\* The next lock of the current stage.
AskLock(t) ==
    LET program == Program(kind[t], row[t])
    IN  /\ kind[t] # "none"
        /\ wanted[t] = {}
        /\ stage[t] <= Len(program)
        /\ \E l \in program[stage[t]] \ held[t] : wanted' = [wanted EXCEPT ![t] = {l}]
        /\ UNCHANGED <<kind, row, stage, held>>

Granted(t) ==
    LET program == Program(kind[t], row[t])
        locks   == held[t] \cup wanted[t]
    IN  /\ wanted[t] # {}
        /\ \A u \in Txs \ {t} : ~Blocks(u, t)
        /\ held' = [held EXCEPT ![t] = locks]
        /\ wanted' = [wanted EXCEPT ![t] = {}]
        /\ stage' = [stage EXCEPT ![t] = IF program[stage[t]] \subseteq locks THEN @ + 1 ELSE @]
        /\ UNCHANGED <<kind, row>>

\* Commit or rollback.  A transaction may also give up at any earlier point (an
\* early return, an error, its deadline); what it then has not asked for blocks no one.
End(t) ==
    /\ kind[t] # "none"
    /\ stage[t] > Len(Program(kind[t], row[t]))
    /\ kind' = [kind EXCEPT ![t] = "none"]
    /\ stage' = [stage EXCEPT ![t] = 1]
    /\ row' = [row EXCEPT ![t] = 0]
    /\ held' = [held EXCEPT ![t] = {}]
    /\ UNCHANGED wanted

LkNext == \E t \in Txs : (\E k \in Kinds, i \in Rows : BeginTx(t, k, i)) \/ AskLock(t) \/ Granted(t) \/ End(t)

LkSpec == LkInit /\ [][LkNext]_lkVars

-----------------------------------------------------------------------------
(* Properties *)

\* No set of transactions in which each waits for a lock that another one holds.
\* This is what the order of the locks is for: "Registry locks precede job locks
\* everywhere to avoid upgrade deadlocks" (Finish), "Lock order matches core
\* persistence" (readSource).
NoWaitCycle ==
    ~\E S \in SUBSET Txs : /\ S # {}
                           /\ \A t \in S : \E u \in S \ {t} : Blocks(u, t)
=============================================================================
