------------------------- MODULE ProcessorFeedback -------------------------
(***************************************************************************)
(* Feedback to one processor (feedback.go): the events that transactions   *)
(* append, the consumers that pull them and acknowledge a position, and    *)
(* the loop of each replica that pushes what is pending.  The processor    *)
(* has an HTTP driver, is active and has push enabled throughout; what a   *)
(* built-in driver learns, and the learned state that a service returns,   *)
(* are left out.                                                           *)
(*                                                                         *)
(* A row's seq is drawn from a sequence when it is inserted and becomes    *)
(* visible when its transaction commits.  DeliverFeedback reads, calls the *)
(* service and updates in three steps with no transaction around them.     *)
(***************************************************************************)
EXTENDS Naturals, FiniteSets, FiniteSetsExt

CONSTANTS
    Facts,         \* what an event id digests: generation, job, torrent, tier, ground truth
    Writers,       \* transactions that record feedback: Finish, RecordFeedback
    Consumers, Replicas,
    PageLimit,     \* the limit of a page; a push takes as many
    MaxAttempts,   \* Config.MaxAttempts
    MaxSeq,        \* bound on the sequence
    MaxLosses      \* bound on restarts of consumers and updates lost after a push

ASSUME FeedbackAssumption ==
    /\ {PageLimit, MaxAttempts} \subseteq Nat \ {0}
    /\ {MaxSeq, MaxLosses} \subseteq Nat
    /\ IsFiniteSet(Replicas)

VARIABLES
    issued,      \* the last value of the sequence
    events,      \* processor_feedback_events: a function on the committed seqs
    writing,     \* the insert of each open transaction: [fact, seq], or Closed
    cursor,      \* processor_feedback_cursors
    position,    \* where a consumer will read on; 0: at its cursor
    seen,        \* the events a consumer has read
    acks,        \* acknowledgements sent; each may arrive late, and more than once
    pushing,     \* the batch each replica has read, or {}
    arrived,    \* the events the service got by a push
    losses

fbVars == <<issued, events, writing, cursor, position, seen, acks, pushing, arrived, losses>>

Event == [fact : Facts, state : {"pending", "delivered", "pulled", "failed"}, attempts : Nat]
Closed == [seq |-> 0]

\* The first events of a set, as many as fit a page.
Page(S) == {s \in S : Cardinality({r \in S : r < s}) < PageLimit}

FbInit ==
    /\ issued = 0
    /\ events = [s \in {} |-> Closed]
    /\ writing = [w \in Writers |-> Closed]
    /\ cursor = [c \in Consumers |-> 0]
    /\ position = [c \in Consumers |-> 0]
    /\ seen = [c \in Consumers |-> {}]
    /\ acks = {}
    /\ pushing = [d \in Replicas |-> {}]
    /\ arrived = {}
    /\ losses = 0

consumers == <<cursor, position, seen, acks>>
pushes == <<pushing, arrived>>

-----------------------------------------------------------------------------
\* insertFeedbackTx: a new event takes the next seq.  An event that exists already
\* is left as it is (its seq is drawn in vain); one that another open transaction
\* inserts makes the statement wait for it.
insertFeedbackTx(w, f) ==
    /\ writing[w] = Closed
    /\ issued < MaxSeq
    /\ \A v \in Writers : writing[v] # Closed => writing[v].fact # f
    /\ issued' = issued + 1
    /\ writing' = IF \E s \in DOMAIN events : events[s].fact = f
                  THEN writing
                  ELSE [writing EXCEPT ![w] = [seq |-> issued + 1, fact |-> f]]
    /\ UNCHANGED <<events, consumers, pushes, losses>>

Commit(w) ==
    /\ writing[w] # Closed
    /\ events' = [s \in DOMAIN events \cup {writing[w].seq} |->
                    IF s = writing[w].seq
                    THEN [fact |-> writing[w].fact, state |-> "pending", attempts |-> 0]
                    ELSE events[s]]
    /\ writing' = [writing EXCEPT ![w] = Closed]
    /\ UNCHANGED <<issued, consumers, pushes, losses>>

Rollback(w) ==
    /\ writing[w] # Closed
    /\ writing' = [writing EXCEPT ![w] = Closed]
    /\ UNCHANGED <<issued, events, consumers, pushes, losses>>

-----------------------------------------------------------------------------
\* MUTANT: the page begins one event too late.
FeedbackPageLate(c) ==
    LET after == IF position[c] = 0 THEN cursor[c] ELSE position[c]
    IN  Page({s \in DOMAIN events : s > after + 1})

\* The page after the consumer's position, or after its durable cursor.
FeedbackPage(c) ==
    LET after == IF position[c] = 0 THEN cursor[c] ELSE position[c]
    IN  Page({s \in DOMAIN events : s > after})

\* Feedback: the consumer reads a page and acknowledges its last event.
Feedback(c) ==
    LET page == FeedbackPage(c)
    IN  /\ page # {}
        /\ position' = [position EXCEPT ![c] = Max(page)]
        /\ seen' = [seen EXCEPT ![c] = @ \cup page]
        /\ acks' = acks \cup {[consumer |-> c, last |-> Max(page)]}
        /\ UNCHANGED <<issued, events, writing, cursor, pushes, losses>>

\* A consumer restarts, without what it remembered.
ConsumerRestarts(c) ==
    /\ position[c] # 0
    /\ losses < MaxLosses
    /\ losses' = losses + 1
    /\ position' = [position EXCEPT ![c] = 0]
    /\ UNCHANGED <<issued, events, writing, cursor, seen, acks, pushes>>

Acknowledged(c, last) == Max({cursor[c], last})

\* AckFeedback: the cursor, and every pending event up to the acknowledged one.
AckFeedback(a) ==
    /\ a \in acks
    /\ cursor' = [cursor EXCEPT ![a.consumer] = Acknowledged(a.consumer, a.last)]
    /\ events' = [s \in DOMAIN events |->
                    IF s <= a.last /\ events[s].state = "pending"
                    THEN [events[s] EXCEPT !.state = "pulled"] ELSE events[s]]
    /\ UNCHANGED <<issued, writing, position, seen, acks, pushes, losses>>

-----------------------------------------------------------------------------
Pushable(s) == events[s].state = "pending" /\ events[s].attempts < MaxAttempts

\* DeliverFeedback reads a batch.
ReadBatch(d) ==
    /\ pushing[d] = {}
    /\ \E s \in DOMAIN events : Pushable(s)
    /\ pushing' = [pushing EXCEPT ![d] = Page({s \in DOMAIN events : Pushable(s)})]
    /\ UNCHANGED <<issued, events, writing, consumers, arrived, losses>>

\* MUTANT: everything up to the last event of the batch is delivered.
DeliveredRange(batch) == {s \in DOMAIN events : s <= Max(batch)}

Delivered(batch) == batch

\* The service has acknowledged the batch; the update ignores the rows' state.
PushSucceeds(d) ==
    /\ pushing[d] # {}
    /\ arrived' = arrived \cup pushing[d]
    /\ events' = [s \in DOMAIN events |->
                    IF s \in Delivered(pushing[d])
                    THEN [events[s] EXCEPT !.state = "delivered", !.attempts = @ + 1]
                    ELSE events[s]]
    /\ pushing' = [pushing EXCEPT ![d] = {}]
    /\ UNCHANGED <<issued, writing, consumers, losses>>

\* MUTANT: a failed push is not counted.
PushFailedUncounted(e) == [e EXCEPT !.state = "pending"]

PushFailed(e) ==
    [e EXCEPT !.attempts = @ + 1,
              !.state = IF e.attempts + 1 >= MaxAttempts THEN "failed" ELSE "pending"]

\* The push fails, or its answer is lost; so does this update ignore the state.
PushFails(d) ==
    /\ pushing[d] # {}
    /\ arrived' \in {arrived, arrived \cup pushing[d]}
    /\ events' = [s \in DOMAIN events |->
                    IF s \in pushing[d] THEN PushFailed(events[s]) ELSE events[s]]
    /\ pushing' = [pushing EXCEPT ![d] = {}]
    /\ UNCHANGED <<issued, writing, consumers, losses>>

\* The update after the push fails (its error is ignored), or the replica stops.
PushLost(d) ==
    /\ pushing[d] # {}
    /\ losses < MaxLosses
    /\ losses' = losses + 1
    /\ arrived' \in {arrived, arrived \cup pushing[d]}
    /\ pushing' = [pushing EXCEPT ![d] = {}]
    /\ UNCHANGED <<issued, events, writing, consumers>>

Deliver(d) == ReadBatch(d) \/ PushSucceeds(d) \/ PushFails(d)

FbNext ==
    \/ \E w \in Writers : (\E f \in Facts : insertFeedbackTx(w, f)) \/ Commit(w) \/ Rollback(w)
    \/ \E c \in Consumers : Feedback(c) \/ ConsumerRestarts(c)
    \/ \E a \in acks : AckFeedback(a)
    \/ \E d \in Replicas : Deliver(d) \/ PushLost(d)

FbSpec == FbInit /\ [][FbNext]_fbVars

\* Replicas deliver every 30 seconds, each push within its timeout; consumers poll.
FbFairness ==
    /\ \A d \in Replicas : WF_fbVars(Deliver(d))
    /\ \A c \in Consumers : WF_fbVars(Feedback(c))

-----------------------------------------------------------------------------
(* Properties *)

\* An event is marked delivered only if the service got it.
DeliveredWasReceived ==
    \A s \in DOMAIN events : events[s].state = "delivered" => s \in arrived

\* Processors "receive structured FeedbackEvent records": a consumer that follows
\* its pages and acknowledges them has read every event its durable offset covers.
AcknowledgedWasRead ==
    \A c \in Consumers, s \in DOMAIN events : s <= cursor[c] => s \in seen[c]

\* Every event is finally delivered, pulled or given up, although an update may make it pending again
\* after it was delivered or pulled, and is finally read by every consumer that keeps polling.
FeedbackSettles ==
    <>[](/\ \A s \in DOMAIN events : events[s].state # "pending"
         /\ \A c \in Consumers : DOMAIN events \subseteq seen[c])
=============================================================================
