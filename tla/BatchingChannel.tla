-------------------------- MODULE BatchingChannel ---------------------------
(***************************************************************************)
(* internal/concurrency/batching_channel.go: a Go channel for single       *)
(* items, a goroutine that collects them, and a Go channel of capacity one *)
(* for batches.  The goroutine takes nothing from the input while its      *)
(* flush waits for room in the output.  The input is never closed.         *)
(***************************************************************************)
EXTENDS Integers, Sequences

CONSTANTS
    Items,       \* what is sent
    Capacity,    \* the capacity of the input channel
    MaxBatch,    \* maxBatchSize
    MaxItems     \* bound on the items sent in a behaviour

ASSUME BatchingChannelAssumption ==
    /\ Capacity \in Nat \ {0}
    /\ MaxBatch \in Nat \ {0}
    /\ MaxItems \in Nat

VARIABLES
    accepted,   \* every item sent so far
    received,   \* every item handed to the consumer so far
    input,      \* the input channel
    buffer,     \* the batch being collected
    flushing,   \* the batch that waits for room in the output
    output      \* the batch in the output channel

bcInner == <<input, buffer, flushing, output>>
bcVars == <<accepted, received, input, buffer, flushing, output>>

BcTypeOK ==
    /\ accepted \in Seq(Items) /\ received \in Seq(Items)
    /\ input \in Seq(Items) /\ buffer \in Seq(Items)
    /\ flushing \in Seq(Items) /\ output \in Seq(Items)

\* A producer sends on In(); it blocks while the input is full.
Send(item) ==
    /\ Len(accepted) < MaxItems
    /\ Len(input) < Capacity
    /\ accepted' = Append(accepted, item)
    /\ input' = Append(input, item)
    /\ UNCHANGED <<received, buffer, flushing, output>>

BatchIsFull(b) == Len(b) >= MaxBatch

\* batch() appends the next item, and starts to flush a full buffer.
Collect ==
    /\ flushing = <<>>
    /\ input # <<>>
    /\ input' = Tail(input)
    /\ LET collected == Append(buffer, Head(input))
           full == BatchIsFull(collected)
       IN /\ buffer' = IF full THEN <<>> ELSE collected
          /\ flushing' = IF full THEN collected ELSE <<>>
    /\ UNCHANGED <<accepted, received, output>>

\* MUTANT: only full batches are flushed.
TickNever == FALSE

\* The ticker flushes what has been collected.
Tick ==
    /\ flushing = <<>>
    /\ buffer # <<>>
    /\ flushing' = buffer
    /\ buffer' = <<>>
    /\ UNCHANGED <<accepted, received, input, output>>

OutputHasRoom == output = <<>>

\* The blocked send of flush() finds room in the output.
Flush ==
    /\ flushing # <<>>
    /\ OutputHasRoom
    /\ output' = flushing
    /\ flushing' = <<>>
    /\ UNCHANGED <<accepted, received, input, buffer>>

\* The consumer takes a batch from Out().
Receive ==
    /\ output # <<>>
    /\ received' = received \o output
    /\ output' = <<>>
    /\ UNCHANGED <<accepted, input, buffer, flushing>>

BcInit ==
    /\ accepted = <<>> /\ received = <<>>
    /\ input = <<>> /\ buffer = <<>> /\ flushing = <<>> /\ output = <<>>

BcNext == (\E item \in Items : Send(item)) \/ Collect \/ Tick \/ Flush \/ Receive

BcSpec == BcInit /\ [][BcNext]_bcVars

\* One of the goroutine, the ticker and the consumer goes on while one of them can; no more is needed,
\* since nothing inside the channel moves back.
BcFairness == WF_bcVars(Collect \/ Tick \/ Flush \/ Receive)

BcLiveSpec == BcSpec /\ BcFairness

-----------------------------------------------------------------------------
Inside == output \o flushing \o buffer \o input

\* The inductive invariant: what was accepted is what came out followed by what is inside, in order;
\* nothing is collected while a flush waits; batches and the input keep to their sizes.
BcInvariant ==
    /\ BcTypeOK
    /\ accepted = received \o Inside
    /\ flushing = <<>> \/ buffer = <<>>
    /\ Len(input) <= Capacity
    /\ Len(buffer) < MaxBatch
    /\ Len(flushing) <= MaxBatch
    /\ Len(output) <= MaxBatch

F == INSTANCE Fifo WITH Depth <- Capacity + 2 * MaxBatch

\* The channel implements the abstract queue: order, exactly once, batch size and depth.
ImplementsFifo == F!FifoSpec

\* And everything accepted is delivered in the end.
ImplementsLiveFifo == F!FifoLiveSpec
=============================================================================
