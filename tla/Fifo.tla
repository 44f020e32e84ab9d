-------------------------------- MODULE Fifo --------------------------------
(***************************************************************************)
(* What internal/concurrency promises of a batching channel: items come    *)
(* out in the order they went in, each exactly once, in batches of bounded *)
(* size, and no more than Depth items are inside at any time.              *)
(***************************************************************************)
EXTENDS Integers, Sequences

CONSTANTS Items, MaxBatch, Depth, MaxItems

VARIABLES accepted, received   \* the items sent into the channel, and out of it, so far

fifoVars == <<accepted, received>>

Put(item) ==
    /\ Len(accepted) < MaxItems
    /\ Len(accepted) - Len(received) < Depth
    /\ accepted' = Append(accepted, item)
    /\ UNCHANGED received

\* The next n items leave together.
Get(n) ==
    /\ Len(received) + n <= Len(accepted)
    /\ received' = SubSeq(accepted, 1, Len(received) + n)
    /\ UNCHANGED accepted

GetSome == \E n \in 1..MaxBatch : Get(n)

FifoInit == accepted = <<>> /\ received = <<>>
FifoNext == (\E item \in Items : Put(item)) \/ GetSome
FifoSpec == FifoInit /\ [][FifoNext]_fifoVars

\* What is inside eventually comes out.
FifoLiveSpec == FifoSpec /\ WF_fifoVars(GetSome)
=============================================================================
