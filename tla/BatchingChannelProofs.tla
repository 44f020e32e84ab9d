----------------------- MODULE BatchingChannelProofs ------------------------
(***************************************************************************)
(* The batching channel implements the abstract queue, for every capacity, *)
(* batch size and set of items.                                            *)
(***************************************************************************)
EXTENDS BatchingChannel, SequenceTheorems, TLAPS

\* Moving an item from the front of the input to the end of the buffer keeps the order of both.
LEMMA MoveHead ==
    ASSUME NEW b \in Seq(Items), NEW i \in Seq(Items), i # <<>>
    PROVE  /\ Append(b, Head(i)) \in Seq(Items)
           /\ Tail(i) \in Seq(Items)
           /\ Append(b, Head(i)) \o Tail(i) = b \o i
           /\ Len(Append(b, Head(i))) = Len(b) + 1
           /\ Len(Tail(i)) = Len(i) - 1
  OBVIOUS

\* Sending an item appends it to the whole.
LEMMA ConcatAppend ==
    ASSUME NEW s \in Seq(Items), NEW t \in Seq(Items), NEW e \in Items
    PROVE  s \o Append(t, e) = Append(s \o t, e)
  OBVIOUS

\* Concatenation is associative.
LEMMA ConcatAssoc ==
    \A s, t, u \in Seq(Items) : (s \o t) \o u = s \o (t \o u)
  OBVIOUS

\* A sequence is the beginning of what it is continued to, and the next piece follows it.
LEMMA ConcatPrefix ==
    ASSUME NEW s \in Seq(Items), NEW t \in Seq(Items), NEW u \in Seq(Items)
    PROVE  SubSeq(s \o (t \o u), 1, Len(s) + Len(t)) = s \o t
  OBVIOUS

\* The facts about concatenation the steps below need.
LEMMA Concat ==
    \A s, t \in Seq(Items) :
        /\ s \o t \in Seq(Items)
        /\ Len(s \o t) = Len(s) + Len(t)
        /\ s \o <<>> = s
        /\ <<>> \o s = s
  OBVIOUS

-----------------------------------------------------------------------------
\* The empty channel satisfies the invariant.
LEMMA BcInitInvariant == BcInit => BcInvariant
  BY BatchingChannelAssumption DEF BcInit, BcInvariant, BcTypeOK, Inside

\* Every step of the producer, the collecting goroutine and the consumer keeps it.
LEMMA BcStepInvariant == BcInvariant /\ [BcNext]_bcVars => BcInvariant'
  <1> SUFFICES ASSUME BcInvariant, [BcNext]_bcVars
               PROVE  BcInvariant'
    OBVIOUS
  <1> USE BatchingChannelAssumption
  <1>t. BcTypeOK
    BY DEF BcInvariant
  <1>1. ASSUME NEW item \in Items, Send(item)
        PROVE  BcInvariant'
    <2>1. BcTypeOK'
      BY <1>1, <1>t DEF Send, BcTypeOK
    <2>2. Inside' = Append(Inside, item)
      <3>1. output \o flushing \o buffer \in Seq(Items)
        BY <1>t, Concat DEF BcTypeOK
      <3> QED
        BY <1>1, <1>t, <3>1, ConcatAppend DEF Send, BcTypeOK, Inside
    <2>3. accepted' = (received \o Inside)'
      <3>1. Inside \in Seq(Items)
        BY <1>t, Concat DEF BcTypeOK, Inside
      <3> QED
        BY <1>1, <1>t, <2>2, <3>1, ConcatAppend DEF Send, BcTypeOK, BcInvariant
    <2> QED
      BY <1>1, <1>t, <2>1, <2>3 DEF Send, BcTypeOK, BcInvariant
  <1>2. CASE Collect
    <2> DEFINE collected == Append(buffer, Head(input))
    <2>1. /\ collected \in Seq(Items)
          /\ Tail(input) \in Seq(Items)
          /\ collected \o Tail(input) = buffer \o input
          /\ Len(collected) = Len(buffer) + 1
          /\ Len(Tail(input)) = Len(input) - 1
      BY <1>2, <1>t, MoveHead DEF Collect, BatchIsFull, BcTypeOK
    <2>2. BcTypeOK'
      BY <1>2, <1>t, <2>1 DEF Collect, BatchIsFull, BcTypeOK
    <2>3. flushing' \o buffer' = collected
      BY <1>2, <2>1, Concat DEF Collect, BatchIsFull
    <2>4. Inside' = Inside
      <3>1. Inside = (output \o buffer) \o input
        BY <1>2, <1>t, Concat DEF Collect, BatchIsFull, BcTypeOK, Inside
      <3>2. (output \o buffer) \o input = output \o (buffer \o input)
        BY <1>t, ConcatAssoc DEF BcTypeOK
      <3>3. Inside' = ((output \o flushing') \o buffer') \o Tail(input)
        BY <1>2 DEF Collect, BatchIsFull, Inside
      <3>4. (output \o flushing') \o buffer' = output \o (flushing' \o buffer')
        <4>1. output \in Seq(Items) /\ flushing' \in Seq(Items) /\ buffer' \in Seq(Items)
          BY <1>t, <2>2 DEF BcTypeOK
        <4> QED
          BY <4>1, ConcatAssoc, ZenonT(30)
      <3>5. (output \o collected) \o Tail(input) = output \o (collected \o Tail(input))
        BY <1>t, <2>1, ConcatAssoc, ZenonT(30) DEF BcTypeOK
      <3> HIDE DEF collected
      <3> QED
        BY <2>1, <2>3, <3>1, <3>2, <3>3, <3>4, <3>5
    <2> QED
      BY <1>2, <1>t, <2>1, <2>2, <2>4 DEF Collect, BatchIsFull, BcTypeOK, BcInvariant
  <1>3. CASE Tick
    <2>1. BcTypeOK'
      BY <1>3, <1>t DEF Tick, BcTypeOK
    <2>2. Inside' = Inside
      BY <1>3, <1>t, Concat DEF Tick, BcTypeOK, Inside
    <2> QED
      BY <1>3, <1>t, <2>1, <2>2 DEF Tick, BcTypeOK, BcInvariant
  <1>4. CASE Flush
    <2>1. BcTypeOK'
      BY <1>4, <1>t DEF Flush, OutputHasRoom, BcTypeOK
    <2>2. Inside' = Inside
      BY <1>4, <1>t, Concat DEF Flush, OutputHasRoom, BcTypeOK, Inside
    <2> QED
      BY <1>4, <1>t, <2>1, <2>2 DEF Flush, OutputHasRoom, BcTypeOK, BcInvariant
  <1>5. CASE Receive
    <2>1. BcTypeOK'
      BY <1>5, <1>t, Concat DEF Receive, BcTypeOK
    <2>2. (received \o Inside)' = received \o Inside
      <3> DEFINE rest == flushing \o buffer \o input
      <3>1. rest \in Seq(Items) /\ flushing \o buffer \in Seq(Items)
        BY <1>t, Concat DEF BcTypeOK
      <3>2. Inside = output \o rest
        <4>1. (output \o flushing) \o buffer = output \o (flushing \o buffer)
          BY <1>t, ConcatAssoc DEF BcTypeOK
        <4>2. (output \o (flushing \o buffer)) \o input = output \o rest
          BY <1>t, <3>1, ConcatAssoc, ZenonT(30) DEF BcTypeOK
        <4> HIDE DEF rest
        <4> QED
          BY <4>1, <4>2 DEF Inside
      <3>3. Inside' = rest
        BY <1>5, <1>t, Concat DEF Receive, BcTypeOK, Inside
      <3> HIDE DEF rest
      <3>4. (received \o output) \o rest = received \o (output \o rest)
        <4>1. received \in Seq(Items) /\ output \in Seq(Items) /\ rest \in Seq(Items)
          BY <1>t, <3>1 DEF BcTypeOK
        <4> QED
          BY <4>1, ConcatAssoc, ZenonT(30)
      <3> QED
        BY <1>5, <3>2, <3>3, <3>4 DEF Receive
    <2> QED
      BY <1>5, <1>t, <2>1, <2>2 DEF Receive, BcTypeOK, BcInvariant
  <1>6. CASE UNCHANGED bcVars
    BY <1>6 DEF bcVars, BcInvariant, BcTypeOK, Inside
  <1> QED
    BY <1>1, <1>2, <1>3, <1>4, <1>5, <1>6 DEF BcNext

\* Whatever the capacity and the batch size: nothing accepted is lost, repeated or reordered inside
\* the channel, and no batch exceeds maxBatchSize (batching_channel.go:42-74).
THEOREM BatchingChannelConserves == BcSpec => []BcInvariant
  BY BcInitInvariant, BcStepInvariant, PTL DEF BcSpec

-----------------------------------------------------------------------------
\* A send into a channel with room is a Put of the queue; a consumer's receive is a Get of its batch;
\* the goroutine's own steps change nothing outside.
LEMMA StepIsFifoStep == BcInvariant /\ [BcNext]_bcVars => [F!FifoNext]_(F!fifoVars)
  <1> SUFFICES ASSUME BcInvariant, [BcNext]_bcVars
               PROVE  F!FifoNext \/ UNCHANGED <<accepted, received>>
    BY DEF F!fifoVars
  <1>t. BcTypeOK
    BY DEF BcInvariant
  <1>1. ASSUME NEW item \in Items, Send(item)
        PROVE  F!Put(item)
    <2>1. Len(Inside) = Len(output) + Len(flushing) + Len(buffer) + Len(input)
      BY <1>t, Concat DEF BcTypeOK, Inside
    <2>2. Inside \in Seq(Items) /\ Len(accepted) = Len(received) + Len(Inside)
      BY <1>t, Concat DEF BcTypeOK, Inside, BcInvariant
    <2>3. Len(accepted) - Len(received) < Capacity + 2 * MaxBatch
      BY <1>1, <1>t, <2>1, <2>2, BatchingChannelAssumption DEF Send, BcTypeOK, BcInvariant
    <2> QED
      BY <1>1, <2>3 DEF Send, F!Put
  <1>2. ASSUME Receive
        PROVE  F!GetSome
    <2> DEFINE rest == flushing \o buffer \o input
    <2>1. rest \in Seq(Items) /\ flushing \o buffer \in Seq(Items)
      BY <1>t, Concat DEF BcTypeOK
    <2>2. Inside = output \o rest
      <3>1. (output \o flushing) \o buffer = output \o (flushing \o buffer)
        BY <1>t, ConcatAssoc DEF BcTypeOK
      <3>2. (output \o (flushing \o buffer)) \o input = output \o rest
        BY <1>t, <2>1, ConcatAssoc, ZenonT(30) DEF BcTypeOK
      <3> HIDE DEF rest
      <3> QED
        BY <3>1, <3>2 DEF Inside
    <2> HIDE DEF rest
    <2>3. accepted = received \o (output \o rest)
      BY <2>2 DEF BcInvariant
    <2>4. SubSeq(accepted, 1, Len(received) + Len(output)) = received \o output
      BY <1>t, <2>1, <2>3, ConcatPrefix DEF BcTypeOK
    <2>5. Len(accepted) = Len(received) + (Len(output) + Len(rest))
      <3>1. output \o rest \in Seq(Items) /\ Len(output \o rest) = Len(output) + Len(rest)
        BY <1>t, <2>1, Concat DEF BcTypeOK
      <3> QED
        BY <1>t, <2>3, <3>1, Concat DEF BcTypeOK
    <2>6. Len(output) \in 1..MaxBatch
      BY <1>2, <1>t, BatchingChannelAssumption DEF Receive, BcTypeOK, BcInvariant
    <2>7. F!Get(Len(output))
      BY <1>2, <1>t, <2>1, <2>4, <2>5, <2>6 DEF Receive, BcTypeOK, F!Get
    <2> QED
      BY <2>6, <2>7 DEF F!GetSome
  <1>3. CASE Collect \/ Tick \/ Flush \/ UNCHANGED bcVars
    BY <1>3 DEF Collect, BatchIsFull, Tick, Flush, bcVars
  <1> QED
    BY <1>1, <1>2, <1>3 DEF BcNext, F!FifoNext

\* The batching channel (batching_channel.go) implements the abstract queue: every item that enters
\* leaves exactly once and in order, in batches of 1 to maxBatchSize, and at most Capacity and two
\* batches of items are inside.
THEOREM BatchingChannelRefinesFifo == BcSpec => ImplementsFifo
  <1>1. BcInit => F!FifoInit
    BY DEF BcInit, F!FifoInit
  <1> QED
    BY <1>1, BatchingChannelConserves, StepIsFifoStep, PTL DEF BcSpec, ImplementsFifo, F!FifoSpec
=============================================================================
