--------------------------- MODULE ImporterProofs ---------------------------
(***************************************************************************)
(* What the answer to an import means, for any number of items, sources    *)
(* and batches: each item of the body is in one of the places it may be,   *)
(* and when the WaitGroup is at zero none is on its way to the buffer.     *)
(***************************************************************************)
EXTENDS Importer, FiniteSetTheorems, TLAPS

\* The places of the items before the answer.
Placed == unread \cup sent \cup arriving \cup itemBuffer \cup importErrors \cup stored \cup refused

\* The WaitGroup counts the items between Import and the end of buffer.
WaitGroupCounts ==
    /\ unread \subseteq Lines /\ sent \subseteq Lines /\ arriving \subseteq Lines
    /\ unread \cap (sent \cup arriving) = {} /\ sent \cap arriving = {}
    /\ waiting = Cardinality(sent \cup arriving)

\* Where the handler is: the mutex is its own only while it hands over an item, and it drains only a
\* body that it has read.
HandlerKnows ==
    /\ sent # {} => handler = "sending"
    /\ handler = "draining" => unread = {}
    /\ handler # "answered" => answer = "none"
    /\ answer = "none" => Lines \subseteq Placed

ImInv == WaitGroupCounts /\ HandlerKnows /\ ImportIsHonest

\* A flush moves what it takes out of the buffer to the stored, the refused or the failed items, none
\* of which loses an item, and makes no source known that is not in the table.
LEMMA FlushKeeps ==
    ASSUME NEW batch, FlushLocked(batch), ImportIsHonest
    PROVE  /\ batch \subseteq importErrors' \cup stored' \cup refused'
           /\ importErrors \subseteq importErrors' /\ stored \subseteq stored' /\ refused \subseteq refused'
           /\ itemBuffer' = {}
           /\ known' \subseteq sources'
<1> USE DEF ImportIsHonest
<1>1. CASE batch = {} /\ UNCHANGED <<importErrors, known, stored, refused, sources>>
  BY <1>1 DEF FlushLocked
<1>2. CASE \E admitted \in SUBSET batch : CommitBatch(batch, admitted)
  BY <1>2 DEF FlushLocked, CommitBatch
<1>3. CASE ExcludeBatch(batch)
  BY <1>3 DEF FlushLocked, ExcludeBatch
<1>4. CASE FailBatch(batch)
  BY <1>4 DEF FlushLocked, FailBatch
<1>5. QED
  BY <1>1, <1>2, <1>3, <1>4 DEF FlushLocked

\* Nothing is read, sent or known before the request.
LEMMA ImInitInv == ImInit => ImInv
<1> SUFFICES ASSUME ImInit PROVE ImInv
  OBVIOUS
<1>1. WaitGroupCounts
  BY FS_EmptySet DEF ImInit, WaitGroupCounts
<1>2. QED
  BY <1>1 DEF ImInit, ImInv, HandlerKnows, Placed, ImportIsHonest

\* The item taken from the body becomes the one more that the WaitGroup counts.
LEMMA ImportInv == ASSUME ImInv, NEW x \in Lines, Import(x) PROVE ImInv'
<1> USE DEF ImInv
<1>1. WaitGroupCounts'
  <2>1. sent' \cup arriving' = (sent \cup arriving) \cup {x} /\ x \notin sent \cup arriving
    BY DEF Import, MutexFree, WaitGroupCounts
  <2>2. IsFiniteSet(sent \cup arriving)
    BY FS_Subset, ImporterAssumption DEF WaitGroupCounts
  <2>3. Cardinality(sent' \cup arriving') = waiting + 1
    BY <2>1, <2>2, FS_AddElement DEF WaitGroupCounts
  <2>4. QED
    BY <2>3 DEF Import, MutexFree, WaitGroupCounts
<1>2. HandlerKnows'
  BY DEF Import, HandlerKnows, Placed, imStore
<1>3. QED
  BY <1>1, <1>2 DEF Import, ImportIsHonest, imStore, HandlerKnows

\* run takes the item over: the same items are counted.
LEMMA ReceiveItemInv == ASSUME ImInv, ReceiveItem PROVE ImInv'
<1> USE DEF ImInv
<1>1. WaitGroupCounts'
  <2>1. sent' \cup arriving' = sent \cup arriving
    BY DEF ReceiveItem
  <2>2. QED
    BY <2>1 DEF ReceiveItem, WaitGroupCounts
<1>2. HandlerKnows'
  BY DEF ReceiveItem, HandlerKnows, Placed, imStore
<1>3. QED
  BY <1>1, <1>2 DEF ReceiveItem, ImportIsHonest, imStore

\* The goroutine of an item buffers or flushes it before it is no longer counted.
LEMMA BufferInv == ASSUME ImInv, NEW x \in Lines, Buffer(x) PROVE ImInv'
<1> USE DEF ImInv
<1> DEFINE batch == itemBuffer \cup {x}
<1>1. WaitGroupCounts'
  <2>1. sent' \cup arriving' = (sent \cup arriving) \ {x} /\ x \in sent \cup arriving
    BY DEF Buffer, MutexFree
  <2>2. IsFiniteSet(sent \cup arriving)
    BY FS_Subset, ImporterAssumption DEF WaitGroupCounts
  <2>3. Cardinality(sent' \cup arriving') = waiting - 1
    BY <2>1, <2>2, FS_RemoveElement DEF WaitGroupCounts
  <2>4. QED
    BY <2>3 DEF Buffer, MutexFree, WaitGroupCounts
<1>2. /\ batch \subseteq itemBuffer' \cup importErrors' \cup stored' \cup refused'
      /\ importErrors \subseteq importErrors' /\ stored \subseteq stored' /\ refused \subseteq refused'
      /\ known' \subseteq sources'
  <2>1. CASE FlushLocked(batch)
    BY <2>1, FlushKeeps
  <2>2. CASE itemBuffer' = batch /\ UNCHANGED <<importErrors, known, stored, refused, sources>>
    BY <2>2 DEF ImportIsHonest
  <2>3. QED
    BY <2>1, <2>2 DEF Buffer
<1>3. HandlerKnows'
  BY <1>2 DEF Buffer, HandlerKnows, Placed
<1>4. ImportIsHonest'
  BY <1>2 DEF Buffer, ImportIsHonest
<1>5. QED
  BY <1>1, <1>3, <1>4

\* A flush after an interval loses nothing.
LEMMA FlushBufferInv == ASSUME ImInv, FlushBuffer PROVE ImInv'
<1> USE DEF ImInv
<1>1. /\ itemBuffer \subseteq importErrors' \cup stored' \cup refused'
      /\ importErrors \subseteq importErrors' /\ stored \subseteq stored' /\ refused \subseteq refused'
      /\ known' \subseteq sources'
  BY FlushKeeps DEF FlushBuffer
<1>2. WaitGroupCounts'
  BY DEF FlushBuffer, WaitGroupCounts
<1>3. QED
  BY <1>1, <1>2 DEF FlushBuffer, HandlerKnows, Placed, ImportIsHonest

\* The answer: the body is read, no item is counted, so every one was in the buffer or stored, refused
\* or failed; the buffer is flushed, and no batch failed if the import is complete.
LEMMA CloseInv == ASSUME ImInv, Close PROVE ImInv'
<1> USE DEF ImInv
<1>1. /\ itemBuffer \subseteq importErrors' \cup stored' \cup refused'
      /\ importErrors \subseteq importErrors' /\ stored \subseteq stored' /\ refused \subseteq refused'
      /\ known' \subseteq sources'
  BY FlushKeeps DEF Close
<1>2. sent \cup arriving = {}
  <2>1. IsFiniteSet(sent \cup arriving)
    BY FS_Subset, ImporterAssumption DEF WaitGroupCounts
  <2>2. Cardinality(sent \cup arriving) = 0
    BY DEF Close, WaitGroupCounts
  <2>3. QED
    BY <2>1, <2>2, FS_EmptySet
<1>3. WaitGroupCounts'
  BY DEF Close, WaitGroupCounts
<1>4. Lines \subseteq itemBuffer \cup importErrors \cup stored \cup refused
  BY <1>2 DEF Close, HandlerKnows, Placed
<1>5. ImportIsHonest'
  BY <1>1, <1>4 DEF Close, ImportIsHonest
<1>6. HandlerKnows'
  BY <1>1, <1>4 DEF Close, MutexFree, HandlerKnows, Placed
<1>7. QED
  BY <1>3, <1>5, <1>6

\* The other steps of the handler and of run move no item, except that a line that is none ends the
\* request with an error.
LEMMA OtherStepsInv ==
    ASSUME ImInv, New \/ Elapse \/ EndOfBody \/ \E x \in Lines : Reject(x)
    PROVE  ImInv'
<1> USE DEF ImInv
<1>1. CASE New
  BY <1>1 DEF New, imStore, WaitGroupCounts, HandlerKnows, Placed, ImportIsHonest
<1>2. CASE Elapse
  BY <1>2 DEF Elapse, imStore, WaitGroupCounts, HandlerKnows, Placed, ImportIsHonest
<1>3. CASE EndOfBody
  BY <1>3 DEF EndOfBody, imStore, WaitGroupCounts, HandlerKnows, Placed, ImportIsHonest
<1>4. CASE \E x \in Lines : Reject(x)
  BY <1>4 DEF Reject, imStore, WaitGroupCounts, HandlerKnows, Placed, ImportIsHonest
<1>5. QED
  BY <1>1, <1>2, <1>3, <1>4

\* Each step of ImNext is one of these, or changes nothing.
LEMMA ImNextInv == ImInv /\ [ImNext]_imVars => ImInv'
<1> SUFFICES ASSUME ImInv, [ImNext]_imVars PROVE ImInv'
  OBVIOUS
<1>1. ASSUME NEW x \in Lines, Import(x) PROVE ImInv'
  BY <1>1, ImportInv
<1>2. ASSUME NEW x \in Lines, Buffer(x) PROVE ImInv'
  BY <1>2, BufferInv
<1>3. CASE New \/ Elapse \/ EndOfBody \/ \E x \in Lines : Reject(x)
  BY <1>3, OtherStepsInv
<1>4. CASE ReceiveItem
  BY <1>4, ReceiveItemInv
<1>5. CASE FlushBuffer
  BY <1>5, FlushBufferInv
<1>6. CASE Close
  BY <1>6, CloseInv
<1>7. CASE UNCHANGED imVars
  BY <1>7 DEF imVars, ImInv, WaitGroupCounts, HandlerKnows, Placed, ImportIsHonest
<1>8. QED
  BY <1>1, <1>2, <1>3, <1>4, <1>5, <1>6, <1>7 DEF ImNext

\* The answer to an import is true, whatever the order in which its goroutines take the mutex and
\* whatever batches fail (httpserver.go:133-146, importer.go:159-190 and 490-527).
THEOREM ImportIsHonestAlways == ImSpec => []ImportIsHonest
<1>1. ImInv => ImportIsHonest
  BY DEF ImInv
<1>2. QED
  BY ImInitInv, ImNextInv, <1>1, PTL DEF ImSpec
=============================================================================
