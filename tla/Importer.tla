------------------------------ MODULE Importer ------------------------------
(***************************************************************************)
(* internal/importer: one request to /import.  Its handler hands the items *)
(* of the body to the goroutine of the import, which starts a goroutine    *)
(* for each item and one for each interval without an item; all of them    *)
(* share one mutex, which the handler holds while it hands an item over.   *)
(* What is buffered is stored in one transaction.  What a goroutine does   *)
(* while it holds the mutex is one step.  The context of a request is      *)
(* gin's, whose Done is nil here: only Close ends the import.              *)
(***************************************************************************)
EXTENDS Integers, FiniteSets

CONSTANTS
    Lines,        \* items of the body
    Sources,      \* their sources
    SourceOf,     \* item -> source
    BufferSize,   \* importer.bufferSize
    MaxFlushes    \* bound on the flushes that wait for the mutex

ASSUME ImporterAssumption ==
    /\ IsFiniteSet(Lines) /\ SourceOf \in [Lines -> Sources]
    /\ BufferSize \in Nat \ {0} /\ MaxFlushes \in Nat

VARIABLES
    handler,      \* idle | reading | sending | draining | answered
    unread,       \* items the handler has not come to
    sent,         \* the item (at most one) it is handing over, holding the mutex
    running,      \* the goroutine of the import runs
    arriving,     \* items whose goroutine waits to buffer them
    waiting,      \* the counter of the WaitGroup
    flushes,      \* goroutines that wait to flush
    itemBuffer,
    importErrors, \* items of the batches that failed
    known,        \* importedSources
    stored,       \* items committed with their job
    refused,      \* items that a blocklist or the name policy kept out
    sources,      \* the table torrent_sources
    answer        \* none | complete | error

imVars == <<handler, unread, sent, running, arriving, waiting, flushes, itemBuffer, importErrors, known,
            stored, refused, sources, answer>>

imStore == <<itemBuffer, importErrors, known, stored, refused, sources>>

ImTypeOK ==
    /\ handler \in {"idle", "reading", "sending", "draining", "answered"} /\ answer \in {"none", "complete", "error"}
    /\ unread \subseteq Lines /\ sent \subseteq Lines /\ arriving \subseteq Lines
    /\ itemBuffer \subseteq Lines /\ importErrors \subseteq Lines
    /\ stored \subseteq Lines /\ refused \subseteq Lines
    /\ known \subseteq Sources /\ sources \subseteq Sources
    /\ running \in BOOLEAN /\ waiting \in 0..Cardinality(Lines) /\ flushes \in 0..MaxFlushes

MutexFree == sent = {}

-----------------------------------------------------------------------------
\* persistItemsTx commits the admitted items: a source that the import does not know is inserted if
\* the table lacks it.
CommitBatch(batch, admitted) ==
    /\ stored' = stored \cup admitted
    /\ refused' = refused \cup (batch \ admitted)
    /\ sources' = sources \cup {SourceOf[x] : x \in {y \in admitted : SourceOf[y] \notin known}}
    /\ known' = known \cup {SourceOf[x] : x \in admitted}
    /\ UNCHANGED importErrors

\* The transaction excludes the batch: an item met a name that came in concurrently (ErrExcluded).
ExcludeBatch(batch) ==
    /\ refused' = refused \cup batch
    /\ UNCHANGED <<stored, sources, known, importErrors>>

\* A gate or a statement of the transaction fails.
FailBatch(batch) ==
    /\ importErrors' = importErrors \cup batch
    /\ UNCHANGED <<stored, refused, sources, known>>

\* flushLocked and persistItems, for what is in the buffer.
FlushLocked(batch) ==
    /\ itemBuffer' = {}
    /\ \/ batch = {} /\ UNCHANGED <<importErrors, known, stored, refused, sources>>
       \/ batch # {} /\ \E admitted \in SUBSET batch : CommitBatch(batch, admitted)
       \/ batch # {} /\ (ExcludeBatch(batch) \/ FailBatch(batch))

-----------------------------------------------------------------------------
\* A request arrives: New starts the goroutine of the import.
New ==
    /\ handler = "idle"
    /\ handler' = "reading"
    /\ running' = TRUE
    /\ UNCHANGED <<unread, sent, arriving, waiting, flushes, imStore, answer>>

\* addItem and Import: the mutex is taken and held until the item is handed over.
Import(x) ==
    /\ handler = "reading"
    /\ x \in unread
    /\ MutexFree
    /\ unread' = unread \ {x}
    /\ sent' = {x}
    /\ waiting' = waiting + 1
    /\ handler' = "sending"
    /\ UNCHANGED <<running, arriving, flushes, imStore, answer>>

\* MUTANT: the goroutine of the import takes the mutex for each item.
ReceiveItemLocked ==
    /\ running
    /\ MutexFree
    /\ sent # {}
    /\ arriving' = arriving \cup sent
    /\ sent' = {}
    /\ handler' = "reading"
    /\ UNCHANGED <<unread, running, waiting, flushes, imStore, answer>>

\* run receives the item, and Import returns.
ReceiveItem ==
    /\ running
    /\ sent # {}
    /\ arriving' = arriving \cup sent
    /\ sent' = {}
    /\ handler' = "reading"
    /\ UNCHANGED <<unread, running, waiting, flushes, imStore, answer>>

\* run waits for maxWaitTime without an item.
Elapse ==
    /\ running
    /\ flushes < MaxFlushes
    /\ flushes' = flushes + 1
    /\ UNCHANGED <<handler, unread, sent, running, arriving, waiting, imStore, answer>>

\* The goroutine of an item: buffer.
Buffer(x) ==
    /\ x \in arriving
    /\ MutexFree
    /\ arriving' = arriving \ {x}
    /\ waiting' = waiting - 1
    /\ LET batch == itemBuffer \cup {x}
       IN \/ Cardinality(batch) >= BufferSize /\ FlushLocked(batch)
          \/ /\ Cardinality(batch) < BufferSize
             /\ itemBuffer' = batch
             /\ UNCHANGED <<importErrors, known, stored, refused, sources>>
    /\ UNCHANGED <<handler, unread, sent, running, flushes, answer>>

\* The goroutine of an interval: flush.
FlushBuffer ==
    /\ flushes > 0
    /\ MutexFree
    /\ flushes' = flushes - 1
    /\ FlushLocked(itemBuffer)
    /\ UNCHANGED <<handler, unread, sent, running, arriving, waiting, answer>>

\* A line is not an item: the handler answers, and leaves the import as it is.
Reject(x) ==
    /\ handler = "reading"
    /\ x \in unread
    /\ unread' = unread \ {x}
    /\ handler' = "answered"
    /\ answer' = "error"
    /\ UNCHANGED <<sent, running, arriving, waiting, flushes, imStore>>

\* The body ends.
EndOfBody ==
    /\ handler = "reading"
    /\ unread = {}
    /\ handler' = "draining"
    /\ UNCHANGED <<unread, sent, running, arriving, waiting, flushes, imStore, answer>>

\* MUTANT: the import is closed without Drain.
CloseUndrained ==
    /\ handler = "draining"
    /\ MutexFree
    /\ FlushLocked(itemBuffer)
    /\ running' = FALSE
    /\ handler' = "answered"
    /\ answer' = IF importErrors' = {} THEN "complete" ELSE "error"
    /\ UNCHANGED <<unread, sent, arriving, waiting, flushes>>

\* Drain returns when every item is buffered; Close flushes, ends run, and its errors are the answer.
Close ==
    /\ handler = "draining"
    /\ waiting = 0
    /\ MutexFree
    /\ FlushLocked(itemBuffer)
    /\ running' = FALSE
    /\ handler' = "answered"
    /\ answer' = IF importErrors' = {} THEN "complete" ELSE "error"
    /\ UNCHANGED <<unread, sent, arriving, waiting, flushes>>

ImInit ==
    /\ handler = "idle" /\ unread = Lines /\ sent = {} /\ running = FALSE
    /\ arriving = {} /\ waiting = 0 /\ flushes = 0
    /\ itemBuffer = {} /\ importErrors = {} /\ known = {} /\ stored = {} /\ refused = {}
    /\ sources \in SUBSET Sources
    /\ answer = "none"

ImNext ==
    \/ \E x \in Lines : Import(x) \/ Buffer(x) \/ Reject(x)
    \/ New \/ ReceiveItem \/ Elapse \/ FlushBuffer \/ EndOfBody \/ Close

\* Goroutines run.  The handler takes the mutex only as often as there are items, so whoever waits
\* for it gets it.
ImFairness ==
    /\ WF_imVars((\E x \in Lines : Import(x)) \/ ReceiveItem \/ EndOfBody \/ Close)
    /\ WF_imVars(\E x \in Lines : Buffer(x))

ImSpec == ImInit /\ [][ImNext]_imVars /\ ImFairness

-----------------------------------------------------------------------------
\* The bookkeeping of an import is true.  "import complete" means that every item of the body is
\* stored, or that a blocklist or the name policy refused it: none is still on its way, left in the
\* buffer or in a batch that failed (httpserver.go:133-146, importer.go:490-527).  And a source that
\* the import takes for known is in the table, for the torrents of later batches refer to it
\* (importedSources, importer.go:262-267).
ImportIsHonest ==
    /\ answer = "complete" => Lines \subseteq stored \cup refused
    /\ known \subseteq sources

\* Every request is answered: the goroutines that share the mutex never wait on each other for ever.
ImportEnds == handler # "idle" ~> handler = "answered"
=============================================================================
