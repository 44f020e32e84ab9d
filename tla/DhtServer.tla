----------------------------- MODULE DhtServer ------------------------------
(***************************************************************************)
(* internal/protocol/dht/server: the UDP server that asks other nodes      *)
(* (Query), hands their answers to the waiting callers (handleResponse),   *)
(* and shuts down.  Datagrams may be lost, delayed and delivered twice.    *)
(* Every query has a serial number in the model only: it says which Query  *)
(* created a channel, a datagram or a goroutine.                           *)
(***************************************************************************)
EXTENDS Integers, FiniteSets, Sequences

CONSTANTS
    Callers,       \* goroutines that call Query, one call at a time
    MaxQueries,    \* bound on the queries issued in a behaviour
    MaxCopies      \* how many copies of one answer the network may deliver

ASSUME DhtServerAssumption == MaxQueries \in Nat /\ MaxCopies \in Nat \ {0}

VARIABLES
    next,       \* the issuer's counter
    issued,     \* how many queries were issued (the last serial)
    calls,      \* per caller: [pc, id, serial, got]
    queries,    \* the server's map: transaction id -> serial of the channel
    chans,      \* serial -> the answers buffered in its channel
    network,    \* copies of answers under way: [id, serial, left], left the copies still to come
    handlers,   \* handleResponse goroutines: [id, serial, copy, ch]
    unmatched,  \* serials of answers for which the map had no entry
    copies,     \* serial -> copies of its answer the network delivers
    server,     \* the shutdown so far: [stopped, cancelled, closed]
    reader      \* the read goroutine: reading, exited, panicked

dhtVars == <<next, issued, calls, queries, chans, network, handlers, unmatched, copies,
             server, reader>>
callVars == <<next, issued, calls, queries, chans, network, handlers, unmatched, copies>>

Serials == 1..MaxQueries
NoCall == [pc |-> "idle", id |-> 0, serial |-> 0, got |-> 0]
Lookup == -1    \* a handler that has not looked its channel up yet

DhtTypeOK ==
    /\ next \in 0..MaxQueries /\ issued \in 0..MaxQueries
    /\ calls \in [Callers -> [pc : {"idle", "issued", "registered", "waiting", "returning"},
                              id : 0..MaxQueries, serial : 0..MaxQueries, got : 0..MaxQueries]]
    /\ \A id \in DOMAIN queries : queries[id] \in Serials
    /\ chans \in [Serials -> Seq(Serials)]
    /\ unmatched \subseteq Serials
    /\ server \in [stopped : BOOLEAN, cancelled : BOOLEAN, closed : BOOLEAN]
    /\ reader \in {"reading", "exited", "panicked"}

-----------------------------------------------------------------------------
(* Query *)

\* variantIDIssuer.Issue: the next number, under the issuer's mutex.
IssueNext(n) == n + 1

Begin(c) ==
    /\ calls[c].pc = "idle"
    /\ issued < MaxQueries
    /\ issued' = issued + 1
    /\ next' = IssueNext(next)
    /\ calls' = [calls EXCEPT ![c] = [pc |-> "issued", id |-> next, serial |-> issued + 1, got |-> 0]]
    /\ UNCHANGED <<queries, chans, network, handlers, unmatched, copies, server, reader>>

\* The channel enters the map before the query is sent.
Register(c) ==
    /\ calls[c].pc = "issued"
    /\ queries' = [id \in DOMAIN queries \cup {calls[c].id} |->
                     IF id = calls[c].id THEN calls[c].serial ELSE queries[id]]
    /\ calls' = [calls EXCEPT ![c].pc = "registered"]
    /\ UNCHANGED <<next, issued, chans, network, handlers, unmatched, copies, server, reader>>

\* MUTANT: the query leaves before its channel is in the map.
MaySendUnregistered(c) == calls[c].pc \in {"issued", "registered"}

\* The query is sent once its channel is in the map.
MaySend(c) == calls[c].pc = "registered"

\* The datagram leaves, and the network decides how often the answer will arrive (never, when
\* it or the query is lost).
SendQuery(c) ==
    /\ MaySend(c)
    /\ ~server.closed
    /\ calls' = [calls EXCEPT ![c].pc = "waiting"]
    /\ \E n \in 0..MaxCopies :
         /\ copies' = [copies EXCEPT ![calls[c].serial] = n]
         /\ network' = network \cup {[id |-> calls[c].id, serial |-> calls[c].serial, left |-> n]}
    /\ UNCHANGED <<next, issued, queries, chans, handlers, unmatched, server, reader>>

\* send fails: at any time for an address it cannot encode, and always once the socket is closed.
SendFails(c) ==
    /\ calls[c].pc = "registered"
    /\ calls' = [calls EXCEPT ![c].pc = "returning"]
    /\ UNCHANGED <<next, issued, queries, chans, network, handlers, unmatched, copies, server, reader>>

TakeAnswer(c) ==
    /\ calls[c].pc = "waiting"
    /\ chans[calls[c].serial] # <<>>
    /\ calls' = [calls EXCEPT ![c].pc = "returning", ![c].got = Head(chans[calls[c].serial])]
    /\ chans' = [chans EXCEPT ![calls[c].serial] = Tail(@)]
    /\ UNCHANGED <<next, issued, queries, network, handlers, unmatched, copies, server, reader>>

\* The query's timeout, or the caller's context, ends.  select may choose it beside an answer.
TimeOut(c) ==
    /\ calls[c].pc = "waiting"
    /\ calls' = [calls EXCEPT ![c].pc = "returning"]
    /\ UNCHANGED <<next, issued, queries, chans, network, handlers, unmatched, copies, server, reader>>

EntriesAfter(c) == [id \in DOMAIN queries \ {calls[c].id} |-> queries[id]]

\* The deferred delete.
Return(c) ==
    /\ calls[c].pc = "returning"
    /\ queries' = EntriesAfter(c)
    /\ calls' = [calls EXCEPT ![c] = NoCall]
    /\ UNCHANGED <<next, issued, chans, network, handlers, unmatched, copies, server, reader>>

-----------------------------------------------------------------------------
(* read, handleResponse *)

\* The reader starts a handler.  A Receive under way when the socket closes may still return data.
ReceiveAnswer(m) ==
    /\ reader = "reading"
    /\ m \in network
    /\ m.left > 0
    /\ network' = (network \ {m}) \cup {[m EXCEPT !.left = @ - 1]}
    /\ handlers' = handlers \cup {[id |-> m.id, serial |-> m.serial, copy |-> m.left, ch |-> Lookup]}
    /\ UNCHANGED <<next, issued, calls, queries, chans, unmatched, copies, server, reader>>

\* MUTANT: the answer goes to the channel that was registered last.
ChannelOfLatest(id) == queries[CHOOSE i \in DOMAIN queries : \A j \in DOMAIN queries : j <= i]

ChannelOf(id) == queries[id]

LookUp(h) ==
    /\ h \in handlers
    /\ h.ch = Lookup
    /\ IF h.id \in DOMAIN queries
       THEN /\ handlers' = (handlers \ {h}) \cup {[h EXCEPT !.ch = ChannelOf(h.id)]}
            /\ UNCHANGED unmatched
       ELSE /\ handlers' = handlers \ {h}
            /\ unmatched' = unmatched \cup {h.serial}
    /\ UNCHANGED <<next, issued, calls, queries, chans, network, copies, server, reader>>

\* MUTANT: the channel has no buffer, so a handler depends on a caller that may have left.
ChanCapacityNone == 0

\* make(chan dht.RecvMsg, 1)
ChanCapacity == 1

\* The handler's send, outside the mutex.
Deliver(h) ==
    /\ h \in handlers
    /\ h.ch # Lookup
    /\ Len(chans[h.ch]) < ChanCapacity
    /\ chans' = [chans EXCEPT ![h.ch] = Append(@, h.serial)]
    /\ handlers' = handlers \ {h}
    /\ UNCHANGED <<next, issued, calls, queries, network, unmatched, copies, server, reader>>

-----------------------------------------------------------------------------
(* start, stop *)

\* close(s.stopped) wakes the goroutine of start.
Stop ==
    /\ ~server.stopped
    /\ server' = [server EXCEPT !.stopped = TRUE]
    /\ UNCHANGED callVars /\ UNCHANGED reader

Cancel ==
    /\ server.stopped /\ ~server.cancelled
    /\ server' = [server EXCEPT !.cancelled = TRUE]
    /\ UNCHANGED callVars /\ UNCHANGED reader

\* The socket is closed after the context is cancelled.
MayClose == server.stopped /\ server.cancelled

CloseSocket ==
    /\ MayClose /\ ~server.closed
    /\ server' = [server EXCEPT !.closed = TRUE]
    /\ UNCHANGED callVars /\ UNCHANGED reader

\* The head of the loop of read sees the cancelled context.
ReadStops ==
    /\ reader = "reading" /\ server.cancelled
    /\ reader' = "exited"
    /\ UNCHANGED callVars /\ UNCHANGED server

\* Receive fails on a closed socket; outside a shutdown the process panics.
ReadFails ==
    /\ reader = "reading" /\ server.closed
    /\ reader' = IF server.cancelled THEN "exited" ELSE "panicked"
    /\ UNCHANGED callVars /\ UNCHANGED server

-----------------------------------------------------------------------------
DhtInit ==
    /\ next = 0 /\ issued = 0
    /\ calls = [c \in Callers |-> NoCall]
    /\ queries = <<>> /\ chans = [s \in Serials |-> <<>>]
    /\ network = {} /\ handlers = {} /\ unmatched = {}
    /\ copies = [s \in Serials |-> 0]
    /\ server = [stopped |-> FALSE, cancelled |-> FALSE, closed |-> FALSE]
    /\ reader = "reading"

CallRuns(c) ==
    Register(c) \/ SendQuery(c) \/ SendFails(c) \/ TakeAnswer(c) \/ TimeOut(c) \/ Return(c)

DhtNext ==
    \/ \E c \in Callers : Begin(c) \/ CallRuns(c)
    \/ \E m \in network : ReceiveAnswer(m)
    \/ \E h \in handlers : LookUp(h) \/ Deliver(h)
    \/ Stop \/ Cancel \/ CloseSocket \/ ReadStops \/ ReadFails

DhtSpec == DhtInit /\ [][DhtNext]_dhtVars

-----------------------------------------------------------------------------
(* Properties *)

\* handleResponse finds no entry only for an answer whose call has given up: an answer that is as
\* quick as the network allows is never missed (server.go:149-156 against 167-183).
AnswersAreNotMissed ==
    \A c \in Callers : calls[c].pc \in {"issued", "registered", "waiting"} => calls[c].serial \notin unmatched

\* What Query returns is the answer to its own question, however late other answers arrive.
AnswerIsOwn ==
    \A c \in Callers : calls[c].got # 0 => calls[c].got = calls[c].serial

\* The handler of an answer that arrives once is never held up, not even when its caller has left:
\* its goroutine ends (server.go:154, and the capacity at 165).
HandlersAreNotHeldUp ==
    \A h \in handlers : h.ch # Lookup /\ copies[h.serial] = 1 => Len(chans[h.ch]) < ChanCapacity
=============================================================================
