-------------------------- MODULE DhtServerProofs ---------------------------
(***************************************************************************)
(* The calls of the DHT server keep to themselves, for any number of       *)
(* callers, queries and repeated datagrams.                                *)
(*                                                                         *)
(* The argument: a transaction id is one less than the serial of the call  *)
(* it was issued to, and no two open calls share one.  So whatever carries *)
(* an id (the map, a datagram, a handler, a buffered answer) belongs to    *)
(* one call for ever.  A datagram exists only for a call that was sent,    *)
(* hence registered, and a registered call is in the map until it returns. *)
(***************************************************************************)
EXTENDS DhtServer, TLAPS

States == {"idle", "issued", "registered", "waiting", "returning"}
Call == [pc : States, id : Int, serial : 0..MaxQueries, got : 0..MaxQueries]
Datagram == [id : Int, serial : Serials, left : Int]
Handler == [id : Int, serial : Serials, copy : Int, ch : Serials \cup {Lookup}]

ProofTypeOK ==
    /\ issued \in 0..MaxQueries
    /\ calls \in [Callers -> Call]
    /\ chans \in [Serials -> Seq(Serials)]
    /\ network \subseteq Datagram
    /\ handlers \subseteq Handler
    /\ unmatched \subseteq Serials
    /\ server \in [stopped : BOOLEAN, cancelled : BOOLEAN, closed : BOOLEAN]

InMap(c) == calls[c].pc \in {"registered", "waiting", "returning"}

\* Ids follow serials, and an open call has its serial alone.
CallsAreDistinct ==
    /\ next = issued
    /\ \A c \in Callers : calls[c].pc # "idle" =>
           /\ calls[c].serial \in 1..issued
           /\ calls[c].id = calls[c].serial - 1
    /\ \A c, d \in Callers :
           calls[c].pc # "idle" /\ calls[d].pc # "idle" /\ calls[c].serial = calls[d].serial => c = d

\* The map of server.go:29 holds an entry for every call that is registered and for no other: neither
\* a failed send nor a timeout leaves one behind, and none is missing while its answer is awaited.
EntriesAreOfOpenCalls ==
    /\ \A id \in DOMAIN queries : \E c \in Callers : InMap(c) /\ calls[c].id = id
    /\ \A c \in Callers : InMap(c) => calls[c].id \in DOMAIN queries

\* What carries an id belongs to the call it was issued to.
IdsNameTheirCall ==
    /\ \A id \in DOMAIN queries : queries[id] = id + 1
    /\ \A m \in network : m.serial = m.id + 1
    /\ \A h \in handlers : h.serial = h.id + 1 /\ h.ch \in {Lookup, h.serial}
    /\ \A s \in Serials : \A i \in 1..Len(chans[s]) : chans[s][i] = s

\* A datagram or a handler exists only for a call that was sent.
Sent(s) ==
    /\ s <= issued
    /\ \A c \in Callers : calls[c].pc \in {"issued", "registered"} => calls[c].serial # s

AnswersFollowQueries ==
    /\ \A m \in network : Sent(m.serial)
    /\ \A h \in handlers : Sent(h.serial)
    /\ \A s \in unmatched : s <= issued

\* The reader panics only when the socket is closed before the context is cancelled
\* (server.go:79-81 against 44-47).
StopNeverPanics ==
    /\ reader # "panicked"
    /\ server.closed => server.cancelled

DhtInv ==
    /\ ProofTypeOK
    /\ CallsAreDistinct
    /\ EntriesAreOfOpenCalls
    /\ IdsNameTheirCall
    /\ AnswersFollowQueries
    /\ AnswersAreNotMissed
    /\ AnswerIsOwn
    /\ StopNeverPanics

-----------------------------------------------------------------------------
\* The initial state satisfies the invariant.
LEMMA DhtInitInv == DhtInit => DhtInv
<1> SUFFICES ASSUME DhtInit PROVE DhtInv
  OBVIOUS
<1>1. ProofTypeOK
  BY DhtServerAssumption DEF DhtInit, ProofTypeOK, NoCall, Call, States, Serials
<1>2. CallsAreDistinct /\ AnswersFollowQueries /\ AnswersAreNotMissed /\ AnswerIsOwn /\ StopNeverPanics
  BY DEF DhtInit, NoCall, CallsAreDistinct, AnswersFollowQueries, AnswersAreNotMissed, AnswerIsOwn, StopNeverPanics
<1>3. EntriesAreOfOpenCalls /\ IdsNameTheirCall
  BY DEF DhtInit, NoCall, EntriesAreOfOpenCalls, InMap, IdsNameTheirCall, Serials
<1>4. QED
  BY <1>1, <1>2, <1>3 DEF DhtInv

\* Every step of Query, of the reader and its handlers, and of the shutdown preserves it.
LEMMA DhtNextInv == DhtInv /\ [DhtNext]_dhtVars => DhtInv'
<1> SUFFICES ASSUME DhtInv, [DhtNext]_dhtVars PROVE DhtInv'
  OBVIOUS
<1> USE DhtServerAssumption DEF DhtInv
<1>1. ASSUME NEW c \in Callers, Begin(c) PROVE DhtInv'
  <2>a. /\ calls'[c] = [pc |-> "issued", id |-> next, serial |-> issued + 1, got |-> 0]
        /\ \A d \in Callers : d # c => calls'[d] = calls[d]
        /\ issued' = issued + 1 /\ next \in Int
    BY <1>1 DEF Begin, ProofTypeOK, CallsAreDistinct
  <2>1. ProofTypeOK'
    BY <1>1, <2>a DEF Begin, ProofTypeOK, Call, States
  <2>2. CallsAreDistinct'
    BY <1>1, <2>a DEF Begin, IssueNext, CallsAreDistinct, ProofTypeOK
  <2>3. EntriesAreOfOpenCalls'
    <3>1. \A d \in Callers : InMap(d)' <=> InMap(d) /\ d # c
      BY <1>1, <2>a DEF Begin, InMap
    <3>2. \A d \in Callers : InMap(d) => d # c
      BY <1>1 DEF Begin, InMap
    <3>3. queries' = queries
      BY <1>1 DEF Begin
    <3>4. QED
      BY <3>1, <3>2, <3>3, <2>a DEF EntriesAreOfOpenCalls
  <2>4. IdsNameTheirCall'
    BY <1>1 DEF Begin, IdsNameTheirCall
  <2>5. AnswersFollowQueries'
    <3>1. ASSUME NEW s \in Int, Sent(s) PROVE Sent(s)'
      BY <3>1, <2>a DEF Sent, ProofTypeOK
    <3>2. QED
      BY <1>1, <3>1, <2>a DEF Begin, AnswersFollowQueries, ProofTypeOK, Datagram, Handler, Serials,
         AnswersAreNotMissed
  <2>6. AnswersAreNotMissed'
    BY <1>1, <2>a DEF AnswersAreNotMissed, AnswersFollowQueries, ProofTypeOK, Begin
  <2>7. AnswerIsOwn'
    BY <1>1, <2>a DEF AnswerIsOwn
  <2>8. StopNeverPanics'
    BY <1>1 DEF Begin, StopNeverPanics
  <2>9. QED
    BY <2>1, <2>2, <2>3, <2>4, <2>5, <2>6, <2>7, <2>8
<1>2. ASSUME NEW c \in Callers, Register(c) PROVE DhtInv'
  <2>1. ProofTypeOK'
    BY <1>2 DEF Register, ProofTypeOK, Call, States
  <2>2. CallsAreDistinct'
    BY <1>2 DEF Register, CallsAreDistinct, ProofTypeOK, Call, States
  <2>3. EntriesAreOfOpenCalls'
    BY <1>2 DEF Register, EntriesAreOfOpenCalls, InMap, CallsAreDistinct, ProofTypeOK, Call, States
  <2>4. IdsNameTheirCall'
    <3>1. calls[c].serial = calls[c].id + 1
      BY <1>2 DEF Register, CallsAreDistinct
    <3>2. QED
      BY <1>2, <3>1 DEF Register, IdsNameTheirCall
  <2>5. AnswersFollowQueries'
    BY <1>2 DEF Register, AnswersFollowQueries, Sent, ProofTypeOK, Call
  <2>6. AnswersAreNotMissed'
    BY <1>2 DEF Register, AnswersAreNotMissed, ProofTypeOK, Call
  <2>7. AnswerIsOwn'
    BY <1>2 DEF Register, AnswerIsOwn, ProofTypeOK, Call
  <2>8. StopNeverPanics'
    BY <1>2 DEF Register, StopNeverPanics
  <2>9. QED
    BY <2>1, <2>2, <2>3, <2>4, <2>5, <2>6, <2>7, <2>8
<1>3. ASSUME NEW c \in Callers, SendQuery(c) PROVE DhtInv'
  <2>1. ProofTypeOK'
    <3>1. calls[c].serial \in Serials /\ calls[c].id \in Int
      BY <1>3 DEF SendQuery, MaySend, CallsAreDistinct, ProofTypeOK, Call, Serials
    <3>2. \A n \in 0..MaxCopies : [id |-> calls[c].id, serial |-> calls[c].serial, left |-> n] \in Datagram
      BY <3>1 DEF Datagram
    <3>3. network' \subseteq Datagram
      BY <1>3, <3>2 DEF SendQuery, ProofTypeOK
    <3>4. calls' \in [Callers -> Call]
      BY <1>3 DEF SendQuery, ProofTypeOK, Call, States
    <3>5. QED
      BY <1>3, <3>3, <3>4 DEF SendQuery, ProofTypeOK
  <2>2. CallsAreDistinct'
    BY <1>3 DEF SendQuery, MaySend, CallsAreDistinct, ProofTypeOK, Call, States
  <2>3. EntriesAreOfOpenCalls'
    BY <1>3 DEF SendQuery, MaySend, EntriesAreOfOpenCalls, InMap, CallsAreDistinct, ProofTypeOK, Call, States
  <2>4. IdsNameTheirCall'
    <3>1. calls[c].serial = calls[c].id + 1
      BY <1>3 DEF SendQuery, MaySend, CallsAreDistinct
    <3>2. QED
      BY <1>3, <3>1 DEF SendQuery, IdsNameTheirCall
  <2>5. AnswersFollowQueries'
    <3>1. calls[c].pc = "registered" /\ calls[c].serial <= issued
      BY <1>3 DEF SendQuery, MaySend, CallsAreDistinct, ProofTypeOK
    <3>2. calls'[c].pc = "waiting" /\ \A d \in Callers : d # c => calls'[d] = calls[d]
      BY <1>3 DEF SendQuery, ProofTypeOK
    <3>3. Sent(calls[c].serial)'
      BY <1>3, <3>1, <3>2 DEF SendQuery, Sent, CallsAreDistinct
    <3>4. ASSUME NEW s, Sent(s) PROVE Sent(s)'
      BY <1>3, <3>2, <3>4 DEF SendQuery, Sent
    <3>5. QED
      BY <1>3, <3>3, <3>4 DEF SendQuery, AnswersFollowQueries
  <2>6. AnswersAreNotMissed'
    BY <1>3 DEF SendQuery, MaySend, AnswersAreNotMissed, ProofTypeOK, Call
  <2>7. AnswerIsOwn'
    BY <1>3 DEF SendQuery, MaySend, AnswerIsOwn, ProofTypeOK, Call
  <2>8. StopNeverPanics'
    BY <1>3 DEF SendQuery, StopNeverPanics
  <2>9. QED
    BY <2>1, <2>2, <2>3, <2>4, <2>5, <2>6, <2>7, <2>8
<1>4. ASSUME NEW c \in Callers, SendFails(c) PROVE DhtInv'
  <2>1. ProofTypeOK'
    BY <1>4 DEF SendFails, ProofTypeOK, Call, States
  <2>2. CallsAreDistinct'
    BY <1>4 DEF SendFails, CallsAreDistinct, ProofTypeOK, Call, States
  <2>3. EntriesAreOfOpenCalls'
    BY <1>4 DEF SendFails, EntriesAreOfOpenCalls, InMap, CallsAreDistinct, ProofTypeOK, Call, States
  <2>4. IdsNameTheirCall'
    BY <1>4 DEF SendFails, IdsNameTheirCall
  <2>5. AnswersFollowQueries'
    BY <1>4 DEF SendFails, AnswersFollowQueries, Sent, ProofTypeOK, Call
  <2>6. AnswersAreNotMissed'
    BY <1>4 DEF SendFails, AnswersAreNotMissed, ProofTypeOK, Call
  <2>7. AnswerIsOwn'
    BY <1>4 DEF SendFails, AnswerIsOwn, ProofTypeOK, Call
  <2>8. StopNeverPanics'
    BY <1>4 DEF SendFails, StopNeverPanics
  <2>9. QED
    BY <2>1, <2>2, <2>3, <2>4, <2>5, <2>6, <2>7, <2>8
<1>5. ASSUME NEW c \in Callers, TakeAnswer(c) PROVE DhtInv'
  <2> DEFINE s == calls[c].serial
  <2>a. s \in Serials /\ chans[s] \in Seq(Serials) /\ chans[s] # <<>>
    BY <1>5 DEF TakeAnswer, CallsAreDistinct, ProofTypeOK, Call, Serials
  <2>b. Len(chans[s]) >= 1 /\ Head(chans[s]) = chans[s][1] /\ Tail(chans[s]) \in Seq(Serials)
        /\ Len(Tail(chans[s])) = Len(chans[s]) - 1
        /\ \A i \in 1..Len(Tail(chans[s])) : Tail(chans[s])[i] = chans[s][i + 1]
    BY <2>a
  <2>c. Head(chans[s]) = s
    BY <2>a, <2>b DEF IdsNameTheirCall
  <2>d. /\ calls'[c] = [calls[c] EXCEPT !.pc = "returning", !.got = s]
        /\ \A d \in Callers : d # c => calls'[d] = calls[d]
        /\ calls' \in [Callers -> Call]
    BY <1>5, <2>a, <2>c DEF TakeAnswer, ProofTypeOK, Call, States, Serials
  <2>e. /\ calls'[c].pc = "returning" /\ calls'[c].got = s
        /\ calls'[c].id = calls[c].id /\ calls'[c].serial = s
    BY <2>d DEF ProofTypeOK, Call
  <2>f. chans' = [chans EXCEPT ![s] = Tail(chans[s])]
    BY <1>5 DEF TakeAnswer
  <2>1. ProofTypeOK'
    BY <1>5, <2>a, <2>b, <2>d, <2>f DEF TakeAnswer, ProofTypeOK
  <2>2. CallsAreDistinct'
    BY <1>5, <2>d, <2>e DEF CallsAreDistinct, TakeAnswer
  <2>3. EntriesAreOfOpenCalls'
    BY <1>5, <2>d, <2>e DEF TakeAnswer, EntriesAreOfOpenCalls, InMap
  <2>4. IdsNameTheirCall'
    <3>1. \A r \in Serials : \A i \in 1..Len(chans'[r]) : chans'[r][i] = r
      BY <2>a, <2>b, <2>f DEF IdsNameTheirCall, ProofTypeOK
    <3>2. QED
      BY <1>5, <3>1 DEF TakeAnswer, IdsNameTheirCall
  <2>5. AnswersFollowQueries'
    BY <1>5, <2>d, <2>e DEF TakeAnswer, AnswersFollowQueries, Sent
  <2>6. AnswersAreNotMissed'
    BY <1>5, <2>d, <2>e DEF AnswersAreNotMissed, TakeAnswer
  <2>7. AnswerIsOwn'
    BY <2>d, <2>e DEF AnswerIsOwn
  <2>8. StopNeverPanics'
    BY <1>5 DEF TakeAnswer, StopNeverPanics
  <2>9. QED
    BY <2>1, <2>2, <2>3, <2>4, <2>5, <2>6, <2>7, <2>8
<1>6. ASSUME NEW c \in Callers, TimeOut(c) PROVE DhtInv'
  <2>1. ProofTypeOK'
    BY <1>6 DEF TimeOut, ProofTypeOK, Call, States
  <2>2. CallsAreDistinct'
    BY <1>6 DEF TimeOut, CallsAreDistinct, ProofTypeOK, Call, States
  <2>3. EntriesAreOfOpenCalls'
    BY <1>6 DEF TimeOut, EntriesAreOfOpenCalls, InMap, CallsAreDistinct, ProofTypeOK, Call, States
  <2>4. IdsNameTheirCall'
    BY <1>6 DEF TimeOut, IdsNameTheirCall
  <2>5. AnswersFollowQueries'
    BY <1>6 DEF TimeOut, AnswersFollowQueries, Sent, ProofTypeOK, Call
  <2>6. AnswersAreNotMissed'
    BY <1>6 DEF TimeOut, AnswersAreNotMissed, ProofTypeOK, Call
  <2>7. AnswerIsOwn'
    BY <1>6 DEF TimeOut, AnswerIsOwn, ProofTypeOK, Call
  <2>8. StopNeverPanics'
    BY <1>6 DEF TimeOut, StopNeverPanics
  <2>9. QED
    BY <2>1, <2>2, <2>3, <2>4, <2>5, <2>6, <2>7, <2>8
<1>7. ASSUME NEW c \in Callers, Return(c) PROVE DhtInv'
  <2>1. ProofTypeOK'
    BY <1>7 DEF Return, NoCall, ProofTypeOK, Call, States
  <2>2. CallsAreDistinct'
    BY <1>7 DEF Return, EntriesAfter, NoCall, CallsAreDistinct, ProofTypeOK, Call, States
  <2>3. EntriesAreOfOpenCalls'
    <3>1. /\ calls'[c].pc = "idle"
          /\ \A d \in Callers : d # c => calls'[d] = calls[d]
          /\ DOMAIN queries' = DOMAIN queries \ {calls[c].id}
      BY <1>7 DEF Return, EntriesAfter, NoCall, ProofTypeOK
    <3>2. \A d \in Callers : InMap(d) /\ d # c => calls[d].id # calls[c].id
      BY <1>7 DEF Return, InMap, CallsAreDistinct, ProofTypeOK, Call
    <3>3. QED
      BY <3>1, <3>2 DEF EntriesAreOfOpenCalls, InMap
  <2>4. IdsNameTheirCall'
    BY <1>7 DEF Return, EntriesAfter, IdsNameTheirCall
  <2>5. AnswersFollowQueries'
    BY <1>7 DEF Return, NoCall, AnswersFollowQueries, Sent, ProofTypeOK, Call
  <2>6. AnswersAreNotMissed'
    BY <1>7 DEF Return, NoCall, AnswersAreNotMissed, ProofTypeOK, Call
  <2>7. AnswerIsOwn'
    BY <1>7 DEF Return, NoCall, AnswerIsOwn, ProofTypeOK, Call
  <2>8. StopNeverPanics'
    BY <1>7 DEF Return, StopNeverPanics
  <2>9. QED
    BY <2>1, <2>2, <2>3, <2>4, <2>5, <2>6, <2>7, <2>8
<1>8. ASSUME NEW m \in network, ReceiveAnswer(m) PROVE DhtInv'
  <2> DEFINE n == [m EXCEPT !.left = @ - 1]
             h == [id |-> m.id, serial |-> m.serial, copy |-> m.left, ch |-> Lookup]
  <2>a. m \in Datagram
    BY DEF ProofTypeOK
  <2>b. /\ n \in Datagram /\ n.id = m.id /\ n.serial = m.serial
        /\ h \in Handler
    BY <2>a DEF Datagram, Handler
  <2>c. network' \subseteq network \cup {n} /\ handlers' = handlers \cup {h}
    BY <1>8 DEF ReceiveAnswer
  <2> HIDE DEF n
  <2>1. ProofTypeOK'
    BY <1>8, <2>b, <2>c DEF ReceiveAnswer, ProofTypeOK
  <2>2. CallsAreDistinct'
    BY <1>8 DEF ReceiveAnswer, CallsAreDistinct
  <2>3. EntriesAreOfOpenCalls'
    BY <1>8 DEF ReceiveAnswer, EntriesAreOfOpenCalls, InMap
  <2>4. IdsNameTheirCall'
    BY <1>8, <2>b, <2>c DEF ReceiveAnswer, IdsNameTheirCall
  <2>5. AnswersFollowQueries'
    BY <1>8, <2>b, <2>c DEF ReceiveAnswer, AnswersFollowQueries, Sent
  <2>6. AnswersAreNotMissed'
    BY <1>8 DEF ReceiveAnswer, AnswersAreNotMissed
  <2>7. AnswerIsOwn'
    BY <1>8 DEF ReceiveAnswer, AnswerIsOwn
  <2>8. StopNeverPanics'
    BY <1>8 DEF ReceiveAnswer, StopNeverPanics
  <2>9. QED
    BY <2>1, <2>2, <2>3, <2>4, <2>5, <2>6, <2>7, <2>8
<1>9. ASSUME NEW h \in handlers, LookUp(h) PROVE DhtInv'
  <2> DEFINE g == [h EXCEPT !.ch = queries[h.id]]
  <2>a. h \in Handler /\ h.serial = h.id + 1 /\ Sent(h.serial)
    BY DEF ProofTypeOK, IdsNameTheirCall, AnswersFollowQueries
  <2>b. h.id \in DOMAIN queries => queries[h.id] = h.serial
    BY <2>a DEF IdsNameTheirCall
  <2>c. /\ h.id \in DOMAIN queries => g \in Handler
        /\ g.id = h.id /\ g.serial = h.serial /\ g.ch = queries[h.id]
    BY <2>a, <2>b DEF Handler
  <2> HIDE DEF g
  <2>d. \/ h.id \in DOMAIN queries /\ handlers' = (handlers \ {h}) \cup {g} /\ unmatched' = unmatched
        \/ h.id \notin DOMAIN queries /\ handlers' = handlers \ {h} /\ unmatched' = unmatched \cup {h.serial}
    BY <1>9 DEF LookUp, ChannelOf, g
  <2>1. ProofTypeOK'
    BY <1>9, <2>a, <2>c, <2>d DEF LookUp, ProofTypeOK, Handler
  <2>2. CallsAreDistinct'
    BY <1>9 DEF LookUp, CallsAreDistinct
  <2>3. EntriesAreOfOpenCalls'
    BY <1>9 DEF LookUp, EntriesAreOfOpenCalls, InMap
  <2>4. IdsNameTheirCall'
    BY <1>9, <2>a, <2>b, <2>c, <2>d DEF LookUp, IdsNameTheirCall
  <2>5. AnswersFollowQueries'
    BY <1>9, <2>a, <2>c, <2>d DEF LookUp, AnswersFollowQueries, Sent
  <2>6. AnswersAreNotMissed'
    <3>1. ASSUME h.id \notin DOMAIN queries, NEW c \in Callers, calls[c].serial = h.serial
          PROVE calls[c].pc \notin {"issued", "registered", "waiting"}
      <4>1. calls[c].pc \notin {"issued", "registered"}
        BY <2>a, <3>1 DEF Sent
      <4>2. calls[c].pc = "waiting" => calls[c].id = h.id
        BY <2>a, <3>1 DEF CallsAreDistinct, Handler, Serials
      <4>3. calls[c].pc # "waiting"
        BY <3>1, <4>2 DEF EntriesAreOfOpenCalls, InMap
      <4>4. QED
        BY <4>1, <4>3
    <3>2. QED
      BY <1>9, <2>d, <3>1 DEF LookUp, AnswersAreNotMissed
  <2>7. AnswerIsOwn'
    BY <1>9 DEF LookUp, AnswerIsOwn
  <2>8. StopNeverPanics'
    BY <1>9 DEF LookUp, StopNeverPanics
  <2>9. QED
    BY <2>1, <2>2, <2>3, <2>4, <2>5, <2>6, <2>7, <2>8
<1>10. ASSUME NEW h \in handlers, Deliver(h) PROVE DhtInv'
  <2> DEFINE s == h.ch
  <2>a. h \in Handler /\ s \in Serials /\ h.serial = s
    BY <1>10 DEF Deliver, ProofTypeOK, IdsNameTheirCall, Handler
  <2>b. /\ chans[s] \in Seq(Serials) /\ Append(chans[s], s) \in Seq(Serials)
        /\ Len(Append(chans[s], s)) = Len(chans[s]) + 1
        /\ \A i \in 1..(Len(chans[s]) + 1) :
               Append(chans[s], s)[i] = IF i = Len(chans[s]) + 1 THEN s ELSE chans[s][i]
    BY <2>a DEF ProofTypeOK
  <2>c. chans' = [chans EXCEPT ![s] = Append(chans[s], s)] /\ handlers' \subseteq handlers
    BY <1>10, <2>a DEF Deliver
  <2> HIDE DEF s
  <2>1. ProofTypeOK'
    BY <1>10, <2>a, <2>b, <2>c DEF Deliver, ProofTypeOK
  <2>2. CallsAreDistinct'
    BY <1>10 DEF Deliver, CallsAreDistinct
  <2>3. EntriesAreOfOpenCalls'
    BY <1>10 DEF Deliver, EntriesAreOfOpenCalls, InMap
  <2>4. IdsNameTheirCall'
    <3>1. \A r \in Serials : \A i \in 1..Len(chans'[r]) : chans'[r][i] = r
      BY <2>a, <2>b, <2>c DEF IdsNameTheirCall, ProofTypeOK
    <3>2. QED
      BY <1>10, <2>c, <3>1 DEF Deliver, IdsNameTheirCall
  <2>5. AnswersFollowQueries'
    BY <1>10, <2>c DEF Deliver, AnswersFollowQueries, Sent
  <2>6. AnswersAreNotMissed'
    BY <1>10 DEF Deliver, AnswersAreNotMissed
  <2>7. AnswerIsOwn'
    BY <1>10 DEF Deliver, AnswerIsOwn
  <2>8. StopNeverPanics'
    BY <1>10 DEF Deliver, StopNeverPanics
  <2>9. QED
    BY <2>1, <2>2, <2>3, <2>4, <2>5, <2>6, <2>7, <2>8
<1>11. CASE Stop
  <2>1. ProofTypeOK'
    BY <1>11 DEF Stop, callVars, ProofTypeOK
  <2>2. CallsAreDistinct'
    BY <1>11 DEF Stop, callVars, CallsAreDistinct
  <2>3. EntriesAreOfOpenCalls'
    BY <1>11 DEF Stop, callVars, EntriesAreOfOpenCalls, InMap
  <2>4. IdsNameTheirCall'
    BY <1>11 DEF Stop, callVars, IdsNameTheirCall
  <2>5. AnswersFollowQueries'
    BY <1>11 DEF Stop, callVars, AnswersFollowQueries, Sent
  <2>6. AnswersAreNotMissed'
    BY <1>11 DEF Stop, callVars, AnswersAreNotMissed
  <2>7. AnswerIsOwn'
    BY <1>11 DEF Stop, callVars, AnswerIsOwn
  <2>8. StopNeverPanics'
    BY <1>11 DEF Stop, callVars, StopNeverPanics, ProofTypeOK
  <2>9. QED
    BY <2>1, <2>2, <2>3, <2>4, <2>5, <2>6, <2>7, <2>8
<1>12. CASE Cancel
  <2>1. ProofTypeOK'
    BY <1>12 DEF Cancel, callVars, ProofTypeOK
  <2>2. CallsAreDistinct'
    BY <1>12 DEF Cancel, callVars, CallsAreDistinct
  <2>3. EntriesAreOfOpenCalls'
    BY <1>12 DEF Cancel, callVars, EntriesAreOfOpenCalls, InMap
  <2>4. IdsNameTheirCall'
    BY <1>12 DEF Cancel, callVars, IdsNameTheirCall
  <2>5. AnswersFollowQueries'
    BY <1>12 DEF Cancel, callVars, AnswersFollowQueries, Sent
  <2>6. AnswersAreNotMissed'
    BY <1>12 DEF Cancel, callVars, AnswersAreNotMissed
  <2>7. AnswerIsOwn'
    BY <1>12 DEF Cancel, callVars, AnswerIsOwn
  <2>8. StopNeverPanics'
    BY <1>12 DEF Cancel, callVars, StopNeverPanics, ProofTypeOK
  <2>9. QED
    BY <2>1, <2>2, <2>3, <2>4, <2>5, <2>6, <2>7, <2>8
<1>13. CASE CloseSocket
  <2>1. ProofTypeOK'
    BY <1>13 DEF CloseSocket, MayClose, callVars, ProofTypeOK
  <2>2. CallsAreDistinct'
    BY <1>13 DEF CloseSocket, MayClose, callVars, CallsAreDistinct
  <2>3. EntriesAreOfOpenCalls'
    BY <1>13 DEF CloseSocket, MayClose, callVars, EntriesAreOfOpenCalls, InMap
  <2>4. IdsNameTheirCall'
    BY <1>13 DEF CloseSocket, MayClose, callVars, IdsNameTheirCall
  <2>5. AnswersFollowQueries'
    BY <1>13 DEF CloseSocket, MayClose, callVars, AnswersFollowQueries, Sent
  <2>6. AnswersAreNotMissed'
    BY <1>13 DEF CloseSocket, MayClose, callVars, AnswersAreNotMissed
  <2>7. AnswerIsOwn'
    BY <1>13 DEF CloseSocket, MayClose, callVars, AnswerIsOwn
  <2>8. StopNeverPanics'
    BY <1>13 DEF CloseSocket, MayClose, callVars, StopNeverPanics, ProofTypeOK
  <2>9. QED
    BY <2>1, <2>2, <2>3, <2>4, <2>5, <2>6, <2>7, <2>8
<1>14. CASE ReadStops
  <2>1. ProofTypeOK'
    BY <1>14 DEF ReadStops, callVars, ProofTypeOK
  <2>2. CallsAreDistinct'
    BY <1>14 DEF ReadStops, callVars, CallsAreDistinct
  <2>3. EntriesAreOfOpenCalls'
    BY <1>14 DEF ReadStops, callVars, EntriesAreOfOpenCalls, InMap
  <2>4. IdsNameTheirCall'
    BY <1>14 DEF ReadStops, callVars, IdsNameTheirCall
  <2>5. AnswersFollowQueries'
    BY <1>14 DEF ReadStops, callVars, AnswersFollowQueries, Sent
  <2>6. AnswersAreNotMissed'
    BY <1>14 DEF ReadStops, callVars, AnswersAreNotMissed
  <2>7. AnswerIsOwn'
    BY <1>14 DEF ReadStops, callVars, AnswerIsOwn
  <2>8. StopNeverPanics'
    BY <1>14 DEF ReadStops, callVars, StopNeverPanics, ProofTypeOK
  <2>9. QED
    BY <2>1, <2>2, <2>3, <2>4, <2>5, <2>6, <2>7, <2>8
<1>15. CASE ReadFails
  <2>1. ProofTypeOK'
    BY <1>15 DEF ReadFails, callVars, ProofTypeOK
  <2>2. CallsAreDistinct'
    BY <1>15 DEF ReadFails, callVars, CallsAreDistinct
  <2>3. EntriesAreOfOpenCalls'
    BY <1>15 DEF ReadFails, callVars, EntriesAreOfOpenCalls, InMap
  <2>4. IdsNameTheirCall'
    BY <1>15 DEF ReadFails, callVars, IdsNameTheirCall
  <2>5. AnswersFollowQueries'
    BY <1>15 DEF ReadFails, callVars, AnswersFollowQueries, Sent
  <2>6. AnswersAreNotMissed'
    BY <1>15 DEF ReadFails, callVars, AnswersAreNotMissed
  <2>7. AnswerIsOwn'
    BY <1>15 DEF ReadFails, callVars, AnswerIsOwn
  <2>8. StopNeverPanics'
    BY <1>15 DEF ReadFails, callVars, StopNeverPanics, ProofTypeOK
  <2>9. QED
    BY <2>1, <2>2, <2>3, <2>4, <2>5, <2>6, <2>7, <2>8
<1>16. CASE UNCHANGED dhtVars
  <2>1. ProofTypeOK'
    BY <1>16 DEF dhtVars, ProofTypeOK
  <2>2. CallsAreDistinct'
    BY <1>16 DEF dhtVars, CallsAreDistinct
  <2>3. EntriesAreOfOpenCalls'
    BY <1>16 DEF dhtVars, EntriesAreOfOpenCalls, InMap
  <2>4. IdsNameTheirCall'
    BY <1>16 DEF dhtVars, IdsNameTheirCall
  <2>5. AnswersFollowQueries'
    BY <1>16 DEF dhtVars, AnswersFollowQueries, Sent
  <2>6. AnswersAreNotMissed'
    BY <1>16 DEF dhtVars, AnswersAreNotMissed
  <2>7. AnswerIsOwn'
    BY <1>16 DEF dhtVars, AnswerIsOwn
  <2>8. StopNeverPanics'
    BY <1>16 DEF dhtVars, StopNeverPanics, ProofTypeOK
  <2>9. QED
    BY <2>1, <2>2, <2>3, <2>4, <2>5, <2>6, <2>7, <2>8
<1>17. QED
  BY <1>1, <1>2, <1>3, <1>4, <1>5, <1>6, <1>7, <1>8, <1>9, <1>10, <1>11, <1>12, <1>13, <1>14, <1>15, <1>16
     DEF DhtNext, CallRuns

\* The inductive invariant holds throughout, whatever the number of callers, queries and copies.
THEOREM DhtServerInvariant == DhtSpec => []DhtInv
<1>1. DhtInit => DhtInv
  BY DhtInitInv
<1>2. DhtInv /\ [DhtNext]_dhtVars => DhtInv'
  BY DhtNextInv
<1>3. QED
  BY <1>1, <1>2, PTL DEF DhtSpec

\* Query returns the answer to its own question, and nobody else's (server.go:149-195).
THEOREM AnswerIsOwnAlways == DhtSpec => []AnswerIsOwn
<1>1. DhtInv => AnswerIsOwn
  BY DEF DhtInv
<1>2. QED
  BY <1>1, DhtServerInvariant, PTL

\* handleResponse misses no answer whose call still waits (server.go:149-156 against 167-183).
THEOREM AnswersAreNotMissedAlways == DhtSpec => []AnswersAreNotMissed
<1>1. DhtInv => AnswersAreNotMissed
  BY DEF DhtInv
<1>2. QED
  BY <1>1, DhtServerInvariant, PTL

\* The map of open queries is exact and the shutdown never panics (server.go:29, 44-47, 79-81).
THEOREM ServerIsTidyAlways == DhtSpec => [](EntriesAreOfOpenCalls /\ StopNeverPanics)
<1>1. DhtInv => EntriesAreOfOpenCalls /\ StopNeverPanics
  BY DEF DhtInv
<1>2. QED
  BY <1>1, DhtServerInvariant, PTL
=============================================================================
