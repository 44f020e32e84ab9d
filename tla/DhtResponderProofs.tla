------------------------- MODULE DhtResponderProofs -------------------------
(***************************************************************************)
(* What other nodes may put into the routing table, for any number of      *)
(* queries, addresses, identifiers and hashes: the tokens handed out carry *)
(* the hash and the address they were asked with, and an announcement is   *)
(* accepted only with such a token.                                        *)
(***************************************************************************)
EXTENDS DhtResponder, TLAPS

\* The bursts never go below zero, so the limiter refuses what it must (limiter.go:50-52).
BurstsHold ==
    /\ ipLeft \in [Askers -> 0..PerIPBurst]
    /\ allLeft \in 0..OverallBurst

RspInv ==
    /\ BurstsHold
    /\ AnnouncedWasInvited

\* Nothing is handed out or announced at first.
LEMMA RspInitInv == RspInit => RspInv
<1> SUFFICES ASSUME RspInit PROVE RspInv
  OBVIOUS
<1>1. BurstsHold
  BY DhtResponderAssumption DEF RspInit, BurstsHold
<1>2. QED
  BY <1>1 DEF RspInit, RspInv, AnnouncedWasInvited

\* A query is the only step that changes the table or the tokens: an accepted announcement carries a
\* token that was handed out for its hash, its sender's identifier and its address.
LEMMA HandleQueryInv ==
    ASSUME RspInv, NEW g \in Goroutines, NEW q \in Asked, HandleQuery(g, q)
    PROVE  RspInv'
<1> DEFINE failed == ~Allow(q.ip) \/ Refused(q)
           token == announceToken(q.hash, q.id, q.ip)
<1>1. /\ q.ip \in Askers /\ q.id \in AskerIds
      /\ q.token \in handedOut \cup {NoToken}
  BY DEF Asked
<1>2. BurstsHold'
  BY <1>1, DhtResponderAssumption DEF HandleQuery, RspInv, BurstsHold, Allow, AllowedByIP
<1>3. handedOut' \in {handedOut, handedOut \cup {token}}
  BY DEF HandleQuery
<1>4. \/ announced' = announced
      \/ announced' = announced \cup {<<q.hash, q.ip>>} /\ token \in handedOut
  <2>1. CASE ~failed /\ q.method = "announce_peer"
    <3>1. q.token = token
      BY <2>1 DEF Refused
    <3>2. token # NoToken
      BY DEF announceToken, NoToken
    <3>3. announced' = announced \cup {<<q.hash, q.ip>>}
      BY <2>1 DEF HandleQuery
    <3>4. QED
      BY <1>1, <3>1, <3>2, <3>3
  <2>2. CASE ~(~failed /\ q.method = "announce_peer")
    BY <2>2 DEF HandleQuery
  <2>3. QED
    BY <2>1, <2>2
<1>5. AnnouncedWasInvited'
  <2>1. handedOut \subseteq handedOut'
    BY <1>3
  <2>2. ASSUME NEW peer \in announced PROVE \E id \in AskerIds : <<peer[1], id, peer[2]>> \in handedOut'
    BY <2>1 DEF RspInv, AnnouncedWasInvited
  <2>3. token \in handedOut =>
            \E id \in AskerIds : <<<<q.hash, q.ip>>[1], id, <<q.hash, q.ip>>[2]>> \in handedOut'
    BY <1>1, <2>1 DEF announceToken
  <2>4. QED
    BY <1>4, <2>2, <2>3 DEF AnnouncedWasInvited
<1>6. QED
  BY <1>2, <1>5 DEF RspInv

\* The other steps of a goroutine leave tokens, bursts and announcements alone.
LEMMA RspNextInv == RspInv /\ [RspNext]_rspVars => RspInv'
<1> SUFFICES ASSUME RspInv, [RspNext]_rspVars PROVE RspInv'
  OBVIOUS
<1>1. ASSUME NEW g \in Goroutines, NEW q \in Asked, HandleQuery(g, q) PROVE RspInv'
  BY <1>1, HandleQueryInv
<1>2. ASSUME NEW g \in Goroutines, SendReply(g) \/ OfferTaken(g) \/ OfferDropped(g) PROVE RspInv'
  <2>1. UNCHANGED <<ipLeft, allLeft, handedOut, announced>>
    BY <1>2 DEF SendReply, OfferTaken, OfferDropped
  <2>2. QED
    BY <2>1 DEF RspInv, BurstsHold, AnnouncedWasInvited
<1>3. CASE UNCHANGED rspVars
  BY <1>3 DEF rspVars, RspInv, BurstsHold, AnnouncedWasInvited
<1>4. QED
  BY <1>1, <1>2, <1>3 DEF RspNext, RspStep

\* A peer is stored only at an address that asked for the hash before and was given a token for it,
\* whatever the other nodes send (responder.go:91).
THEOREM AnnouncedWasInvitedAlways == RspSpec => []AnnouncedWasInvited
<1>1. RspInit => RspInv
  BY RspInitInv
<1>2. RspInv /\ [RspNext]_rspVars => RspInv'
  BY RspNextInv
<1>3. RspInv => AnnouncedWasInvited
  BY DEF RspInv
<1>4. QED
  BY <1>1, <1>2, <1>3, PTL DEF RspSpec
=============================================================================
