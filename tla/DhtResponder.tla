---------------------------- MODULE DhtResponder ----------------------------
(***************************************************************************)
(* internal/protocol/dht/responder and the server's handleQuery: each      *)
(* query of another node gets a goroutine that passes the limiter, is      *)
(* answered by the responder, may start a goroutine that offers the        *)
(* sender to the crawler, and sends one reply.                             *)
(***************************************************************************)
EXTENDS Integers, FiniteSets

CONSTANTS
    Goroutines,    \* handleQuery goroutines, one query each
    Askers,        \* the senders' IP addresses
    AskerIds,      \* the node ids they claim
    AskedHashes,   \* the info hashes they ask for
    PerIPBurst,    \* per-address burst of the limiter
    OverallBurst,  \* overall burst of the limiter
    OfferRoom      \* free places in the discovered-nodes channel

ASSUME DhtResponderAssumption ==
    PerIPBurst \in Nat /\ OverallBurst \in Nat /\ OfferRoom \in Nat

VARIABLES
    handling,      \* goroutine -> its query and how far it is
    ipLeft,        \* ip -> what is left of its burst
    allLeft,       \* what is left of the overall burst
    handedOut,     \* the announce tokens in replies so far
    announced,     \* the announced peers put into the table: <<hash, ip>>
    offers,        \* goroutine -> state of the node offer it started
    discovered     \* how many nodes the channel took

rspVars == <<handling, ipLeft, allLeft, handedOut, announced, offers, discovered>>

NoArg == "missing"
NoToken == <<>>
NoQuery == [pc |-> "none"]
Methods == {"ping", "find_node", "get_peers", "announce_peer", "sample_infohashes", "unknown"}

\* MUTANT: the token does not depend on the sender's address.
TokenOfId(hash, id, ip) == <<hash, id, "any">>

\* announceToken: a digest of the node's secret with hash, id and address; distinct here for distinct
\* arguments.
announceToken(hash, id, ip) == <<hash, id, ip>>

WithHash == {"find_node", "get_peers", "announce_peer"}

\* A query any node may send: its hash or target may be absent, its token is one that was handed out
\* or none.  Arguments its method does not read are left out.
Asked ==
    {q \in [method : Methods, ip : Askers, id : AskerIds,
            hash : AskedHashes \cup {NoArg}, token : handedOut \cup {NoToken}, readOnly : BOOLEAN] :
        /\ q.method \notin WithHash => q.hash = NoArg
        /\ q.method # "announce_peer" => q.token = NoToken}

RspTypeOK ==
    /\ \A g \in Goroutines : handling[g].pc \in {"none", "replying", "done"}
    /\ ipLeft \in [Askers -> 0..PerIPBurst] /\ allLeft \in 0..OverallBurst
    /\ announced \subseteq AskedHashes \X Askers
    /\ offers \in [Goroutines -> {"none", "offering", "taken", "dropped"}]
    /\ discovered \in 0..Cardinality(Goroutines)

-----------------------------------------------------------------------------
\* Allow: the address's limiter first, and the overall one only if it agrees.
AllowedByIP(ip) == ipLeft[ip] > 0
Allow(ip) == AllowedByIP(ip) /\ allLeft > 0

\* The errors of responder.Respond.
Refused(q) ==
    \/ q.method = "unknown"
    \/ q.method \in WithHash /\ q.hash = NoArg
    \/ q.method = "announce_peer" /\ q.token # announceToken(q.hash, q.id, q.ip)

\* responderNodeDiscovery: a good query of a node that is not read-only.
Offers(q, failed) == ~failed /\ ~q.readOnly

\* read starts the goroutine, whose first act is responderNodeDiscovery(responderLimiter(responder)).Respond.
HandleQuery(g, q) ==
    /\ handling[g] = NoQuery
    /\ LET failed == ~Allow(q.ip) \/ Refused(q)
       IN /\ ipLeft' = IF AllowedByIP(q.ip) THEN [ipLeft EXCEPT ![q.ip] = @ - 1] ELSE ipLeft
          /\ allLeft' = IF Allow(q.ip) THEN allLeft - 1 ELSE allLeft
          /\ handedOut' = IF ~failed /\ q.method = "get_peers"
                          THEN handedOut \cup {announceToken(q.hash, q.id, q.ip)} ELSE handedOut
          /\ announced' = IF ~failed /\ q.method = "announce_peer"
                          THEN announced \cup {<<q.hash, q.ip>>} ELSE announced
          /\ offers' = IF Offers(q, failed) THEN [offers EXCEPT ![g] = "offering"] ELSE offers
    /\ handling' = [handling EXCEPT ![g] = [pc |-> "replying", ip |-> q.ip]]
    /\ UNCHANGED discovered

\* The reply is sent or lost, and the deferred cancel ends the query's context.
SendReply(g) ==
    /\ handling[g].pc = "replying"
    /\ handling' = [handling EXCEPT ![g].pc = "done"]
    /\ UNCHANGED <<ipLeft, allLeft, handedOut, announced, offers, discovered>>

\* The discovered-nodes channel takes the node.
OfferTaken(g) ==
    /\ offers[g] = "offering"
    /\ discovered < OfferRoom
    /\ discovered' = discovered + 1
    /\ offers' = [offers EXCEPT ![g] = "taken"]
    /\ UNCHANGED <<handling, ipLeft, allLeft, handedOut, announced>>

\* The context of the offer ends: after a second, or as soon as handleQuery has returned, whose
\* context it derives from.
OfferDropped(g) ==
    /\ offers[g] = "offering"
    /\ offers' = [offers EXCEPT ![g] = "dropped"]
    /\ UNCHANGED <<handling, ipLeft, allLeft, handedOut, announced, discovered>>

RspInit ==
    /\ handling = [g \in Goroutines |-> NoQuery]
    /\ ipLeft = [ip \in Askers |-> PerIPBurst] /\ allLeft = OverallBurst
    /\ handedOut = {} /\ announced = {}
    /\ offers = [g \in Goroutines |-> "none"]
    /\ discovered = 0

RspStep(g) ==
    (\E q \in Asked : HandleQuery(g, q)) \/ SendReply(g) \/ OfferTaken(g) \/ OfferDropped(g)

RspNext == \E g \in Goroutines : RspStep(g)

RspSpec == RspInit /\ [][RspNext]_rspVars

-----------------------------------------------------------------------------
\* A peer is stored for a hash only at an address that asked for that hash before and was given a
\* token (responder.go:91, and the comment of announceToken).
AnnouncedWasInvited ==
    \A peer \in announced : \E id \in AskerIds : <<peer[1], id, peer[2]>> \in handedOut
=============================================================================
