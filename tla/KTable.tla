------------------------------- MODULE KTable -------------------------------
(***************************************************************************)
(* The Kademlia routing table of internal/protocol/dht/ktable and the      *)
(* callers that change it (the crawler's workers and the responder).       *)
(*                                                                         *)
(* A keyspace is two structures kept side by side: the map items and a     *)
(* binary tree over the XOR of an identifier with the origin.  The tree is *)
(* the set of its members with the set of paths at which it branches: a    *)
(* dropped member may leave branches that a tree built afresh would not    *)
(* have.  Two keyspaces (nodes, hashes) share one reverse map, keyed by IP *)
(* address without the port.                                               *)
(*                                                                         *)
(* The table's mutex makes each command one step; a ping is two, because   *)
(* the answer is awaited outside the mutex.  Any time may pass between two *)
(* steps, so the last answer of a node may always be older than the        *)
(* threshold of a caller, and the node's timestamps are left out.          *)
(***************************************************************************)
EXTENDS Integers, FiniteSets, Sequences, SequencesExt

CONSTANTS
    N,          \* the bits of an identifier (160)
    K,          \* nodesK and hashesK
    Origin,     \* this node's identifier
    NodeIds,    \* the identifiers remote nodes claim
    HashIds,    \* the info hashes announced or asked for
    Addrs,      \* remote addresses: records of an IP and a port
    Pingers     \* the workers of nodesForPing

ID == [1..N -> {0, 1}]
Zero == [i \in 1..N |-> 0]

ASSUME KTableAssumption ==
    /\ N \in Nat \ {0}
    /\ K \in Nat \ {0}
    /\ Origin \in ID
    /\ NodeIds \subseteq ID \ {Zero}
    /\ HashIds \subseteq ID

VARIABLES
    nodes,      \* nodeKeyspace.items: id -> the address of the node
    nodeTree,   \* nodeKeyspace.btree
    hashes,     \* hashKeyspace.items: id -> the IPs of its peers
    hashTree,   \* hashKeyspace.btree
    addrs,      \* reverseMap.addrs: IP -> the node and the hashes seen there
    pings       \* the node whose answer each ping worker waits for; Zero if unknown

ktVars == <<nodes, nodeTree, hashes, hashTree, addrs, pings>>

Ips == {addr.ip : addr \in Addrs}
InfoForAddr == [peerID : ID, hashes : SUBSET HashIds]
Idle == <<>>

KtTypeOK ==
    /\ DOMAIN nodes \subseteq NodeIds \ {Origin} /\ nodes \in [DOMAIN nodes -> Addrs]
    /\ DOMAIN hashes \subseteq HashIds /\ hashes \in [DOMAIN hashes -> SUBSET Ips]
    /\ DOMAIN addrs \subseteq Ips /\ addrs \in [DOMAIN addrs -> InfoForAddr]
    /\ pings \in [Pingers -> ID \cup {Idle}]

-----------------------------------------------------------------------------
(* The binary tree *)

Xor(a, b) == [i \in 1..N |-> (a[i] + b[i]) % 2]

Prefix(x, n) == SubSeq(x, 1, n)

CommonPrefix(x, y) ==
    CHOOSE n \in 0..N : /\ \A i \in 1..n : x[i] = y[i]
                        /\ n < N => x[n + 1] # y[n + 1]

LeadingZeros(x) == CommonPrefix(x, Zero)

\* x is nearer to the origin than y, both given as distances to it.
Nearer(x, y) == \E i \in 1..N : x[i] < y[i] /\ \A j \in 1..(i - 1) : x[j] = y[j]

EmptyTree == [xors |-> {}, branches |-> {}, bucketCounts |-> [b \in 0..(N - 1) |-> 0]]

Under(t, path) == {x \in t.xors : Prefix(x, Len(path)) = path}

\* The depth of the leaf, or of the empty node, that a search for x ends at.
LeafDepth(t, x) == CHOOSE n \in 0..N : /\ Prefix(x, n) \notin t.branches
                                       /\ \A m \in 0..(n - 1) : Prefix(x, m) \in t.branches

\* leafNode.put splits the leaf at every bit it shares with the newcomer.
PutXor(t, x) ==
    LET d == LeafDepth(t, x)
        leaf == Under(t, Prefix(x, d))
        shared == {n \in d..(N - 1) : \E y \in leaf : Prefix(y, n) = Prefix(x, n)}
    IN [xors |-> t.xors \cup {x},
        branches |-> t.branches \cup {Prefix(x, n) : n \in shared},
        bucketCounts |-> [t.bucketCounts EXCEPT ![LeadingZeros(x)] = @ + 1]]

\* MUTANT: the bucket keeps its count.
OneLessKept(counts, x) == counts

OneLess(counts, x) == [counts EXCEPT ![LeadingZeros(x)] = @ - 1]

\* Branches that only led to x go; the branch above them becomes a leaf if it has one member left.
DropXor(t, x) ==
    LET d == LeafDepth(t, x)
        top == CHOOSE n \in 0..d : /\ Under(t, Prefix(x, n)) = {x}
                                   /\ \A m \in 0..(n - 1) : Under(t, Prefix(x, m)) # {x}
        left == Under(t, Prefix(x, top - 1)) \ {x}
        cut == IF top > 0 /\ Cardinality(left) = 1 THEN top - 1 ELSE top
    IN [xors |-> t.xors \ {x},
        branches |-> {b \in t.branches : ~IsPrefix(Prefix(x, cut), b)},
        bucketCounts |-> OneLess(t.bucketCounts, x)]

\* The members in the subtrees nearer to the origin, and the leaf met last if it has every 1 of x.
CountCloserThan(t, x) ==
    LET d == LeafDepth(t, x)
    IN Cardinality({y \in t.xors :
           LET n == CommonPrefix(x, y)
           IN IF n < d THEN x[n + 1] = 1 ELSE \A i \in (d + 1)..N : x[i] = 1 => y[i] = 1})

\* MUTANT: one more member may be nearer.
NoPlaceBeyondK(t, x) == t.bucketCounts[LeadingZeros(x)] >= K /\ CountCloserThan(t, x) > K

\* The bucket is full and K members are nearer to the origin.
NoPlace(t, x) == t.bucketCounts[LeadingZeros(x)] >= K /\ CountCloserThan(t, x) >= K

PutResult(t, x) ==
    IF x = Zero THEN "rejected"
    ELSE IF x \in t.xors THEN "exists"
    ELSE IF NoPlace(t, x) THEN "rejected"
    ELSE "accepted"

AfterPut(t, x) == IF PutResult(t, x) = "accepted" THEN PutXor(t, x) ELSE t

\* MUTANT: the sibling comes before the subtree of the target.
NearThenFarSwapped(near, far) == far \o near

NearThenFar(near, far) == near \o far

\* The subtree of the target first, then at each level above it the sibling, 0 before 1.
XorsClosestTo(t, x) ==
    LET From[n \in 0..N] ==
            IF Prefix(x, n) \notin t.branches
            THEN SetToSeq(Under(t, Prefix(x, n)))
            ELSE NearThenFar(From[n + 1],
                             SetToSortSeq(Under(t, Prefix(x, n) \o <<1 - x[n + 1]>>), Nearer))
    IN From[0]

Closest(t, id, count) ==
    LET xs == XorsClosestTo(t, Xor(id, Origin))
    IN SubSeq(xs, 1, IF Len(xs) < count THEN Len(xs) ELSE count)

-----------------------------------------------------------------------------
(* The reverse map *)

Without(f, S) == [x \in DOMAIN f \ S |-> f[x]]
With(f, x, v) == [y \in DOMAIN f \cup {x} |-> IF y = x THEN v ELSE f[y]]

PutAddrPeerID(m, ip, id) ==
    With(m, ip, [peerID |-> id, hashes |-> IF ip \in DOMAIN m THEN m[ip].hashes ELSE {}])

PutAddrsHash(m, S, h) ==
    [ip \in DOMAIN m \cup S |->
        [peerID |-> IF ip \in DOMAIN m THEN m[ip].peerID ELSE Zero,
         hashes |-> (IF ip \in DOMAIN m THEN m[ip].hashes ELSE {}) \cup (IF ip \in S THEN {h} ELSE {})]]

DropAddrFrom(m, ip) == Without(m, {ip})

-----------------------------------------------------------------------------
(* Commands *)

\* A node seen for the first time is not entered into the reverse map; a later answer enters it.
PutNode(id, addr) ==
    LET x == Xor(id, Origin)
        result == PutResult(nodeTree, x)
        moved == id \in DOMAIN nodes /\ nodes[id] # addr
        kept == IF moved THEN DropAddrFrom(addrs, nodes[id].ip) ELSE addrs
    IN /\ nodeTree' = AfterPut(nodeTree, x)
       /\ nodes' = IF result = "rejected" THEN nodes ELSE With(nodes, id, addr)
       /\ addrs' = IF result = "exists" THEN PutAddrPeerID(kept, addr.ip, id) ELSE addrs
       /\ UNCHANGED <<hashes, hashTree>>

DropNode(id) ==
    /\ IF id \in DOMAIN nodes
       THEN /\ nodes' = Without(nodes, {id})
            /\ nodeTree' = DropXor(nodeTree, Xor(id, Origin))
            /\ addrs' = DropAddrFrom(addrs, nodes[id].ip)
       ELSE UNCHANGED <<nodes, nodeTree, addrs>>
    /\ UNCHANGED <<hashes, hashTree>>

PeerIDForAddr(ip) == IF ip \in DOMAIN addrs THEN addrs[ip].peerID ELSE Zero

DropAddr(ip) == DropNode(PeerIDForAddr(ip))

PeersAfter(h, peers) == (IF h \in DOMAIN hashes THEN hashes[h] ELSE {}) \cup peers

PutHash(h, peers) ==
    LET x == Xor(h, Origin)
        result == PutResult(hashTree, x)
    IN /\ hashTree' = AfterPut(hashTree, x)
       /\ hashes' = IF result = "rejected" THEN hashes ELSE With(hashes, h, PeersAfter(h, peers))
       /\ addrs' = IF result = "rejected" THEN addrs ELSE PutAddrsHash(addrs, peers, h)
       /\ UNCHANGED <<nodes, nodeTree>>

\* admitNodeFromReply: a read-only node is evicted, any other enters or is refreshed.
Admit(id, addr, readOnly) == IF readOnly THEN DropNode(id) ELSE PutNode(id, addr)

-----------------------------------------------------------------------------
(* The callers *)

\* An answer to find_node, sample_infohashes, get_peers or a scrape.
Reply(id, addr, readOnly) == Admit(id, addr, readOnly) /\ UNCHANGED pings

\* find_node and sample_infohashes drop the node they asked; it may be gone by then.
NodeFails(id) == DropNode(id) /\ UNCHANGED pings

\* get_peers and a scrape know only the address they asked.
AddrFails(ip) == DropAddr(ip) /\ UNCHANGED pings

\* Peers found by get_peers, or a peer that announced itself.
LearnPeers(h, peers) == PutHash(h, peers) /\ UNCHANGED pings

\* getOldNodes hands a node of the table to a ping worker, runDiscoveredNodes any node it was told of,
\* reseedBootstrapNodes an address whose identifier is not known (Zero).
StartPing(w, id) ==
    /\ pings[w] = Idle
    /\ pings' = [pings EXCEPT ![w] = id]
    /\ UNCHANGED <<nodes, nodeTree, hashes, hashTree, addrs>>

EndPing(w) == pings[w] # Idle /\ pings' = [pings EXCEPT ![w] = Idle]

\* The answer of a node that calls itself id, at the address last recorded for the node pinged:
\* other workers may have moved or replaced it since.
PingAnswered(w, id, addr, readOnly) ==
    /\ EndPing(w)
    /\ IF pings[w] \notin {Zero, id} THEN DropNode(pings[w]) ELSE Admit(id, addr, readOnly)

\* The variable nodeID is only assigned when the ping succeeded.
PingFailed(w) == EndPing(w) /\ DropNode(Zero)

KtInit ==
    /\ nodes = <<>> /\ nodeTree = EmptyTree
    /\ hashes = <<>> /\ hashTree = EmptyTree
    /\ addrs = <<>>
    /\ pings = [w \in Pingers |-> Idle]

KtNext ==
    \/ \E id \in NodeIds, addr \in Addrs, ro \in BOOLEAN : Reply(id, addr, ro)
    \/ \E id \in NodeIds : NodeFails(id)
    \/ \E ip \in Ips : AddrFails(ip)
    \/ \E h \in HashIds, peers \in SUBSET Ips \ {{}} : LearnPeers(h, peers)
    \/ \E w \in Pingers, id \in NodeIds \cup {Zero} : StartPing(w, id)
    \/ \E w \in Pingers, id \in NodeIds, addr \in Addrs, ro \in BOOLEAN :
           PingAnswered(w, id, addr, ro)
    \/ \E w \in Pingers : PingFailed(w)

KtSpec == KtInit /\ [][KtNext]_ktVars

-----------------------------------------------------------------------------
(* Properties *)

\* The map and the tree of each keyspace hold the same identifiers, the cached bucket counts are
\* the true ones, and the search for a member ends at the leaf of that member alone: getClosest looks
\* every member of the tree up in the map and would dereference nil for one that is missing.
TreesMatchItems ==
    \A k \in {<<DOMAIN nodes, nodeTree>>, <<DOMAIN hashes, hashTree>>} :
        /\ k[2].xors = {Xor(id, Origin) : id \in k[1]}
        /\ \A b \in 0..(N - 1) :
               k[2].bucketCounts[b] = Cardinality({x \in k[2].xors : LeadingZeros(x) = b})
        /\ \A x \in k[2].xors : Under(k[2], Prefix(x, LeafDepth(k[2], x))) = {x}

\* Where the reverse map names a node, that node is in the table and at that IP, and a hash it lists
\* has a peer there: DropAddr, which a failed get_peers or scrape issues, never evicts a node that has
\* moved to another address.
ReverseMapAgrees ==
    \A ip \in DOMAIN addrs :
        /\ addrs[ip].peerID # Zero =>
               addrs[ip].peerID \in DOMAIN nodes /\ nodes[addrs[ip].peerID].ip = ip
        /\ \A h \in addrs[ip].hashes : h \in DOMAIN hashes /\ ip \in hashes[h]

\* The four structures of the table agree with each other after every sequence of commands, those of
\* pings and lookups that end late included (ktable/keyspace.go, node.go, hash.go, table.go).
TableAgrees == TreesMatchItems /\ ReverseMapAgrees

\* Closest returns as many members as asked for, none twice, and no member left out
\* shares a longer prefix with the target than one returned.
ClosestSharesLongestPrefix ==
    \A count \in 1..Cardinality(nodeTree.xors) : \A id \in ID :
        LET x == Xor(id, Origin)
            got == Closest(nodeTree, id, count)
            S == {got[i] : i \in DOMAIN got}
        IN /\ S \subseteq nodeTree.xors
           /\ Len(got) = count /\ Cardinality(S) = count
           /\ \A y \in S, z \in nodeTree.xors \ S : CommonPrefix(x, y) >= CommonPrefix(x, z)

\* A node enters a full bucket only while at most K members are nearer to the origin: the test of
\* rootNode.Put counts one leaf wrongly, and its error is never more than one member.
FullBucketAdmitsNear ==
    [][\A x \in nodeTree'.xors \ nodeTree.xors :
          \/ nodeTree.bucketCounts[LeadingZeros(x)] < K
          \/ Cardinality({y \in nodeTree.xors : Nearer(y, x)}) <= K]_ktVars

\* ktable/table.go says stale nodes "get evicted on PING failure": the node whose ping failed is
\* not in the table after the step that handles the failure.
PingFailureEvicts ==
    [][\A w \in Pingers : PingFailed(w) => pings[w] \notin DOMAIN nodes']_ktVars
=============================================================================
