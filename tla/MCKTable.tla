------------------------------ MODULE MCKTable ------------------------------
(* KTable with identifiers of three bits; the remote nodes and hashes may have this node's own. *)
EXTENDS KTable

ktOrigin == <<1, 0, 0>>
ktIds == {<<0, 0, 1>>, <<0, 1, 1>>, <<0, 1, 0>>, ktOrigin}
ktHashes == {<<0, 1, 0>>, ktOrigin}
ktAddrs == {[ip |-> "a", port |-> 1], [ip |-> "a", port |-> 2], [ip |-> "b", port |-> 1]}
=============================================================================
