------------------------------ MODULE MCTunnel ------------------------------
(* Tunnels between nodes 1..N, at addresses "a1".."aN" to begin with. *)
EXTENDS Tunnel

CONSTANTS N, MaxEphemeral

MCNodes == 1 .. N
MCEphemerals == 0 .. MaxEphemeral
Home == <<"a1", "a2", "a3">>
MCAdvertised == [n \in Nodes |-> Home[n]]
HomesOnly == {Home[n] : n \in 1 .. N}
OneSpare == HomesOnly \cup {"spare"}
=============================================================================
