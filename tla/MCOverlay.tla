------------------------------ MODULE MCOverlay ------------------------------
(* A mesh of a few nodes, and calls of the functions on peer tables with   *)
(* bounded arguments.                                                      *)
EXTENDS Overlay, PeerManager

CONSTANTS a, b, c

(* The nodes are interchangeable: one pair stands for all.                 *)
OnePair == {<<a, b>>}

(* The sessions of a peer are called by its key.                           *)
Entry(key, endpoint, routes) ==
    [key |-> key, endpoint |-> endpoint, allowed_ips |-> routes, session |-> key]
Listed(key, endpoint, routes) ==
    [key |-> key, endpoint |-> endpoint, allowed_ips |-> routes]

Routes1 == {<<s>> : s \in Subnet}
Routes2 == Routes1 \cup {<<s, t>> : s, t \in Subnet}

(* Two peers with up to two subnets each, and three with one. *)
SmallTables ==
    {<<Entry(1, 1, r), Entry(2, 2, q)>> : r, q \in Routes2}
        \cup {<<Entry(1, 1, r), Entry(2, 2, q), Entry(3, 1, p)>> : r, q, p \in Routes1}

(* One address stands for all, since every subnet occurs: changing the     *)
(* same bits of an address and a subnet changes no comparison of the two.  *)
SmallLookups == SmallTables \X {1}

(* Lists of distinct peers, a table with one endpoint and route, and       *)
(* descriptors each with one of two.                                       *)
Orders == UNION {{o \in [1 .. k -> 1 .. 3] : \A i, j \in 1 .. k : i # j => o[i] # o[j]}
                    : k \in 0 .. 3}
HostRoute == <<[addr |-> 1, prefix_len |-> AddressBits]>>
DefaultRoute == <<[addr |-> 0, prefix_len |-> 0]>>

SmallSyncs ==
    {[i \in DOMAIN o |-> Entry(o[i], 1, HostRoute)] : o \in Orders}
        \X UNION {{[i \in DOMAIN o |-> IF same[i] THEN Listed(o[i], 1, HostRoute)
                                       ELSE Listed(o[i], none[i], DefaultRoute)]
                    : same \in [DOMAIN o -> BOOLEAN], none \in [DOMAIN o -> {2, NoEndpoint}]}
                    : o \in Orders}

-----------------------------------------------------------------------------

(* A behaviour is that of the mesh, or that of one call.                   *)
MCInit == MeshInit /\ (ManagerIdle \/ ManagerInit)

MCNext ==
    \/ phase = "idle" /\ MeshNext /\ UNCHANGED managerVars
    \/ ManagerNext /\ UNCHANGED meshVars

MCSpec == MCInit /\ [][MCNext]_<<meshVars, managerVars>> /\ MeshFairness
=============================================================================
