---------------------------- MODULE PeerManager ----------------------------
(***************************************************************************)
(* The two calls of struct PeerManager (src/peer.rs) that loop over the    *)
(* peer table: find_best_peer_idx, which routes a packet, and sync_peers,  *)
(* which makes the table what the coordinator lists.  One action is one    *)
(* round of a loop.  The caller holds the manager's lock, so a call is not *)
(* disturbed by others.                                                    *)
(*                                                                         *)
(* A peer is what these calls see of it: its key, endpoint and subnets,    *)
(* and the sessions it has, which stand for all the rest of struct Peer.   *)
(* Descriptors that do not parse are left out.                             *)
(***************************************************************************)
EXTENDS Routing

CONSTANTS
    PeerKeys, Endpoints, Sessions,
    NoEndpoint,  \* an endpoint that is None
    NoSession,   \* the sessions of a new peer
    Lookups,     \* the calls of find_best_peer_idx: <<the table, dst_ip>>
    Syncs        \* the calls of sync_peers: <<the table, the descriptors>>

RouteList == Seq(Subnet)
Descriptor ==
    [key : PeerKeys, endpoint : Endpoints \cup {NoEndpoint}, allowed_ips : RouteList]
PeerEntry ==
    [key : PeerKeys, endpoint : Endpoints \cup {NoEndpoint}, allowed_ips : RouteList,
     session : Sessions \cup {NoSession}]

Keys(list) == {list[i].key : i \in DOMAIN list}

(* No key is listed twice. *)
Distinct(list) == \A i, j \in DOMAIN list : list[i].key = list[j].key => i = j

(* The table holds each key once: it began as the answer of a coordinator, *)
(* whose nodes are a map, and sync_peers keeps it so.                      *)
ASSUME PeerManagerAssumption ==
    /\ \A call \in Lookups : call[1] \in Seq(PeerEntry) /\ call[2] \in Address
    /\ \A call \in Syncs : /\ call[1] \in Seq(PeerEntry) /\ Distinct(call[1])
                           /\ call[2] \in Seq(Descriptor)

VARIABLES
    phase,      \* the loop the call is in, or how it has returned
    before,     \* the table when it was called
    dst_ip,     \* find_best_peer_idx: its argument
    wanted,     \* sync_peers: its argument
    idx, sub,   \* places in the lists that are looped over
    best_prefix_len, matched_peer_idx,
    after,          \* sync_peers: the table as it is now
    new_endpoints   \* the endpoints it will return, whose order is of no use

callVars == <<before, dst_ip, wanted>>
findVars == <<best_prefix_len, matched_peer_idx>>
syncVars == <<after, new_endpoints>>
managerVars == <<phase, callVars, idx, sub, findVars, syncVars>>

(* No call has been made. *)
ManagerIdle ==
    /\ phase = "idle" /\ before = <<>> /\ dst_ip = 0 /\ wanted = <<>>
    /\ idx = 1 /\ sub = 1
    /\ best_prefix_len = -1 /\ matched_peer_idx = 0
    /\ after = <<>> /\ new_endpoints = {}

ManagerInit ==
    /\ \/ /\ phase = "find" /\ wanted = <<>>
          /\ \E call \in Lookups : before = call[1] /\ dst_ip = call[2]
       \/ /\ phase = "retain" /\ dst_ip = 0
          /\ \E call \in Syncs : before = call[1] /\ wanted = call[2]
    /\ idx = 1 /\ sub = 1
    /\ best_prefix_len = -1 /\ matched_peer_idx = 0
    /\ after = <<>> /\ new_endpoints = {}

-----------------------------------------------------------------------------

InPeers == phase = "find" /\ idx \in DOMAIN before

(* Faulty variant of Compare: a later route of equal length wins. *)
CompareLast ==
    /\ InPeers /\ sub \in DOMAIN before[idx].allowed_ips
    /\ LET subnet == before[idx].allowed_ips[sub] IN
       IF Contains(subnet, dst_ip) /\ subnet.prefix_len >= best_prefix_len
       THEN best_prefix_len' = subnet.prefix_len /\ matched_peer_idx' = idx
       ELSE UNCHANGED findVars
    /\ sub' = sub + 1
    /\ UNCHANGED <<phase, callVars, idx, syncVars>>

(* The next subnet of a peer. *)
Compare ==
    /\ InPeers /\ sub \in DOMAIN before[idx].allowed_ips
    /\ LET subnet == before[idx].allowed_ips[sub] IN
       IF Contains(subnet, dst_ip) /\ subnet.prefix_len > best_prefix_len
       THEN best_prefix_len' = subnet.prefix_len /\ matched_peer_idx' = idx
       ELSE UNCHANGED findVars
    /\ sub' = sub + 1
    /\ UNCHANGED <<phase, callVars, idx, syncVars>>

(* The next peer. *)
NextPeer ==
    /\ InPeers /\ sub \notin DOMAIN before[idx].allowed_ips
    /\ idx' = idx + 1 /\ sub' = 1
    /\ UNCHANGED <<phase, callVars, findVars, syncVars>>

(* find_best_peer_idx returns matched_peer_idx; 0 is Rust's None. *)
Found ==
    /\ phase = "find" /\ idx \notin DOMAIN before
    /\ phase' = "found"
    /\ UNCHANGED <<callVars, idx, sub, findVars, syncVars>>

-----------------------------------------------------------------------------

(* The next peer stays if it is still listed. *)
Retain ==
    /\ phase = "retain" /\ idx \in DOMAIN before
    /\ after' = IF before[idx].key \in Keys(wanted) THEN Append(after, before[idx]) ELSE after
    /\ idx' = idx + 1
    /\ UNCHANGED <<phase, callVars, sub, findVars, new_endpoints>>

Retained ==
    /\ phase = "retain" /\ idx \notin DOMAIN before
    /\ phase' = "merge" /\ idx' = 1
    /\ UNCHANGED <<callVars, sub, findVars, syncVars>>

NewPeer(w) ==
    [key |-> w.key, endpoint |-> w.endpoint, allowed_ips |-> w.allowed_ips,
     session |-> NoSession]

(* A known peer is given what the descriptor says and keeps its sessions.  *)
Update(w) ==
    /\ \E i \in DOMAIN after :
        /\ after[i].key = w.key /\ \A j \in 1 .. i - 1 : after[j].key # w.key
        /\ after' = [after EXCEPT ![i].endpoint = w.endpoint,
                                  ![i].allowed_ips = w.allowed_ips]
    /\ UNCHANGED new_endpoints

(* An unknown one comes last. *)
Add(w) ==
    /\ w.key \notin Keys(after)
    /\ after' = Append(after, NewPeer(w))
    /\ new_endpoints' = new_endpoints \cup ({w.endpoint} \ {NoEndpoint})

(* Faulty variant of Merge: a known peer is replaced, not updated. *)
MergeReplaces ==
    /\ phase = "merge" /\ idx \in DOMAIN wanted
    /\ LET w == wanted[idx] IN
       \/ /\ \E i \in DOMAIN after :
                after[i].key = w.key /\ after' = [after EXCEPT ![i] = NewPeer(w)]
          /\ UNCHANGED new_endpoints
       \/ Add(w)
    /\ idx' = idx + 1
    /\ UNCHANGED <<phase, callVars, sub, findVars>>

(* The next descriptor. *)
Merge ==
    /\ phase = "merge" /\ idx \in DOMAIN wanted
    /\ Update(wanted[idx]) \/ Add(wanted[idx])
    /\ idx' = idx + 1
    /\ UNCHANGED <<phase, callVars, sub, findVars>>

(* sync_peers returns new_endpoints. *)
Synced ==
    /\ phase = "merge" /\ idx \notin DOMAIN wanted
    /\ phase' = "synced"
    /\ UNCHANGED <<callVars, idx, sub, findVars, syncVars>>

ManagerNext ==
    \/ Compare \/ NextPeer \/ Found
    \/ Retain \/ Retained \/ Merge \/ Synced

ManagerSpec == ManagerInit /\ [][ManagerNext]_managerVars

-----------------------------------------------------------------------------

(***************************************************************************)
(* find_best_peer_idx returns the first peer with the longest route        *)
(* (peer.rs:429-445).                                                      *)
(***************************************************************************)
LongestMatchFound == phase = "found" => LongestMatch(before, dst_ip, matched_peer_idx)

(* What the last of the first n descriptors of a key says is what counts.  *)
Says(n, d, peer) ==
    /\ d \in 1 .. n /\ wanted[d].key = peer.key
    /\ \A e \in d + 1 .. n : wanted[e].key # peer.key
    /\ peer.endpoint = wanted[d].endpoint /\ peer.allowed_ips = wanted[d].allowed_ips

(* The sessions are those the peer had, and none for a new peer.           *)
KeepsSession(peer) ==
    \/ \E p \in DOMAIN before : before[p].key = peer.key /\ before[p].session = peer.session
    \/ peer.key \notin Keys(before) /\ peer.session = NoSession

(* Known peers come first, in the order they had.                          *)
OrderKept ==
    \A i, j \in DOMAIN after : \A p \in DOMAIN before :
        i < j /\ after[j].key = before[p].key
            => \E q \in 1 .. p - 1 : after[i].key = before[q].key

(* The places among the first n descriptors that add a peer: the first of  *)
(* each key that was unknown.                                              *)
Adding(n) ==
    {d \in 1 .. n : /\ wanted[d].key \notin Keys(before)
                    /\ \A e \in 1 .. d - 1 : wanted[e].key # wanted[d].key}

(***************************************************************************)
(* "add peers we don't have, update the endpoint/allowed_ip of ones we do  *)
(* (keeping their live Noise sessions rather than tearing them down), and  *)
(* drop peers the coordinator no longer lists", and return "the endpoints  *)
(* of newly added peers" (peer.rs:385-391).                                *)
(***************************************************************************)
SyncReconciles ==
    phase = "synced" =>
        /\ Distinct(after) /\ Keys(after) = Keys(wanted)
        /\ \A i \in DOMAIN after :
            /\ \E d \in DOMAIN wanted : Says(Len(wanted), d, after[i])
            /\ KeepsSession(after[i])
        /\ OrderKept
        /\ new_endpoints = {wanted[d].endpoint : d \in Adding(Len(wanted))} \ {NoEndpoint}
=============================================================================
