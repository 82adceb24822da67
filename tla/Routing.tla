------------------------------ MODULE Routing ------------------------------
(***************************************************************************)
(* Which peer of a table an address belongs to: Ipv4Subnet::contains       *)
(* (src/packet.rs), and what find_best_peer_idx (src/peer.rs) has to       *)
(* return.  A table is a sequence of peers, each with a sequence of        *)
(* subnets.  Addresses have AddressBits bits instead of 32.                *)
(***************************************************************************)
EXTENDS Integers, Sequences

CONSTANT AddressBits

ASSUME RoutingAssumption == AddressBits \in Nat \ {0}

Address == 0 .. 2^AddressBits - 1
Subnet == [addr : Address, prefix_len : 0 .. AddressBits]

(* The bits of ip that the mask of a prefix of this length keeps.          *)
Masked(ip, prefix_len) == ip \div 2^(AddressBits - prefix_len)

(* Faulty variant of Contains: the mask is one bit too short. *)
ContainsShort(subnet, ip) ==
    \/ subnet.prefix_len = 0
    \/ Masked(subnet.addr, subnet.prefix_len - 1) = Masked(ip, subnet.prefix_len - 1)

(* A prefix of length 0 is treated apart: its shift would overflow.        *)
Contains(subnet, ip) ==
    \/ subnet.prefix_len = 0
    \/ Masked(subnet.addr, subnet.prefix_len) = Masked(ip, subnet.prefix_len)

(* Whether the peer may use ip as a source. *)
Allows(peer, ip) == \E k \in DOMAIN peer.allowed_ips : Contains(peer.allowed_ips[k], ip)

(* The routes of the peer to ip: places in its list of subnets.            *)
Routes(peer, ip) == {k \in DOMAIN peer.allowed_ips : Contains(peer.allowed_ips[k], ip)}

(***************************************************************************)
(* "no incorrect matching or fallback behavior can leak packets destined   *)
(* for one peer to another peer" (AUDIT_PLAN.md:22): the peer found has    *)
(* the longest route of all and is the first of those with one as long;    *)
(* none (0) is found only when no peer has a route (peer.rs:429-445).      *)
(***************************************************************************)
LongestMatch(table, ip, found) ==
    \/ found = 0 /\ \A i \in DOMAIN table : Routes(table[i], ip) = {}
    \/ /\ found \in DOMAIN table
       /\ \E best \in Routes(table[found], ip) :
            LET longest == table[found].allowed_ips[best].prefix_len IN
            \A i \in DOMAIN table : \A k \in Routes(table[i], ip) :
                LET len == table[i].allowed_ips[k].prefix_len IN
                len <= longest /\ (i < found => len < longest)
=============================================================================
