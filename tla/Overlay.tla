------------------------------ MODULE Overlay ------------------------------
(***************************************************************************)
(* The peer tables that come out of Mesh, used as the TUN and UDP tasks    *)
(* use them (module Routing): which key a packet is encrypted for, and     *)
(* from which peer one is accepted.                                        *)
(***************************************************************************)
EXTENDS Mesh, Routing
SeqExt == INSTANCE SequencesExt

ASSUME OverlayAssumption == Pool \subseteq Address

(* The coordinator advertises a host route for each node. *)
Host(key, ip) ==
    [key |-> key,
     allowed_ips |-> <<[addr |-> ip, prefix_len |-> AddressBits]>>]

(* Daemon n's table.  The coordinator lists a hash map, so that any order  *)
(* is possible.                                                            *)
Tables(n) ==
    {[i \in DOMAIN order |-> Host(order[i], peers[n][order[i]])]
        : order \in SeqExt!SetToSeqs({m \in Nodes : peers[n][m] # None})}

(***************************************************************************)
(* "packets are routed to the correct peer based on the destination IP"    *)
(* (README.md:10), and a source is accepted from its owner only            *)
(* (daemon.rs:777, 803): a packet for the address that daemon m uses is    *)
(* encrypted for m, and one that claims to come from there has to be       *)
(* encrypted by m, in every other daemon; nobody else can take a daemon's  *)
(* own address, either.                                                    *)
(***************************************************************************)
CryptokeyRouting ==
    \A n, m \in {k \in Nodes : Running(k)} : \A table \in Tables(n) :
        /\ \A found \in DOMAIN table :
                LongestMatch(table, address[m], found) => table[found].key = m
        /\ \A i \in DOMAIN table : Allows(table[i], address[m]) => table[i].key = m
=============================================================================
