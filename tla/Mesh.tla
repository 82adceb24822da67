-------------------------------- MODULE Mesh --------------------------------
(***************************************************************************)
(* The coordinator's registry composed with the daemons' peer tables:      *)
(* peers_for (src/coordinator.rs) answers a registration and every poll    *)
(* with the other nodes, and sync_peers (src/peer.rs) makes the answer the *)
(* daemon's table.  An answer to a poll travels, so that the table it      *)
(* replaces may be newer than what it says.                                *)
(*                                                                         *)
(* A table is a function of the node; the order of its entries, which only *)
(* decides between equal routes, is left to module Overlay.                *)
(***************************************************************************)
EXTENDS Registry

CONSTANTS
    NoAnswer,  \* no answer is on its way
    Watched    \* the pairs of daemons whose getting to know each other is checked

ASSUME MeshAssumption == NoAnswer \notin Table /\ Watched \subseteq Nodes \X Nodes

VARIABLES
    peers,   \* each daemon's peer table: the allowed_ip of its peers
    answer,  \* the answer to the daemon's poll, not read yet
    book     \* history: the registry's table when it last answered

meshVars == <<vars, peers, answer, book>>

Running(n) == address[n] # None

MeshTypeOK ==
    /\ TypeOK
    /\ peers \in [Nodes -> Table]
    /\ answer \in [Nodes -> Table \cup {NoAnswer}]
    /\ book \in Table

MeshInit ==
    /\ Init
    /\ peers = [n \in Nodes |-> Empty]
    /\ answer = [n \in Nodes |-> NoAnswer]
    /\ book = Empty

(* peers_for: every other node. *)
PeersFor(n) == [m \in Nodes |-> IF m = n THEN None ELSE nodes[m]]

MeshRegister(n) == Register(n) /\ UNCHANGED <<peers, answer, book>>

(* The poll task asks again only after it has read an answer. *)
MeshPoll(n) ==
    /\ answer[n] = NoAnswer
    /\ Poll(n)
    /\ UNCHANGED <<peers, answer, book>>

(* The handler replies: a daemon that registers starts with the table in   *)
(* the reply; one that polls and has stopped meanwhile gets nothing.       *)
MeshReply ==
    /\ Reply
    /\ book' = nodes
    /\ LET n == job.node IN
       IF job.kind = "register"
       THEN /\ peers' = [peers EXCEPT ![n] = PeersFor(n)]
            /\ UNCHANGED answer
       ELSE /\ answer' = IF Running(n) THEN [answer EXCEPT ![n] = PeersFor(n)] ELSE answer
            /\ UNCHANGED peers

(* Faulty variant of Sync: peers the table does not have are not added.    *)
SyncNoAdd(n) ==
    /\ answer[n] # NoAnswer
    /\ peers' = [peers EXCEPT ![n] =
                    [m \in Nodes |-> IF peers[n][m] # None THEN answer[n][m] ELSE None]]
    /\ answer' = [answer EXCEPT ![n] = NoAnswer]
    /\ UNCHANGED <<vars, book>>

(* The poll task reads the answer: sync_peers. *)
Sync(n) ==
    /\ answer[n] # NoAnswer
    /\ peers' = [peers EXCEPT ![n] = answer[n]]
    /\ answer' = [answer EXCEPT ![n] = NoAnswer]
    /\ UNCHANGED <<vars, book>>

MeshLimitOver(n) == LimitOver(n) /\ UNCHANGED <<peers, answer, book>>

MeshDaemonStops(n) ==
    /\ DaemonStops(n)
    /\ peers' = [peers EXCEPT ![n] = Empty]
    /\ answer' = [answer EXCEPT ![n] = NoAnswer]
    /\ UNCHANGED book

Coordinator == (WriteError \/ Crash \/ Start) /\ UNCHANGED <<peers, answer, book>>

MeshNext ==
    \/ \E n \in Nodes :
        \/ MeshRegister(n) \/ MeshPoll(n) \/ Sync(n)
        \/ MeshLimitOver(n) \/ MeshDaemonStops(n)
    \/ MeshReply
    \/ Coordinator

MeshSpec == MeshInit /\ [][MeshNext]_meshVars

(* A daemon polls every 10 s and the registry's lock serves the requests   *)
(* in turn, so that no daemon is left out for ever.                        *)
MeshFairness ==
    /\ WF_meshVars(MeshReply)
    /\ WF_meshVars(Start /\ UNCHANGED <<peers, answer, book>>)
    /\ \A n \in Nodes : SF_meshVars(MeshPoll(n)) /\ WF_meshVars(Sync(n))

-----------------------------------------------------------------------------

(* What daemon n believes: its own address, and those in its peer table.   *)
View(n) == [m \in Nodes |-> IF m = n THEN address[n] ELSE peers[n][m]]

Book == INSTANCE AddressBook WITH
            Addresses <- Pool,
            view <- [n \in Nodes |-> View(n)]

(***************************************************************************)
(* Registry, state file, polls and tables together implement the address   *)
(* book: what a daemon believes about addresses, however old the answer it *)
(* was told it in, is never contradicted by a later allocation, whatever   *)
(* crashes come between (coordinator.rs:118-171, peer.rs:392-427).         *)
(***************************************************************************)
ImplementsAddressBook == Book!Spec

(***************************************************************************)
(* "Dynamic peer synchronisation" (README.md:15): two daemons that keep    *)
(* running come to know each other, without a restart, unless the          *)
(* coordinator is down for good because its state file is torn.  It relies *)
(* on every poll request ending, for which the code sets no time limit     *)
(* (daemon.rs:885): it does when the coordinator's process crashes, whose  *)
(* connections the system closes, but not when its host falls silent.      *)
(***************************************************************************)
Known(n, m) == peers[n][m] = address[m]
DownForGood == ~up /\ file = Torn

MeshConverges ==
    \A pair \in Watched :
        LET n == pair[1]  m == pair[2]
        IN Running(n) /\ Running(m)
            ~> Known(n, m) \/ ~Running(n) \/ ~Running(m) \/ DownForGood
=============================================================================
