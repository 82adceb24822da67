---------------------------- MODULE AddressBook ----------------------------
(***************************************************************************)
(* What the coordinator and the daemons' peer tables promise together,     *)
(* without requests, files or crashes: there is one book of addresses in   *)
(* which nothing is ever changed or given twice, and everything a daemon   *)
(* believes about addresses, its own included, is in the book.  A daemon   *)
(* may be behind; it cannot be wrong.                                      *)
(***************************************************************************)
CONSTANTS
    Nodes,      \* the public keys
    Addresses,  \* the overlay addresses
    None        \* no address

VARIABLES
    book,  \* the address of each node that has one
    view   \* view[n][m]: the address daemon n believes m to have

vars == <<book, view>>

Table == [Nodes -> Addresses \cup {None}]
Empty == [n \in Nodes |-> None]

Init == book = Empty /\ view = [n \in Nodes |-> Empty]

Within(part, table) == \A m \in Nodes : part[m] \in {None, table[m]}
Injective(table) == \A n, m \in Nodes : n # m /\ table[n] # None => table[n] # table[m]

(* Addresses are entered in the book; a daemon looks at some of it, or     *)
(* forgets.                                                                *)
Look(n) ==
    /\ book' \in Table /\ Within(book, book') /\ Injective(book')
    /\ view'[n] \in Table /\ Within(view'[n], book')
    /\ view' = [view EXCEPT ![n] = view'[n]]

Next == \E n \in Nodes : Look(n)

Spec == Init /\ [][Next]_vars
=============================================================================
