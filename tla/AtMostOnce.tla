----------------------------- MODULE AtMostOnce -----------------------------
(***************************************************************************)
(* What a replay filter promises, without saying how: a nonce passes at    *)
(* most once, and only two kinds of packet may be refused, a duplicate and *)
(* one that is at least Depth nonces older than something that passed.     *)
(***************************************************************************)
EXTENDS Integers

CONSTANTS
    Nonces,  \* the nonces packets may carry
    Depth    \* how far behind the newest nonce a fresh one may still arrive

VARIABLES
    passed,  \* how many times each nonce has been let through
    refused  \* the nonces that have been refused at least once

vars == <<passed, refused>>

Init ==
    /\ passed = [n \in Nonces |-> 0]
    /\ refused = {}

Pass(nonce) ==
    /\ passed[nonce] = 0
    /\ passed' = [passed EXCEPT ![nonce] = 1]
    /\ UNCHANGED refused

Refuse(nonce) ==
    /\ \/ passed[nonce] > 0
       \/ \E newer \in Nonces : passed[newer] > 0 /\ newer - nonce >= Depth
    /\ refused' = refused \cup {nonce}
    /\ UNCHANGED passed

Next == \E nonce \in Nonces : Pass(nonce) \/ Refuse(nonce)

Spec == Init /\ [][Next]_vars
=============================================================================
