---------------------------- MODULE ReplayFilter ----------------------------
(***************************************************************************)
(* One session's receive path reduced to its replay window: authenticated  *)
(* packets arrive in any order, any number of times, and check_and_update  *)
(* decides about each.                                                     *)
(***************************************************************************)
EXTENDS ReplayWindow

CONSTANT Nonces   \* the nonces the peer may have used

ASSUME NoncesAssumption == Nonces \subseteq Nat

VARIABLES
    window,   \* the session's ReplayWindow
    passed,   \* history: how often check_and_update returned true for a nonce
    refused   \* history: the nonces for which it returned false

vars == <<window, passed, refused>>

Init ==
    /\ window = NewWindow
    /\ passed = [n \in Nonces |-> 0]
    /\ refused = {}

(* check_and_update(nonce). *)
CheckAndUpdate(nonce) ==
    /\ window' = Updated(window, nonce)
    /\ passed' = IF Accepts(window, nonce) THEN [passed EXCEPT ![nonce] = @ + 1] ELSE passed
    /\ refused' = IF Accepts(window, nonce) THEN refused ELSE refused \cup {nonce}

Next == \E nonce \in Nonces : CheckAndUpdate(nonce)

Spec == Init /\ [][Next]_vars

Accepted == {n \in Nonces : passed[n] > 0}

(***************************************************************************)
(* The types, and a nonce is never let through twice.                      *)
(***************************************************************************)
TypeOK ==
    /\ window \in Window
    /\ passed \in [Nonces -> 0 .. 1]
    /\ refused \in SUBSET Nonces

(* "Highest nonce accepted so far" (session.rs:12). *)
LastIsHighest ==
    window.initialized =>
        /\ window.last \in Accepted
        /\ \A n \in Accepted : n <= window.last

(* Nothing has been recorded before the first packet (session.rs:14). *)
EmptyAtFirst == ~window.initialized => Accepted = {} /\ window.bitmap = {}

(* Inside the window the bitmap is exact. *)
BitmapExact ==
    window.initialized =>
        \A n \in Nonces :
            n <= window.last /\ window.last - n < WINDOW_BITS =>
                (Slot(n) \in window.bitmap <=> n \in Accepted)

(***************************************************************************)
(* No "stale bits from WINDOW_BITS ago" linger (session.rs:64) and none    *)
(* that is still needed is cleared: inside the window a nonce's bit is set *)
(* exactly when that nonce has been accepted, although every slot is       *)
(* shared by many nonces.                                                  *)
(***************************************************************************)
WindowExact == EmptyAtFirst /\ LastIsHighest /\ BitmapExact

(***************************************************************************)
(* check_and_update implements the promise of AtMostOnce: "a nonce is      *)
(* accepted at most once: duplicates and nonces older than the window are  *)
(* rejected" (session.rs:6-7), and nothing else is.                        *)
(***************************************************************************)
Promise == INSTANCE AtMostOnce WITH Depth <- WINDOW_BITS

ImplementsAtMostOnce == Promise!Spec
=============================================================================
