---------------------------- MODULE ReplayWindow ----------------------------
(***************************************************************************)
(* The sliding-window anti-replay filter of a session (src/session.rs).    *)
(* A constant-level data type: operators on window values, used by         *)
(* ReplayFilter, which runs one window alone, and by Peer, where every     *)
(* session carries one.                                                    *)
(*                                                                         *)
(* The [u64; 16] bitmap is the set of the slots whose bit is 1.            *)
(***************************************************************************)
EXTENDS Integers

CONSTANT WINDOW_BITS  \* nonces remembered below the highest one (1024 in the code)

ASSUME WindowAssumption == WINDOW_BITS \in Nat \ {0}

Slots == 0 .. WINDOW_BITS - 1

Slot(nonce) == nonce % WINDOW_BITS

Window == [bitmap : SUBSET Slots, last : Nat, initialized : BOOLEAN]

NewWindow == [bitmap |-> {}, last |-> 0, initialized |-> FALSE]

(* Faulty variants of Exposed, each of which a property must reject: the   *)
(* clearing loop starts at last instead of last + 1; a jump past the whole *)
(* window forgets to clear it.                                             *)
ExposedFromLast(w, nonce) ==
    IF nonce - w.last >= WINDOW_BITS THEN Slots ELSE {Slot(k) : k \in w.last .. nonce}
ExposedNoReset(w, nonce) ==
    IF nonce - w.last >= WINDOW_BITS THEN {} ELSE {Slot(k) : k \in w.last + 1 .. nonce}

(* The slots of the nonces that enter the window when it advances to nonce. *)
Exposed(w, nonce) ==
    IF nonce - w.last >= WINDOW_BITS
    THEN Slots
    ELSE {Slot(k) : k \in w.last + 1 .. nonce}

(* What check_and_update(nonce) returns. *)
Accepts(w, nonce) ==
    \/ ~w.initialized
    \/ nonce > w.last
    \/ w.last - nonce < WINDOW_BITS /\ Slot(nonce) \notin w.bitmap

(* Faulty variant of Updated: a late packet is let through unrecorded. *)
UpdatedForgetsLate(w, nonce) ==
    CASE ~w.initialized ->
            [bitmap |-> w.bitmap \cup {Slot(nonce)}, last |-> nonce, initialized |-> TRUE]
      [] w.initialized /\ nonce > w.last ->
            [w EXCEPT !.bitmap = (@ \ Exposed(w, nonce)) \cup {Slot(nonce)}, !.last = nonce]
      [] OTHER -> w

(* What check_and_update(nonce) leaves behind. *)
Updated(w, nonce) ==
    CASE ~Accepts(w, nonce) -> w
      [] ~w.initialized ->
            [bitmap |-> w.bitmap \cup {Slot(nonce)}, last |-> nonce, initialized |-> TRUE]
      [] w.initialized /\ nonce > w.last ->
            [w EXCEPT !.bitmap = (@ \ Exposed(w, nonce)) \cup {Slot(nonce)}, !.last = nonce]
      [] OTHER -> [w EXCEPT !.bitmap = @ \cup {Slot(nonce)}]
=============================================================================
