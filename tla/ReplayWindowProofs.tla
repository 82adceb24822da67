------------------------- MODULE ReplayWindowProofs -------------------------
(***************************************************************************)
(* Lemmas about the operators of ReplayWindow, for every window size: the  *)
(* ring arithmetic, what advancing clears, and that the result of          *)
(* check_and_update is a window again.                                     *)
(***************************************************************************)
EXTENDS ReplayWindow, TLAPS

(* The bit of a nonce exists (session.rs:31-34: nonce % WINDOW_BITS). *)
LEMMA SlotType ==
    ASSUME NEW n \in Nat
    PROVE  Slot(n) \in Slots
BY WindowAssumption, SMT DEF Slot, Slots

(* The arithmetic of the ring: nonces closer than WINDOW_BITS have          *)
(* different slots (session.rs:31-34).                                      *)
LEMMA SlotsDistinct ==
    ASSUME NEW m \in Nat, NEW n \in Nat, m < n, n - m < WINDOW_BITS
    PROVE  Slot(m) # Slot(n)
<1> DEFINE a == m \div WINDOW_BITS
           b == n \div WINDOW_BITS
<1>1. a \in Int /\ b \in Int /\ WINDOW_BITS \in Nat /\ WINDOW_BITS > 0
  BY WindowAssumption, SMT
<1>2. m = WINDOW_BITS * a + (m % WINDOW_BITS)
  BY WindowAssumption, SMT
<1>3. n = WINDOW_BITS * b + (n % WINDOW_BITS)
  BY WindowAssumption, SMT
<1>4. SUFFICES ASSUME m % WINDOW_BITS = n % WINDOW_BITS
               PROVE  FALSE
  BY DEF Slot
<1>5. n - m = WINDOW_BITS * b - WINDOW_BITS * a
  BY <1>1, <1>2, <1>3, <1>4, WindowAssumption, SMT
<1> HIDE DEF a, b
<1>6. n - m = WINDOW_BITS * (b - a)
  BY <1>1, <1>5, SMT
<1>7. b - a <= 0 => WINDOW_BITS * (b - a) <= 0
  BY <1>1, SMT
<1>8. b - a >= 1 => WINDOW_BITS * (b - a) >= WINDOW_BITS
  BY <1>1, SMT
<1> QED
  BY <1>1, <1>6, <1>7, <1>8, SMT

(* Advancing to nonce clears exactly the bits of the nonces that enter the  *)
(* window and none of those that stay in it (session.rs:61-72).             *)
LEMMA ExposedExact ==
    ASSUME NEW w \in Window, NEW nonce \in Nat, nonce > w.last,
           NEW n \in Nat, n <= nonce, nonce - n < WINDOW_BITS
    PROVE  Slot(n) \in Exposed(w, nonce) <=> n > w.last
<1>1. w.last \in Nat
  BY DEF Window
<1>2. CASE nonce - w.last >= WINDOW_BITS
  <2>1. n > w.last
    BY <1>1, <1>2, WindowAssumption, SMT
  <2> QED
    BY <1>2, <2>1, SlotType DEF Exposed
<1>3. CASE nonce - w.last < WINDOW_BITS
  <2>1. Exposed(w, nonce) = {Slot(k) : k \in w.last + 1 .. nonce}
    BY <1>1, <1>3, WindowAssumption, SMT DEF Exposed
  <2>2. ASSUME n > w.last PROVE Slot(n) \in Exposed(w, nonce)
    BY <1>1, <2>1, <2>2, SMT
  <2>3. ASSUME n <= w.last, Slot(n) \in Exposed(w, nonce) PROVE FALSE
    <3>1. PICK k \in w.last + 1 .. nonce : Slot(n) = Slot(k)
      BY <2>1, <2>3
    <3>2. k \in Nat /\ n < k /\ k - n < WINDOW_BITS
      BY <1>1, <2>3, <3>1, WindowAssumption, SMT
    <3> QED
      BY <3>1, <3>2, SlotsDistinct
  <2> QED
    BY <1>1, <2>2, <2>3, SMT
<1> QED
  BY <1>1, <1>2, <1>3, WindowAssumption, SMT

(* check_and_update keeps a window a window.                                *)
LEMMA UpdatedType ==
    ASSUME NEW w \in Window, NEW nonce \in Nat
    PROVE  Updated(w, nonce) \in Window
<1>1. Slot(nonce) \in Slots
  BY SlotType
<1> QED
  BY <1>1 DEF Updated, Window

(* What accepting a nonce does, in each of its three cases. *)
LEMMA AcceptedCases ==
    ASSUME NEW w \in Window, NEW nonce \in Nat, Accepts(w, nonce)
    PROVE  \/ /\ ~w.initialized
              /\ Updated(w, nonce) = [bitmap |-> w.bitmap \cup {Slot(nonce)}, last |-> nonce,
                                      initialized |-> TRUE]
           \/ /\ w.initialized /\ nonce > w.last
              /\ Updated(w, nonce) = [bitmap |-> (w.bitmap \ Exposed(w, nonce)) \cup {Slot(nonce)},
                                      last |-> nonce, initialized |-> TRUE]
           \/ /\ w.initialized /\ nonce <= w.last
              /\ Updated(w, nonce) = [bitmap |-> w.bitmap \cup {Slot(nonce)}, last |-> w.last,
                                      initialized |-> TRUE]
<1>1. w.last \in Nat /\ w.initialized \in BOOLEAN
  BY DEF Window
<1>2. CASE ~w.initialized
  BY <1>2 DEF Updated
<1>3. CASE w.initialized /\ nonce > w.last
  BY <1>3 DEF Updated, Window
<1>4. CASE w.initialized /\ ~(nonce > w.last)
  <2>1. nonce <= w.last
    BY <1>1, <1>4, SMT
  <2> QED
    BY <1>4, <2>1 DEF Updated, Window
<1> QED
  BY <1>1, <1>2, <1>3, <1>4

(* The highest nonce of a window is one that was accepted: the window runs *)
(* no further ahead than what arrives (session.rs:54-74).                  *)
LEMMA UpdatedLast ==
    ASSUME NEW w \in Window, NEW nonce \in Nat, Accepts(w, nonce)
    PROVE  \/ Updated(w, nonce).last = nonce
           \/ w.initialized /\ Updated(w, nonce).last = w.last
BY AcceptedCases

(* A nonce that was let through is refused from then on.                   *)
LEMMA AcceptedOnce ==
    ASSUME NEW w \in Window, NEW nonce \in Nat, Accepts(w, nonce)
    PROVE  ~Accepts(Updated(w, nonce), nonce)
<1>1. w.last \in Nat
  BY DEF Window
<1> QED
  BY <1>1, AcceptedCases DEF Accepts

(* What is refused stays refused, whatever else arrives: nothing that the  *)
(* window slides over is forgotten before it is too old (session.rs:61-78).*)
LEMMA RefusedStays ==
    ASSUME NEW w \in Window, NEW nonce \in Nat, Accepts(w, nonce),
           NEW old \in Nat, ~Accepts(w, old)
    PROVE  ~Accepts(Updated(w, nonce), old)
<1>1. /\ w.last \in Nat /\ w.initialized /\ old <= w.last
      /\ w.last - old < WINDOW_BITS => Slot(old) \in w.bitmap
  BY DEF Accepts, Window
<1>2. CASE nonce > w.last
  <2>1. Updated(w, nonce) = [bitmap |-> (w.bitmap \ Exposed(w, nonce)) \cup {Slot(nonce)},
                             last |-> nonce, initialized |-> TRUE]
    BY <1>1, <1>2 DEF Updated, Window
  <2>2. old <= nonce
    BY <1>1, <1>2, SMT
  <2>3. ASSUME nonce - old < WINDOW_BITS
        PROVE  Slot(old) \in Updated(w, nonce).bitmap
    <3>1. w.last - old < WINDOW_BITS
      BY <1>1, <1>2, <2>3, WindowAssumption, SMT
    <3>2. Slot(old) \notin Exposed(w, nonce)
      BY <1>1, <1>2, <2>2, <2>3, ExposedExact
    <3> QED
      BY <1>1, <2>1, <3>1, <3>2
  <2> QED
    BY <2>1, <2>2, <2>3 DEF Accepts
<1>3. CASE ~(nonce > w.last)
  <2>1. Updated(w, nonce) = [bitmap |-> w.bitmap \cup {Slot(nonce)}, last |-> w.last,
                             initialized |-> TRUE]
    BY <1>1, <1>3 DEF Updated, Window
  <2> QED
    BY <1>1, <2>1 DEF Accepts
<1> QED
  BY <1>2, <1>3

=============================================================================
