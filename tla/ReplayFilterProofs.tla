------------------------- MODULE ReplayFilterProofs -------------------------
(***************************************************************************)
(* For every window size and every set of nonces: the bitmap of            *)
(* session.rs is exact inside the window, and check_and_update implements  *)
(* AtMostOnce.                                                             *)
(*                                                                         *)
(* The argument.  Two nonces less than WINDOW_BITS apart never share a     *)
(* slot (SlotsDistinct), so a bit inside the window belongs to one nonce   *)
(* only.  WindowExact is inductive together with TypeOK, and it says what  *)
(* the verdict must be: below the window every refusal is of a nonce at    *)
(* least WINDOW_BITS older than last, which was accepted; inside it, of an *)
(* accepted nonce; above it nothing is refused.                            *)
(***************************************************************************)
EXTENDS ReplayFilter, ReplayWindowProofs

-----------------------------------------------------------------------------

(* What a call does in each of its four outcomes, in the terms the          *)
(* invariant is stated in.                                                  *)
LEMMA FirstPacket ==
    ASSUME NEW nonce \in Nonces, ~window.initialized, CheckAndUpdate(nonce)
    PROVE  /\ window' = [bitmap |-> window.bitmap \cup {Slot(nonce)}, last |-> nonce,
                          initialized |-> TRUE]
           /\ passed' = [passed EXCEPT ![nonce] = @ + 1]
           /\ refused' = refused
BY DEF CheckAndUpdate, Updated, Accepts

(* A nonce above the highest one slides the window. *)
LEMMA NewerPacket ==
    ASSUME TypeOK, NEW nonce \in Nonces, window.initialized, nonce > window.last,
           CheckAndUpdate(nonce)
    PROVE  /\ window' = [bitmap |-> (window.bitmap \ Exposed(window, nonce)) \cup {Slot(nonce)},
                          last |-> nonce, initialized |-> TRUE]
           /\ passed' = [passed EXCEPT ![nonce] = @ + 1]
           /\ refused' = refused
BY DEF CheckAndUpdate, Updated, Accepts, TypeOK, Window

(* A nonce inside the window sets its bit. *)
LEMMA LatePacket ==
    ASSUME TypeOK, NEW nonce \in Nonces, window.initialized, ~(nonce > window.last),
           Accepts(window, nonce), CheckAndUpdate(nonce)
    PROVE  /\ window.last - nonce < WINDOW_BITS
           /\ Slot(nonce) \notin window.bitmap
           /\ window' = [bitmap |-> window.bitmap \cup {Slot(nonce)}, last |-> window.last,
                          initialized |-> TRUE]
           /\ passed' = [passed EXCEPT ![nonce] = @ + 1]
           /\ refused' = refused
BY DEF CheckAndUpdate, Updated, Accepts, TypeOK, Window

(* A refused nonce changes nothing. *)
LEMMA RefusedPacket ==
    ASSUME NEW nonce \in Nonces, ~Accepts(window, nonce), CheckAndUpdate(nonce)
    PROVE  /\ window.initialized
           /\ ~(nonce > window.last)
           /\ window.last - nonce < WINDOW_BITS => Slot(nonce) \in window.bitmap
           /\ window' = window
           /\ passed' = passed
           /\ refused' = refused \cup {nonce}
BY DEF CheckAndUpdate, Updated, Accepts

(* A packet that is let through has not been let through before.            *)
LEMMA AcceptedFresh ==
    ASSUME TypeOK, WindowExact, NEW nonce \in Nonces, Accepts(window, nonce)
    PROVE  passed[nonce] = 0
<1>1. nonce \in Nat /\ window.last \in Nat /\ passed[nonce] \in 0 .. 1
  BY NoncesAssumption DEF TypeOK, Window
<1>2. SUFFICES ASSUME nonce \in Accepted PROVE FALSE
  BY <1>1, SMT DEF Accepted
<1>3. window.initialized
  BY <1>2 DEF WindowExact, EmptyAtFirst
<1>4. nonce <= window.last
  BY <1>2, <1>3 DEF WindowExact, LastIsHighest
<1>5. window.last - nonce < WINDOW_BITS /\ Slot(nonce) \notin window.bitmap
  BY <1>1, <1>3, <1>4, SMT DEF Accepts
<1> QED
  BY <1>2, <1>3, <1>4, <1>5 DEF WindowExact, BitmapExact

-----------------------------------------------------------------------------

(* The types are kept, the at-most-once counter included.                   *)
LEMMA TypeStep ==
    ASSUME TypeOK, WindowExact, NEW nonce \in Nonces, CheckAndUpdate(nonce)
    PROVE  TypeOK'
<1>1. window' \in Window
  BY UpdatedType, NoncesAssumption DEF CheckAndUpdate, TypeOK
<1>2. passed' \in [Nonces -> 0 .. 1]
  <2>1. CASE Accepts(window, nonce)
    <3>1. passed[nonce] = 0
      BY <2>1, AcceptedFresh
    <3> QED
      BY <2>1, <3>1 DEF CheckAndUpdate, TypeOK
  <2>2. CASE ~Accepts(window, nonce)
    BY <2>2 DEF CheckAndUpdate, TypeOK
  <2> QED
    BY <2>1, <2>2
<1>3. refused' \in SUBSET Nonces
  BY DEF CheckAndUpdate, TypeOK
<1> QED
  BY <1>1, <1>2, <1>3 DEF TypeOK

(* What being let through does to the set of accepted nonces.               *)
LEMMA AcceptedGrows ==
    ASSUME TypeOK, NEW nonce \in Nonces, passed' = [passed EXCEPT ![nonce] = @ + 1]
    PROVE  Accepted' = Accepted \cup {nonce}
<1>1. passed \in [Nonces -> 0 .. 1]
  BY DEF TypeOK
<1>2. \A n \in Nonces : passed'[n] = IF n = nonce THEN passed[n] + 1 ELSE passed[n]
  BY <1>1
<1>3. \A n \in Nonces : passed'[n] > 0 <=> passed[n] > 0 \/ n = nonce
  BY <1>1, <1>2, SMT
<1> QED
  BY <1>3 DEF Accepted

(* Every call keeps the bitmap exact inside the window.                     *)
LEMMA WindowStep ==
    ASSUME TypeOK, WindowExact, NEW nonce \in Nonces, CheckAndUpdate(nonce)
    PROVE  WindowExact'
<1>0. nonce \in Nat /\ window \in Window /\ window.last \in Nat /\ Nonces \subseteq Nat
  BY NoncesAssumption DEF TypeOK, Window
<1>1. CASE ~window.initialized
  <2>1. Accepted' = {nonce} /\ window' = [bitmap |-> {Slot(nonce)}, last |-> nonce, initialized |-> TRUE]
    BY <1>1, FirstPacket, AcceptedGrows DEF WindowExact, EmptyAtFirst
  <2>2. BitmapExact'
    <3> SUFFICES ASSUME NEW n \in Nonces, n <= nonce, nonce - n < WINDOW_BITS
                 PROVE  Slot(n) = Slot(nonce) <=> n = nonce
      BY <2>1 DEF BitmapExact
    <3> QED
      BY <1>0, SlotsDistinct, SMT
  <2> QED
    BY <1>0, <2>1, <2>2 DEF WindowExact, EmptyAtFirst, LastIsHighest
<1>2. CASE window.initialized /\ nonce > window.last
  <2>1. /\ window' = [bitmap |-> (window.bitmap \ Exposed(window, nonce)) \cup {Slot(nonce)},
                      last |-> nonce, initialized |-> TRUE]
        /\ Accepted' = Accepted \cup {nonce}
    BY <1>2, NewerPacket, AcceptedGrows
  <2>2. \A n \in Accepted : n \in Nat /\ n <= window.last
    BY <1>0, <1>2 DEF WindowExact, LastIsHighest, Accepted
  <2>3. \A n \in Accepted' : n <= nonce
    BY <1>0, <1>2, <2>1, <2>2, SMT
  <2>4. BitmapExact'
    <3> SUFFICES ASSUME NEW n \in Nonces, n <= nonce, nonce - n < WINDOW_BITS
                 PROVE  Slot(n) \in (window.bitmap \ Exposed(window, nonce)) \cup {Slot(nonce)}
                           <=> n \in Accepted \cup {nonce}
      BY <2>1 DEF BitmapExact
    <3>1. CASE n = nonce
      BY <3>1
    <3>2. CASE n > window.last /\ n # nonce
      <4>1. Slot(n) \in Exposed(window, nonce)
        BY <1>0, <1>2, <3>2, ExposedExact
      <4>2. Slot(n) # Slot(nonce)
        BY <1>0, <3>2, SlotsDistinct, SMT
      <4>3. n \notin Accepted
        BY <1>0, <2>2, <3>2, SMT
      <4> QED
        BY <3>2, <4>1, <4>2, <4>3
    <3>3. CASE ~(n > window.last)
      <4>1. Slot(n) \notin Exposed(window, nonce)
        BY <1>0, <1>2, <3>3, ExposedExact
      <4>2. Slot(n) # Slot(nonce) /\ n # nonce
        BY <1>0, <1>2, <3>3, SlotsDistinct, SMT
      <4>3. n <= window.last /\ window.last - n < WINDOW_BITS
        BY <1>0, <1>2, <3>3, WindowAssumption, SMT
      <4>4. Slot(n) \in window.bitmap <=> n \in Accepted
        BY <1>2, <4>3 DEF WindowExact, BitmapExact
      <4> QED
        BY <4>1, <4>2, <4>4
    <3> QED
      BY <3>1, <3>2, <3>3
  <2> QED
    BY <1>2, <2>1, <2>3, <2>4 DEF WindowExact, EmptyAtFirst, LastIsHighest
<1>3. CASE window.initialized /\ ~(nonce > window.last) /\ Accepts(window, nonce)
  <2>1. /\ window.last - nonce < WINDOW_BITS
        /\ window' = [bitmap |-> window.bitmap \cup {Slot(nonce)}, last |-> window.last,
                      initialized |-> TRUE]
        /\ Accepted' = Accepted \cup {nonce}
    BY <1>3, LatePacket, AcceptedGrows
  <2>2. BitmapExact'
    <3> SUFFICES ASSUME NEW n \in Nonces, n <= window.last, window.last - n < WINDOW_BITS
                 PROVE  Slot(n) \in window.bitmap \cup {Slot(nonce)} <=> n \in Accepted \cup {nonce}
      BY <2>1 DEF BitmapExact
    <3>1. Slot(n) \in window.bitmap <=> n \in Accepted
      BY <1>3 DEF WindowExact, BitmapExact
    <3>2. n < nonce => Slot(n) # Slot(nonce)
      <4>1. n \in Nat /\ (n < nonce => nonce - n < WINDOW_BITS)
        BY <1>0, <1>3, WindowAssumption, SMT
      <4> QED
        BY <1>0, <4>1, SlotsDistinct
    <3>3. nonce < n => Slot(n) # Slot(nonce)
      <4>1. n \in Nat /\ (nonce < n => n - nonce < WINDOW_BITS)
        BY <1>0, <1>3, <2>1, WindowAssumption, SMT
      <4> QED
        BY <1>0, <4>1, SlotsDistinct
    <3>4. n < nonce \/ nonce < n \/ n = nonce
      BY <1>0, SMT
    <3> QED
      BY <3>1, <3>2, <3>3, <3>4
  <2>3. nonce <= window.last
    BY <1>0, <1>3, SMT
  <2> QED
    BY <1>3, <2>1, <2>2, <2>3 DEF WindowExact, EmptyAtFirst, LastIsHighest
<1>4. CASE ~Accepts(window, nonce)
  BY <1>4, RefusedPacket DEF WindowExact, EmptyAtFirst, LastIsHighest, BitmapExact, Accepted
<1> QED
  BY <1>1, <1>2, <1>3, <1>4

-----------------------------------------------------------------------------

(***************************************************************************)
(* The bitmap of session.rs is exact inside the window and its counter of  *)
(* acceptances never exceeds 1, for every window size.                     *)
(***************************************************************************)
THEOREM WindowIsExact == Spec => [](TypeOK /\ WindowExact)
<1>1. Init => TypeOK /\ WindowExact
  BY NoncesAssumption, WindowAssumption, SMT
  DEF Init, TypeOK, WindowExact, EmptyAtFirst, LastIsHighest, BitmapExact, Accepted,
      Window, NewWindow
<1>2. TypeOK /\ WindowExact /\ [Next]_vars => TypeOK' /\ WindowExact'
  <2> SUFFICES ASSUME TypeOK, WindowExact, [Next]_vars
               PROVE  TypeOK' /\ WindowExact'
    OBVIOUS
  <2>1. ASSUME NEW nonce \in Nonces, CheckAndUpdate(nonce)
        PROVE  TypeOK' /\ WindowExact'
    BY <2>1, TypeStep, WindowStep
  <2>2. CASE UNCHANGED vars
    BY <2>2 DEF vars, TypeOK, WindowExact, EmptyAtFirst, LastIsHighest, BitmapExact, Accepted
  <2> QED
    BY <2>1, <2>2 DEF Next
<1> QED
  BY <1>1, <1>2, PTL DEF Spec

(* The bitmap stays within the window's slots, and last is a nonce that    *)
(* was received (session.rs:10-17), for every window size.                 *)
THEOREM FilterTypeCorrect == Spec => []TypeOK
<1>1. TypeOK /\ WindowExact => TypeOK
  OBVIOUS
<1> QED
  BY <1>1, WindowIsExact, PTL

(* One call of check_and_update is one step of AtMostOnce.                  *)
LEMMA CallRefines ==
    ASSUME TypeOK, WindowExact, NEW nonce \in Nonces, CheckAndUpdate(nonce)
    PROVE  Promise!Pass(nonce) \/ Promise!Refuse(nonce)
<1>0. nonce \in Nat /\ window.last \in Nat /\ passed \in [Nonces -> 0 .. 1]
  BY NoncesAssumption DEF TypeOK, Window
<1>1. CASE Accepts(window, nonce)
  <2>1. passed[nonce] = 0
    BY <1>1, AcceptedFresh
  <2>2. passed' = [passed EXCEPT ![nonce] = @ + 1] /\ refused' = refused
    BY <1>1 DEF CheckAndUpdate
  <2> QED
    BY <2>1, <2>2 DEF Promise!Pass
<1>2. CASE ~Accepts(window, nonce)
  <2>1. /\ window.initialized
        /\ nonce <= window.last
        /\ window.last - nonce < WINDOW_BITS => Slot(nonce) \in window.bitmap
        /\ passed' = passed
        /\ refused' = refused \cup {nonce}
    BY <1>0, <1>2, RefusedPacket, SMT
  <2>2. CASE window.last - nonce < WINDOW_BITS
    <3>1. passed[nonce] > 0
      BY <2>1, <2>2 DEF WindowExact, BitmapExact, Accepted
    <3> QED
      BY <2>1, <3>1 DEF Promise!Refuse
  <2>3. CASE ~(window.last - nonce < WINDOW_BITS)
    <3>1. window.last \in Nonces /\ passed[window.last] > 0
      BY <2>1 DEF WindowExact, LastIsHighest, Accepted
    <3>2. window.last - nonce >= WINDOW_BITS
      BY <1>0, <2>3, WindowAssumption, SMT
    <3> QED
      BY <2>1, <3>1, <3>2 DEF Promise!Refuse
  <2> QED
    BY <2>2, <2>3
<1> QED
  BY <1>1, <1>2

(***************************************************************************)
(* The bitmap filter implements AtMostOnce: nothing passes twice, and only *)
(* duplicates and nonces at least WINDOW_BITS behind are refused           *)
(* (session.rs:6-7 and 51-52).                                             *)
(***************************************************************************)
THEOREM FilterRefinesAtMostOnce == Spec => ImplementsAtMostOnce
<1>1. Init => Promise!Init
  BY DEF Init, Promise!Init
<1>2. TypeOK /\ WindowExact /\ [Next]_vars => [Promise!Next]_(Promise!vars)
  <2> SUFFICES ASSUME TypeOK, WindowExact, [Next]_vars
               PROVE  [Promise!Next]_(Promise!vars)
    OBVIOUS
  <2>1. ASSUME NEW nonce \in Nonces, CheckAndUpdate(nonce)
        PROVE  Promise!Next
    BY <2>1, CallRefines DEF Promise!Next
  <2>2. CASE UNCHANGED vars
    BY <2>2 DEF vars, Promise!vars
  <2> QED
    BY <2>1, <2>2 DEF Next
<1> QED
  BY <1>1, <1>2, WindowIsExact, PTL DEF Spec, ImplementsAtMostOnce, Promise!Spec
=============================================================================
