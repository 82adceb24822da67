----------------------------- MODULE PeerProofs -----------------------------
(***************************************************************************)
(* Lemmas about the operators of Peer: each returns a peer record again,   *)
(* and what each does to the session a peer sends under and to its pending *)
(* handshake.  TunnelProofs cites them action by action.                   *)
(***************************************************************************)
EXTENDS Peer, ReplayWindowProofs

(* The timeouts are natural numbers, so a timer that was just reset is in  *)
(* its range.                                                              *)
LEMMA Timeouts ==
    /\ RETRANSMIT \in Nat /\ KEEPALIVE \in Nat /\ DIRECT \in Nat /\ DEAD \in Nat
    /\ GRACE \in Nat /\ ROTATE \in Nat /\ VOLUME \in Nat
    /\ 0 \in 0 .. RETRANSMIT /\ 0 \in 0 .. KEEPALIVE /\ 0 \in 0 .. DIRECT /\ 0 \in 0 .. DEAD
<1>1. /\ RETRANSMIT \in Nat /\ KEEPALIVE \in Nat /\ DIRECT \in Nat /\ DEAD \in Nat
      /\ GRACE \in Nat /\ ROTATE \in Nat /\ VOLUME \in Nat
  BY PeerAssumption
<1> QED
  BY <1>1, SMT

(* A new window is a window.                                               *)
LEMMA NewWindowType == NewWindow \in Window
BY DEF NewWindow, Window

(* AtMost saturates at its limit. *)
LEMMA AtMostType ==
    ASSUME NEW limit \in Nat, NEW value \in Nat
    PROVE  AtMost(limit, value) \in 0 .. limit
BY SMT DEF AtMost

(* A session starts with counters at zero (ActiveSession::new). *)
LEMMA NewSessionType ==
    ASSUME NEW id \in SessionId
    PROVE  /\ NewSession(id) \in Session
           /\ NewSession(id).id = id
           /\ NewSession(id).nonce = 0
BY Timeouts, PeerAssumption, NewWindowType DEF NewSession, Session

(* Peer::new. *)
LEMMA NewPeerType ==
    ASSUME NEW endpoint \in Addresses \cup {None}
    PROVE  NewPeer(endpoint) \in Peer
BY Timeouts, PeerAssumption DEF NewPeer, Peer

(* A destination is an address, the relay or nothing.                      *)
LEMMA DestType ==
    ASSUME NEW p \in Peer
    PROVE  Dest(p) \in Addresses \cup {Relay, None}
BY DEF Dest, Peer

(* A completed handshake leaves a well-formed peer. *)
LEMMA InstallType ==
    ASSUME NEW p \in Peer, NEW id \in SessionId
    PROVE  Install(p, id) \in Peer
BY Timeouts, PeerAssumption, NewSessionType DEF Install, Peer

(* initiate_handshake. *)
LEMMA InitiateHandshakeType ==
    ASSUME NEW p \in Peer, NEW init \in InitId
    PROVE  InitiateHandshake(p, init) \in Peer
BY Timeouts, PeerAssumption DEF InitiateHandshake, Peer

(* handle_handshake_packet, whether or not the response answers. *)
LEMMA HandleResponseType ==
    ASSUME NEW p \in Peer, NEW id \in SessionId
    PROVE  HandleResponse(p, id) \in Peer
<1>1. Install(p, id) \in Peer
  BY InstallType
<1> QED
  BY <1>1 DEF HandleResponse, Peer

(* Encrypting moves the session's counters within their ranges. *)
LEMMA SentUnderType ==
    ASSUME NEW s \in Session, NEW size \in Nat
    PROVE  SentUnder(s, size) \in Session
<1>1. VOLUME + 1 \in Nat /\ s.sent + size \in Nat /\ s.nonce + 1 \in Nat
  BY Timeouts, SMT DEF Session
<1>2. AtMost(VOLUME + 1, s.sent + size) \in 0 .. VOLUME + 1
  BY <1>1, AtMostType
<1> QED
  BY <1>1, <1>2 DEF SentUnder, Session

(* encrypt_packet. *)
LEMMA EncryptType ==
    ASSUME NEW p \in Peer, p.active # None, NEW size \in Nat
    PROVE  Encrypt(p, size) \in Peer
<1>1. SentUnder(p.active, size) \in Session
  BY SentUnderType DEF Peer
<1> QED
  BY <1>1, Timeouts, PeerAssumption DEF Encrypt, Peer

(* A second passing keeps every timer within its saturation. *)
LEMMA AgedType ==
    ASSUME NEW p \in Peer
    PROVE  Aged(p) \in Peer
<1>1. ASSUME NEW s \in Session, NEW limit \in Nat, limit <= ROTATE + 1
      PROVE  [s EXCEPT !.age = AtMost(limit, @ + 1)] \in Session
  <2>1. AtMost(limit, s.age + 1) \in 0 .. ROTATE + 1
    BY <1>1, Timeouts, PeerAssumption, SMT DEF Session, AtMost
  <2> QED
    BY <2>1 DEF Session
<1>2. /\ ROTATE + 1 \in Nat /\ ROTATE + 1 <= ROTATE + 1
      /\ GRACE \in Nat /\ GRACE <= ROTATE + 1
  BY Timeouts, PeerAssumption, SMT
<1>3. Older(p.active, ROTATE + 1) \in Session \cup {None}
  BY <1>1, <1>2 DEF Older, Peer
<1>4. Older(p.previous, GRACE) \in Session \cup {None}
  BY <1>1, <1>2 DEF Older, Peer
<1>5. /\ p.attempt # None => AtMost(RETRANSMIT, p.attempt + 1) \in 0 .. RETRANSMIT
      /\ AtMost(DEAD, p.rx + 1) \in 0 .. DEAD
      /\ AtMost(KEEPALIVE, p.tx + 1) \in 0 .. KEEPALIVE
      /\ AtMost(DIRECT, p.direct + 1) \in 0 .. DIRECT
  BY Timeouts, PeerAssumption, SMT DEF Peer, AtMost
<1> QED
  BY <1>3, <1>4, <1>5 DEF Aged, Peer

(* Decrypting moves the session's replay window. *)
LEMMA ReceivedUnderType ==
    ASSUME NEW s \in Session, NEW nonce \in Nat
    PROVE  ReceivedUnder(s, nonce) \in Session
<1>1. Updated(s.replay, nonce) \in Window
  BY UpdatedType DEF Session
<1> QED
  BY <1>1 DEF ReceivedUnder, Session

(* decrypt_packet, whichever session opens the packet. *)
LEMMA DecryptedType ==
    ASSUME NEW p \in Peer, NEW id, NEW nonce \in Nat
    PROVE  Decrypted(p, id, nonce) \in Peer
<1>1. ASSUME ActiveOpens(p, id)
      PROVE  [p EXCEPT !.active = ReceivedUnder(@, nonce), !.rx = 0] \in Peer
  <2>1. ReceivedUnder(p.active, nonce) \in Session
    BY <1>1, ReceivedUnderType DEF ActiveOpens, Peer
  <2> QED
    BY <2>1, Timeouts, PeerAssumption DEF Peer
<1>2. ASSUME PreviousOpens(p, id)
      PROVE  [p EXCEPT !.previous = ReceivedUnder(@, nonce), !.rx = 0] \in Peer
  <2>1. ReceivedUnder(p.previous, nonce) \in Session
    BY <1>2, ReceivedUnderType DEF PreviousOpens, Peer
  <2> QED
    BY <2>1, Timeouts, PeerAssumption DEF Peer
<1> QED
  BY <1>1, <1>2 DEF Decrypted, Decrypts

-----------------------------------------------------------------------------

(* check_rotation. *)
LEMMA RotateType ==
    ASSUME NEW p \in Peer, NEW init, RotationDue(p) => init \in InitId
    PROVE  Rotate(p, init) \in Peer
<1>1. DropExpiredPrevious(p) \in Peer
  BY DEF DropExpiredPrevious, Peer
<1> QED
  BY <1>1, InitiateHandshakeType DEF Rotate

(* Dropping dead keys. *)
LEMMA DetectDeadType ==
    ASSUME NEW p \in Peer
    PROVE  DetectDead(p) \in Peer
BY DEF DetectDead, Peer

(* Sending a keepalive. *)
LEMMA SendKeepaliveType ==
    ASSUME NEW p \in Peer
    PROVE  SendKeepalive(p) \in Peer
BY EncryptType DEF SendKeepalive, KeepaliveDue

(* Initiating or retransmitting. *)
LEMMA RetryType ==
    ASSUME NEW p \in Peer, NEW init, InitiateDue(p) => init \in InitId
    PROVE  Retry(p, init) \in Peer
<1>1. [p EXCEPT !.attempt = 0] \in Peer
  BY Timeouts DEF Peer
<1> QED
  BY <1>1, InitiateHandshakeType DEF Retry

(* The handshake a run of the timer task starts late, after the keys were  *)
(* found dead, is one that was due when the run began.                     *)
LEMMA LateInitiation ==
    ASSUME NEW p \in Peer, NEW init, ~RotationDue(p),
           InitiateDue(SendKeepalive(DetectDead(Rotate(p, init))))
    PROVE  StartsHandshake(p)
<1> DEFINE q == DropExpiredPrevious(p)
<1>1. /\ q \in Peer
      /\ q.active = p.active /\ q.handshake = p.handshake
      /\ q.endpoint = p.endpoint /\ q.rx = p.rx
  BY DEF DropExpiredPrevious, Peer
<1>2. Rotate(p, init) = q
  BY DEF Rotate
<1>3. /\ DetectDead(q).active = DetectDead(p).active
      /\ DetectDead(q).handshake = DetectDead(p).handshake
      /\ DetectDead(q).endpoint = DetectDead(p).endpoint
  BY <1>1 DEF DetectDead, Peer
<1>4. ~KeepaliveDue(DetectDead(q))
  <2>1. SUFFICES ASSUME KeepaliveDue(DetectDead(q)) PROVE FALSE
    OBVIOUS
  <2>2. DetectDead(q) \in Peer /\ DetectDead(q).active # None
    BY <1>1, <2>1, DetectDeadType DEF KeepaliveDue
  <2>3. SentUnder(DetectDead(q).active, 0) \in Session
    BY <2>2, SentUnderType DEF Peer
  <2>4. Encrypt(DetectDead(q), 0).active # None
    BY <2>2, <2>3, PeerAssumption DEF Encrypt, Peer
  <2> QED
    BY <1>2, <2>1, <2>4 DEF SendKeepalive, InitiateDue
<1> QED
  BY <1>2, <1>3, <1>4 DEF SendKeepalive, InitiateDue, StartsHandshake

(* The four timer steps together. *)
LEMMA TimerPeerType ==
    ASSUME NEW p \in Peer, NEW init, StartsHandshake(p) => init \in InitId
    PROVE  TimerPeer(p, init) \in Peer
<1>1. Rotate(p, init) \in Peer
  BY RotateType DEF StartsHandshake
<1>2. SendKeepalive(DetectDead(Rotate(p, init))) \in Peer
  BY <1>1, DetectDeadType, SendKeepaliveType
<1>3. InitiateDue(SendKeepalive(DetectDead(Rotate(p, init)))) => init \in InitId
  BY LateInitiation DEF StartsHandshake
<1> QED
  BY <1>2, <1>3, RetryType DEF TimerPeer
-----------------------------------------------------------------------------

(* The part of HandshakeRetried that is about one peer.                    *)
RetryArmed(p) ==
    /\ p.packet = p.handshake
    /\ p.attempt = None <=> p.handshake = None

SamePending(p, q) ==
    p.handshake = q.handshake /\ p.attempt = q.attempt /\ p.packet = q.packet

(* What these operators do, they do to sessions and timers only.           *)
LEMMA PendingKept ==
    ASSUME NEW p \in Peer, NEW id, NEW nonce, NEW size
    PROVE  /\ SamePending(Install(p, id), p)
           /\ SamePending(Encrypt(p, size), p)
           /\ SamePending(Decrypted(p, id, nonce), p)
           /\ SamePending(DropExpiredPrevious(p), p)
           /\ SamePending(DetectDead(p), p)
           /\ SamePending(SendKeepalive(p), p)
<1>1. SamePending(Install(p, id), p)
  BY DEF SamePending, Install, Peer
<1>2. SamePending(Encrypt(p, size), p)
  BY DEF SamePending, Encrypt, Peer
<1>3. SamePending(Decrypted(p, id, nonce), p)
  BY DEF SamePending, Decrypted, Peer
<1>4. /\ SamePending(DropExpiredPrevious(p), p)
      /\ SamePending(DetectDead(p), p)
  BY DEF SamePending, DropExpiredPrevious, DetectDead, Peer
<1>5. SamePending(SendKeepalive(p), p)
  <2>1. SamePending(Encrypt(p, 0), p)
    BY DEF SamePending, Encrypt, Peer
  <2> QED
    BY <2>1 DEF SendKeepalive, SamePending
<1> QED
  BY <1>1, <1>2, <1>3, <1>4, <1>5

(* Peer::new has nothing pending. *)
LEMMA NewPeerArmed ==
    ASSUME NEW endpoint
    PROVE  RetryArmed(NewPeer(endpoint))
BY DEF RetryArmed, NewPeer

(* Time disarms no retry. *)
LEMMA AgedArmed ==
    ASSUME NEW p \in Peer, RetryArmed(p)
    PROVE  RetryArmed(Aged(p))
<1>1. p.attempt # None => AtMost(RETRANSMIT, p.attempt + 1) # None
  <2>1. SUFFICES ASSUME p.attempt # None
                 PROVE  AtMost(RETRANSMIT, p.attempt + 1) # None
    OBVIOUS
  <2>2. p.attempt + 1 \in Nat
    BY <2>1, Timeouts, SMT DEF Peer
  <2>3. AtMost(RETRANSMIT, p.attempt + 1) \in 0 .. RETRANSMIT
    BY <2>2, Timeouts, AtMostType
  <2> QED
    BY <2>3, Timeouts, PeerAssumption
<1> QED
  BY <1>1 DEF RetryArmed, Aged, Peer

(* initiate_handshake arms the retry. *)
LEMMA InitiateHandshakeArmed ==
    ASSUME NEW p \in Peer, NEW init \in InitId
    PROVE  /\ RetryArmed(InitiateHandshake(p, init))
           /\ InitiateHandshake(p, init).packet = init
BY PeerAssumption DEF RetryArmed, InitiateHandshake, Peer

(* A response that answers clears the three fields together. *)
LEMMA HandleResponseArmed ==
    ASSUME NEW p \in Peer, RetryArmed(p), NEW id
    PROVE  RetryArmed(HandleResponse(p, id))
BY DEF RetryArmed, HandleResponse, Install, Peer

(* check_rotation starts a handshake by initiate_handshake only. *)
LEMMA RotateArmed ==
    ASSUME NEW p \in Peer, RetryArmed(p), NEW init, RotationDue(p) => init \in InitId
    PROVE  /\ RetryArmed(Rotate(p, init))
           /\ RotationDue(p) => Rotate(p, init).packet = init
<1>1. DropExpiredPrevious(p) \in Peer /\ RetryArmed(DropExpiredPrevious(p))
  BY DEF DropExpiredPrevious, RetryArmed, Peer
<1> QED
  BY <1>1, InitiateHandshakeArmed DEF Rotate

(* A retransmission rearms the retry. *)
LEMMA RetryRetryArmed ==
    ASSUME NEW p \in Peer, RetryArmed(p), NEW init, InitiateDue(p) => init \in InitId
    PROVE  /\ RetryArmed(Retry(p, init))
           /\ InitiateDue(p) => Retry(p, init).packet = init
           /\ ~InitiateDue(p) => Retry(p, init).packet = p.packet
<1>1. CASE InitiateDue(p)
  <2>1. Retry(p, init) = InitiateHandshake(p, init)
    BY <1>1 DEF Retry, RetransmitDue
  <2> QED
    BY <1>1, <2>1, InitiateHandshakeArmed
<1>2. CASE RetransmitDue(p)
  <2>1. ~InitiateDue(p) /\ Retry(p, init) = [p EXCEPT !.attempt = 0]
    BY <1>2 DEF Retry, RetransmitDue
  <2>2. RetryArmed([p EXCEPT !.attempt = 0]) /\ [p EXCEPT !.attempt = 0].packet = p.packet
    BY <1>2, PeerAssumption DEF RetransmitDue, RetryArmed, Peer
  <2> QED
    BY <2>1, <2>2
<1>3. CASE ~InitiateDue(p) /\ ~RetransmitDue(p)
  BY <1>3 DEF Retry
<1> QED
  BY <1>1, <1>2, <1>3

(* A run of the timer task leaves every pending handshake with its retry   *)
(* timer, and whatever initiation it sends is there to be sent.            *)
LEMMA TimerPeerArmed ==
    ASSUME NEW p \in Peer, RetryArmed(p), NEW init, StartsHandshake(p) => init \in InitId
    PROVE  LET r == SendKeepalive(DetectDead(Rotate(p, init)))
           IN  /\ RetryArmed(TimerPeer(p, init))
               /\ RotationDue(p) \/ InitiateDue(r) \/ RetransmitDue(r) =>
                      Retry(r, init).packet \in InitId
<1> DEFINE q == Rotate(p, init)
           r == SendKeepalive(DetectDead(q))
<1>1. q \in Peer /\ DetectDead(q) \in Peer /\ r \in Peer
  BY RotateType, DetectDeadType, SendKeepaliveType DEF StartsHandshake
<1>2. RetryArmed(q) /\ (RotationDue(p) => q.packet = init)
  BY RotateArmed DEF StartsHandshake
<1>3. SamePending(DetectDead(q), q) /\ SamePending(r, DetectDead(q))
  BY <1>1, PendingKept
<1>4. RetryArmed(r) /\ r.packet = q.packet
  BY <1>2, <1>3 DEF RetryArmed, SamePending
<1>5. InitiateDue(r) => init \in InitId
  BY LateInitiation DEF StartsHandshake
<1> HIDE DEF q, r
<1>6. /\ RetryArmed(Retry(r, init))
      /\ InitiateDue(r) => Retry(r, init).packet = init
      /\ ~InitiateDue(r) => Retry(r, init).packet = r.packet
  BY <1>1, <1>4, <1>5, RetryRetryArmed
<1>7. RetransmitDue(r) => r.packet \in InitId
  BY <1>1, <1>4 DEF RetransmitDue, RetryArmed, Peer
<1>8. RotationDue(p) \/ InitiateDue(r) \/ RetransmitDue(r) => Retry(r, init).packet \in InitId
  BY <1>2, <1>4, <1>5, <1>6, <1>7 DEF StartsHandshake, RetransmitDue
<1> QED
  BY <1>6, <1>8 DEF q, r, TimerPeer

-----------------------------------------------------------------------------

(* The same session later: more may have been sent under it. *)
SameKeys(s, t) == t.id = s.id /\ t.replay = s.replay /\ t.nonce >= s.nonce

(* q has no session that p has not. *)
KeysKept(p, q) ==
    /\ q.active # None => p.active # None /\ SameKeys(p.active, q.active)
    /\ q.previous # None => p.previous # None /\ SameKeys(p.previous, q.previous)

(* A peer's two sessions are never the same one. *)
TwoSessions(p) == p.active # None /\ p.previous # None => p.active.id # p.previous.id

(* A session is the same as itself. *)
LEMMA SameKeysReflexive ==
    ASSUME NEW s \in Session
    PROVE  SameKeys(s, s)
<1>1. s.nonce \in Nat
  BY DEF Session
<1> QED
  BY <1>1, SMT DEF SameKeys

(* Peers whose sessions are untouched. *)
LEMMA Untouched ==
    ASSUME NEW p \in Peer, NEW q, q.active \in {p.active, None}, q.previous \in {p.previous, None}
    PROVE  KeysKept(p, q)
BY SameKeysReflexive DEF KeysKept, Peer

(* Keeping no other sessions is transitive. *)
LEMMA KeysKeptChain ==
    ASSUME NEW p \in Peer, NEW q \in Peer, NEW r \in Peer, KeysKept(p, q), KeysKept(q, r)
    PROVE  KeysKept(p, r)
<1>1. ASSUME NEW s \in Session, NEW t \in Session, NEW u \in Session,
             SameKeys(s, t), SameKeys(t, u)
      PROVE  SameKeys(s, u)
  <2>1. s.nonce \in Nat /\ t.nonce \in Nat /\ u.nonce \in Nat
    BY DEF Session
  <2> QED
    BY <1>1, <2>1, SMT DEF SameKeys
<1> QED
  BY <1>1 DEF KeysKept, Peer

(* Two different sessions stay two different ones. *)
LEMMA KeptTwoSessions ==
    ASSUME NEW p, NEW q, KeysKept(p, q), TwoSessions(p)
    PROVE  TwoSessions(q)
BY DEF KeysKept, TwoSessions, SameKeys

(* A second passing changes no key. *)
LEMMA AgedKeeps ==
    ASSUME NEW p \in Peer
    PROVE  KeysKept(p, Aged(p))
<1>1. ASSUME NEW s \in Session, NEW limit
      PROVE  SameKeys(s, Older(s, limit))
  <2>1. s # None /\ s.nonce \in Nat
    BY PeerAssumption DEF Session
  <2>2. Older(s, limit) = [s EXCEPT !.age = AtMost(limit, @ + 1)]
    BY <2>1 DEF Older
  <2>3. /\ Older(s, limit).id = s.id /\ Older(s, limit).replay = s.replay
        /\ Older(s, limit).nonce = s.nonce
    BY <2>2 DEF Session
  <2> QED
    BY <2>1, <2>3, SMT DEF SameKeys
<1>2. /\ Aged(p).active = Older(p.active, ROTATE + 1)
      /\ Aged(p).previous = Older(p.previous, GRACE)
  BY DEF Aged, Peer
<1>3. \A limit : Older(None, limit) = None
  BY DEF Older
<1> QED
  BY <1>1, <1>2, <1>3 DEF KeysKept, Peer

(* encrypt_packet uses the next nonce of the active session.               *)
LEMMA EncryptKeeps ==
    ASSUME NEW p \in Peer, p.active # None, NEW size \in Nat
    PROVE  /\ KeysKept(p, Encrypt(p, size))
           /\ Encrypt(p, size).active # None
           /\ Encrypt(p, size).active.id = p.active.id
           /\ Encrypt(p, size).active.nonce = p.active.nonce + 1
           /\ Encrypt(p, size).previous = p.previous
<1>1. p.active \in Session
  BY DEF Peer
<1>2. /\ Encrypt(p, size).active = SentUnder(p.active, size)
      /\ Encrypt(p, size).previous = p.previous
  BY DEF Encrypt, Peer
<1>3. SentUnder(p.active, size) \in Session
  BY <1>1, SentUnderType
<1>4. /\ SentUnder(p.active, size).id = p.active.id
      /\ SentUnder(p.active, size).replay = p.active.replay
      /\ SentUnder(p.active, size).nonce = p.active.nonce + 1
  BY <1>1 DEF SentUnder, Session
<1>5. p.active.nonce \in Nat /\ p.active.nonce + 1 >= p.active.nonce
  BY <1>1, SMT DEF Session
<1>6. SameKeys(p.active, SentUnder(p.active, size))
  BY <1>4, <1>5 DEF SameKeys
<1> QED
  BY <1>2, <1>3, <1>4, <1>6, SameKeysReflexive, PeerAssumption DEF KeysKept, Peer

(* The timer task's steps bring no session in; the keepalive, if there is  *)
(* one, is sent under the session that stays active; and a handshake that  *)
(* was not pending before is the one the run started.                      *)
LEMMA TimerPeerKeeps ==
    ASSUME NEW p \in Peer, NEW init, StartsHandshake(p) => init \in InitId
    PROVE  LET q == DetectDead(Rotate(p, init))
               t == TimerPeer(p, init)
           IN  /\ KeysKept(p, t)
               /\ KeepaliveDue(q) =>
                     /\ p.active # None /\ q.active.id = p.active.id
                     /\ t.active # None /\ t.active.id = q.active.id
                     /\ t.active.nonce = q.active.nonce + 1
               /\ t.handshake # p.handshake => StartsHandshake(p) /\ t.handshake = init
<1> DEFINE o == Rotate(p, init)
           q == DetectDead(o)
           r == SendKeepalive(q)
           t == Retry(r, init)
<1>1. o \in Peer /\ q \in Peer /\ r \in Peer
  BY RotateType, DetectDeadType, SendKeepaliveType DEF StartsHandshake
<1>2. InitiateDue(r) => StartsHandshake(p)
  BY LateInitiation DEF StartsHandshake
<1>3. t \in Peer
  BY <1>1, <1>2, RetryType
<1>4. o.active = p.active /\ o.previous \in {p.previous, None}
  BY DEF Rotate, DropExpiredPrevious, InitiateHandshake, Peer
<1>5. o.handshake # p.handshake => RotationDue(p) /\ o.handshake = init
  BY DEF Rotate, DropExpiredPrevious, InitiateHandshake, Peer
<1> HIDE DEF o
<1>6. /\ q.active \in {o.active, None} /\ q.previous \in {o.previous, None}
      /\ q.handshake = o.handshake
  BY <1>1 DEF DetectDead, Peer
<1> HIDE DEF q
<1>7. /\ KeysKept(q, r) /\ r.handshake = q.handshake
      /\ KeepaliveDue(q) => /\ r.active # None /\ r.active.id = q.active.id
                            /\ r.active.nonce = q.active.nonce + 1
  <2>1. CASE KeepaliveDue(q)
    <3>1. q.active # None /\ r = Encrypt(q, 0)
      BY <2>1 DEF KeepaliveDue, SendKeepalive
    <3>2. r.handshake = q.handshake
      BY <1>1, <3>1 DEF Encrypt, Peer
    <3> HIDE DEF r
    <3> QED
      BY <1>1, <3>1, <3>2, EncryptKeeps
  <2>2. CASE ~KeepaliveDue(q)
    BY <1>1, <2>2, Untouched DEF SendKeepalive
  <2> QED
    BY <2>1, <2>2
<1> HIDE DEF r
<1>8. /\ t.active = r.active /\ t.previous = r.previous
      /\ t.handshake # r.handshake => InitiateDue(r) /\ t.handshake = init
  BY <1>1 DEF Retry, InitiateHandshake, RetransmitDue, Peer
<1>9. TimerPeer(p, init) = t
  BY DEF TimerPeer, t, r, q, o
<1> HIDE DEF t
<1>10. KeysKept(p, t)
  <2>1. KeysKept(p, q)
    BY <1>1, <1>4, <1>6, Untouched, KeysKeptChain
  <2>2. KeysKept(r, t)
    BY <1>1, <1>3, <1>8, Untouched
  <2> QED
    BY <1>1, <1>3, <1>7, <2>1, <2>2, KeysKeptChain
<1>11. KeepaliveDue(q) => p.active # None /\ q.active = p.active
  BY <1>4, <1>6 DEF KeepaliveDue
<1>12. t.handshake # p.handshake => StartsHandshake(p) /\ t.handshake = init
  BY <1>2, <1>5, <1>6, <1>7, <1>8 DEF StartsHandshake
<1> QED
  BY <1>7, <1>8, <1>9, <1>10, <1>11, <1>12 DEF q, o

-----------------------------------------------------------------------------

SessionsOf(p) == {p.active, p.previous} \ {None}

(* A peer's sessions are sessions. *)
LEMMA SessionsOfType ==
    ASSUME NEW p \in Peer, NEW s \in SessionsOf(p)
    PROVE  /\ s \in Session
           /\ s.id \in SessionId /\ s.nonce \in Nat /\ s.replay \in Window
BY DEF SessionsOf, Peer, Session

(* A completed handshake brings in one session, with an empty window.      *)
LEMMA InstallSessions ==
    ASSUME NEW p \in Peer, NEW id \in SessionId,
           \A s \in SessionsOf(p) : s.id # id
    PROVE  /\ \A t \in SessionsOf(Install(p, id)) : t \in SessionsOf(p) \/ t = NewSession(id)
           /\ TwoSessions(p) => TwoSessions(Install(p, id))
           /\ ~NewSession(id).replay.initialized
<1>1. /\ Install(p, id).active = NewSession(id)
      /\ Install(p, id).previous = IF p.active = None THEN p.previous ELSE p.active
  BY DEF Install, Peer
<1>2. NewSession(id).id = id /\ ~NewSession(id).replay.initialized
  BY DEF NewSession, NewWindow
<1> QED
  BY <1>1, <1>2 DEF SessionsOf, TwoSessions

(* What the response's handler installs, it takes the handshake for.       *)
LEMMA AnsweredSessions ==
    ASSUME NEW p \in Peer, NEW id \in SessionId, Answers(p, id)
    PROVE  /\ SessionsOf(HandleResponse(p, id)) = SessionsOf(Install(p, id))
           /\ TwoSessions(HandleResponse(p, id)) <=> TwoSessions(Install(p, id))
           /\ HandleResponse(p, id).handshake = None
<1>1. Install(p, id) \in Peer
  BY InstallType
<1>2. HandleResponse(p, id) =
        [Install(p, id) EXCEPT !.handshake = None, !.attempt = None, !.packet = None]
  BY DEF HandleResponse
<1> QED
  BY <1>1, <1>2 DEF SessionsOf, TwoSessions, Peer

(* A handshake derives a session from its own key and the other end's.     *)
LEMMA AnswersOwn ==
    ASSUME NEW p \in Peer, NEW id \in SessionId, Answers(p, id)
    PROVE  p.handshake # None /\ p.handshake.i = id.i /\ p.handshake.r = id.r
           /\ p.handshake.ei = id.ei
<1>1. [id EXCEPT !.er = None] \in InitId
  BY DEF SessionId, InitId
<1>2. p.handshake = [id EXCEPT !.er = None]
  BY DEF Answers
<1> QED
  BY <1>1, <1>2, PeerAssumption DEF SessionId

(* Decrypting brings in no session either; it moves the window of the one  *)
(* that opened the packet, and then none of them accepts it again.         *)
LEMMA DecryptedSessions ==
    ASSUME NEW p \in Peer, TwoSessions(p), NEW id, NEW nonce \in Nat, Decrypts(p, id, nonce)
    PROVE  LET q == Decrypted(p, id, nonce)
           IN  /\ TwoSessions(q)
               /\ \E s \in SessionsOf(p) : s.id = id
               /\ \A t \in SessionsOf(q) : \E s \in SessionsOf(p) :
                     /\ t.id = s.id /\ t.nonce = s.nonce
                     /\ \/ t.replay = s.replay
                        \/ /\ s.id = id /\ Accepts(s.replay, nonce)
                           /\ t.replay = Updated(s.replay, nonce)
               /\ \A t \in SessionsOf(q) : t.id = id => ~Accepts(t.replay, nonce)
<1> DEFINE q == Decrypted(p, id, nonce)
<1>1. ASSUME NEW s \in Session, Accepts(s.replay, nonce)
      PROVE  /\ ReceivedUnder(s, nonce) \in Session
             /\ ReceivedUnder(s, nonce).id = s.id
             /\ ReceivedUnder(s, nonce).nonce = s.nonce
             /\ ReceivedUnder(s, nonce).replay = Updated(s.replay, nonce)
             /\ ~Accepts(ReceivedUnder(s, nonce).replay, nonce)
  <2>1. /\ ReceivedUnder(s, nonce).id = s.id
        /\ ReceivedUnder(s, nonce).nonce = s.nonce
        /\ ReceivedUnder(s, nonce).replay = Updated(s.replay, nonce)
    BY DEF ReceivedUnder, Session
  <2>2. s.replay \in Window
    BY DEF Session
  <2> QED
    BY <1>1, <2>1, <2>2, AcceptedOnce, ReceivedUnderType
<1>2. CASE ActiveOpens(p, id)
  <2>1. p.active \in Session /\ p.active.id = id /\ Accepts(p.active.replay, nonce)
    BY <1>2 DEF Decrypts, ActiveOpens, Peer
  <2>2. q.active = ReceivedUnder(p.active, nonce) /\ q.previous = p.previous
    BY <1>2 DEF Decrypted, Peer
  <2>3. q.previous # None => q.previous.id # id
    BY <2>1, <2>2, PeerAssumption DEF TwoSessions
  <2> HIDE DEF q
  <2>4. p.active # None /\ q.active # None
    BY <1>1, <2>1, <2>2, PeerAssumption
  <2>5. TwoSessions(q) /\ \E s \in SessionsOf(p) : s.id = id
    BY <1>1, <2>1, <2>2, <2>3, <2>4 DEF SessionsOf, TwoSessions
  <2>6. ASSUME NEW t \in SessionsOf(q)
        PROVE  \/ t = q.active /\ t = ReceivedUnder(p.active, nonce) /\ p.active \in SessionsOf(p)
               \/ t = p.previous /\ t \in SessionsOf(p) /\ t.id # id
    BY <2>2, <2>3, <2>4 DEF SessionsOf
  <2>7. \A t \in SessionsOf(q) : \E s \in SessionsOf(p) :
           /\ t.id = s.id /\ t.nonce = s.nonce
           /\ \/ t.replay = s.replay
              \/ /\ s.id = id /\ Accepts(s.replay, nonce)
                 /\ t.replay = Updated(s.replay, nonce)
    BY <1>1, <2>1, <2>6
  <2>8. \A t \in SessionsOf(q) : t.id = id => ~Accepts(t.replay, nonce)
    BY <1>1, <2>1, <2>6
  <2> QED
    BY <2>5, <2>7, <2>8 DEF q
<1>3. CASE ~ActiveOpens(p, id)
  <2>1. /\ p.previous \in Session /\ p.previous.id = id /\ Accepts(p.previous.replay, nonce)
    BY <1>3 DEF Decrypts, PreviousOpens, Peer
  <2>2. q.previous = ReceivedUnder(p.previous, nonce) /\ q.active = p.active
    BY <1>3 DEF Decrypted, Peer
  <2>3. q.active # None => q.active.id # id
    BY <1>3, <2>2 DEF ActiveOpens
  <2> HIDE DEF q
  <2>4. p.previous # None /\ q.previous # None
    BY <1>1, <2>1, <2>2, PeerAssumption
  <2>5. TwoSessions(q) /\ \E s \in SessionsOf(p) : s.id = id
    BY <1>1, <2>1, <2>2, <2>3, <2>4 DEF SessionsOf, TwoSessions
  <2>6. ASSUME NEW t \in SessionsOf(q)
        PROVE  \/ t = q.previous /\ t = ReceivedUnder(p.previous, nonce) /\ p.previous \in SessionsOf(p)
               \/ t = p.active /\ t \in SessionsOf(p) /\ t.id # id
    BY <2>2, <2>3, <2>4 DEF SessionsOf
  <2>7. \A t \in SessionsOf(q) : \E s \in SessionsOf(p) :
           /\ t.id = s.id /\ t.nonce = s.nonce
           /\ \/ t.replay = s.replay
              \/ /\ s.id = id /\ Accepts(s.replay, nonce)
                 /\ t.replay = Updated(s.replay, nonce)
    BY <1>1, <2>1, <2>6
  <2>8. \A t \in SessionsOf(q) : t.id = id => ~Accepts(t.replay, nonce)
    BY <1>1, <2>1, <2>6
  <2> QED
    BY <2>5, <2>7, <2>8 DEF q
<1> QED
  BY <1>2, <1>3
=============================================================================
