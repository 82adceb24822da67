-------------------------------- MODULE Peer --------------------------------
(***************************************************************************)
(* What a daemon keeps about one peer (src/peer.rs, struct Peer) and what  *)
(* the daemon's tasks do to it, as operators on peer records.  Every       *)
(* Instant is the number of whole seconds since it was taken, saturated    *)
(* where no comparison in the code can tell the difference any more.       *)
(*                                                                         *)
(* Noise is external: a session is its id, made of the two ephemeral keys, *)
(* and a packet decrypts exactly under the session it was encrypted for.   *)
(***************************************************************************)
EXTENDS ReplayWindow

CONSTANTS
    Nodes,       \* the daemons
    None,        \* Rust's None
    Relay,       \* the destination "through the relay server"
    HasRelay,    \* whether a relay is configured
    Ephemerals,  \* the ephemeral keys a handshake can draw
    Addresses,   \* UDP addresses
    RETRANSMIT,  \* seconds before a handshake is sent again (2)
    KEEPALIVE,   \* seconds without sending before a keepalive (10)
    DIRECT,      \* seconds without direct traffic before the relay is used (10)
    DEAD,        \* seconds without receiving before the keys are dropped (15)
    GRACE,       \* age up to which the previous session still decrypts (15)
    ROTATE,      \* age above which a session is replaced (120)
    VOLUME       \* payload above which a session is replaced (10^9 bytes)

(* A handshake between initiator i and responder r: their ephemeral keys.  *)
(* The initiation is sent before the responder has drawn its own.          *)
InitId == [i : Nodes, r : Nodes, ei : Ephemerals, er : {None}]
SessionId == [i : Nodes, r : Nodes, ei : Ephemerals, er : Ephemerals]

Initiation(n, m, e) == [i |-> n, r |-> m, ei |-> e, er |-> None]

(* ActiveSession; tx_bytes is counted in packets, rx_bytes is never read.  *)
Session ==
    [id : SessionId, nonce : Nat, sent : 0 .. VOLUME + 1, age : 0 .. ROTATE + 1, replay : Window]

Peer ==
    [endpoint : Addresses \cup {None},
     active : Session \cup {None}, previous : Session \cup {None},
     handshake : InitId \cup {None}, attempt : 0 .. RETRANSMIT \cup {None},
     packet : InitId \cup {None},
     rx : 0 .. DEAD, tx : 0 .. KEEPALIVE, direct : 0 .. DIRECT]

ASSUME PeerAssumption ==
    /\ HasRelay \in BOOLEAN
    /\ {RETRANSMIT, KEEPALIVE, DIRECT, DEAD, GRACE, ROTATE, VOLUME} \subseteq Nat
    /\ GRACE <= ROTATE
    /\ None \notin Ephemerals
    /\ None \notin Addresses
    /\ None \notin Nat
    /\ None \notin Session
    /\ None \notin InitId
    /\ Relay \notin Addresses
    /\ Relay # None

AtMost(limit, value) == IF value > limit THEN limit ELSE value

-----------------------------------------------------------------------------

NewSession(id) == [id |-> id, nonce |-> 0, sent |-> 0, age |-> 0, replay |-> NewWindow]

(* Peer::new, with the endpoint the configuration gives. *)
NewPeer(endpoint) ==
    [endpoint |-> endpoint, active |-> None, previous |-> None,
     handshake |-> None, attempt |-> None, packet |-> None,
     rx |-> 0, tx |-> 0, direct |-> 0]

(* determine_dest; None when there is nowhere to send to. *)
Dest(p) ==
    IF HasRelay /\ (p.endpoint = None \/ p.direct >= DIRECT) THEN Relay ELSE p.endpoint

(* One second passes for a session and for everything else timed. *)
Older(s, limit) == IF s = None THEN None ELSE [s EXCEPT !.age = AtMost(limit, @ + 1)]

Aged(p) ==
    [p EXCEPT !.active = Older(@, ROTATE + 1), !.previous = Older(@, GRACE),
              !.attempt = IF @ = None THEN None ELSE AtMost(RETRANSMIT, @ + 1),
              !.rx = AtMost(DEAD, @ + 1), !.tx = AtMost(KEEPALIVE, @ + 1),
              !.direct = AtMost(DIRECT, @ + 1)]

-----------------------------------------------------------------------------

(* Faulty variant of Install: the displaced session's replay window is lost. *)
InstallFreshWindow(p, id) ==
    [p EXCEPT !.previous = IF p.active = None THEN @ ELSE [p.active EXCEPT !.replay = NewWindow],
              !.active = NewSession(id), !.rx = 0, !.tx = 0]

(* The end of every completed handshake: the active session steps back. *)
Install(p, id) ==
    [p EXCEPT !.previous = IF p.active = None THEN @ ELSE p.active,
              !.active = NewSession(id), !.rx = 0, !.tx = 0]

(* initiate_handshake; init holds the ephemeral key it draws. *)
InitiateHandshake(p, init) ==
    [p EXCEPT !.handshake = init, !.attempt = 0, !.packet = init, !.tx = 0]

(* A response can be read by the very handshake it answers. *)
Answers(p, id) == p.handshake = [id EXCEPT !.er = None]

(* Faulty variant of HandleResponse: the handshake is read where it is     *)
(* instead of being taken.                                                 *)
HandleResponseNoTake(p, id) == IF Answers(p, id) THEN Install(p, id) ELSE p

(* handle_handshake_packet, response branch: the handshake is taken, and   *)
(* put back when the response does not answer it.                          *)
HandleResponse(p, id) ==
    IF Answers(p, id)
    THEN [Install(p, id) EXCEPT !.handshake = None, !.attempt = None, !.packet = None]
    ELSE p

(* encrypt_packet, for a peer with an active session; the packet carries   *)
(* the nonce the session had before.                                       *)
SentUnder(s, size) == [s EXCEPT !.nonce = @ + 1, !.sent = AtMost(VOLUME + 1, @ + size)]

Encrypt(p, size) == [p EXCEPT !.active = SentUnder(@, size), !.tx = 0]

-----------------------------------------------------------------------------

(* decrypt_packet tries the active session, then the previous one, for as  *)
(* long as its age, counted from its establishment, is below GRACE.        *)
ActiveOpens(p, id) == p.active # None /\ p.active.id = id

PreviousOpens(p, id) == p.previous # None /\ p.previous.age < GRACE /\ p.previous.id = id

Opens(p, id) == ActiveOpens(p, id) \/ PreviousOpens(p, id)

Decrypts(p, id, nonce) ==
    \/ ActiveOpens(p, id) /\ Accepts(p.active.replay, nonce)
    \/ ~ActiveOpens(p, id) /\ PreviousOpens(p, id) /\ Accepts(p.previous.replay, nonce)

ReceivedUnder(s, nonce) == [s EXCEPT !.replay = Updated(@, nonce)]

Decrypted(p, id, nonce) ==
    CASE ~Decrypts(p, id, nonce) -> p
      [] Decrypts(p, id, nonce) /\ ActiveOpens(p, id) ->
            [p EXCEPT !.active = ReceivedUnder(@, nonce), !.rx = 0]
      [] OTHER -> [p EXCEPT !.previous = ReceivedUnder(@, nonce), !.rx = 0]

-----------------------------------------------------------------------------

(* The timer task's four steps for one peer, in the code's order; init is  *)
(* the handshake it starts, if it starts one (at most one per run).        *)

(* check_rotation *)
DropExpiredPrevious(p) ==
    IF p.previous # None /\ p.previous.age >= GRACE THEN [p EXCEPT !.previous = None] ELSE p

RotationDue(p) ==
    /\ p.active # None
    /\ p.active.age > ROTATE \/ p.active.sent > VOLUME
    /\ p.handshake = None

Rotate(p, init) ==
    LET q == DropExpiredPrevious(p) IN IF RotationDue(p) THEN InitiateHandshake(q, init) ELSE q

(* Faulty variant of DetectDead: the retry timer is cleared with the keys.  *)
DetectDeadStopsRetry(p) ==
    IF p.active # None /\ p.rx >= DEAD
    THEN [p EXCEPT !.active = None, !.previous = None, !.attempt = None]
    ELSE p

DetectDead(p) ==
    IF p.active # None /\ p.rx >= DEAD
    THEN [p EXCEPT !.active = None, !.previous = None]
    ELSE p

KeepaliveDue(p) == p.active # None /\ p.tx >= KEEPALIVE

SendKeepalive(p) == IF KeepaliveDue(p) THEN Encrypt(p, 0) ELSE p

InitiateDue(p) ==
    /\ p.active = None
    /\ p.handshake = None
    /\ p.endpoint # None \/ HasRelay

(* Faulty variant of RetransmitDue: a handshake is only retried while the  *)
(* old session is still there.                                             *)
RetransmitDueIfActive(p) ==
    /\ p.active # None
    /\ p.attempt # None
    /\ p.attempt >= RETRANSMIT

RetransmitDue(p) == ~InitiateDue(p) /\ p.attempt # None /\ p.attempt >= RETRANSMIT

Retry(p, init) ==
    CASE InitiateDue(p) -> InitiateHandshake(p, init)
      [] RetransmitDue(p) -> [p EXCEPT !.attempt = 0]
      [] OTHER -> p

(* Whether it does start one. *)
StartsHandshake(p) == RotationDue(p) \/ InitiateDue(DetectDead(p))

TimerPeer(p, init) == Retry(SendKeepalive(DetectDead(Rotate(p, init))), init)
=============================================================================
