---------------------------- MODULE TunnelProofs ----------------------------
(***************************************************************************)
(* Theorems about Tunnel, for every set of nodes, addresses and keys and   *)
(* every value of the timeouts and bounds.                                 *)
(*                                                                         *)
(* Type correctness is not inductive alone: the timer task sends again     *)
(* whatever packet a peer keeps once the retry time has passed, so that    *)
(* what is sent is an initiation depends on HandshakeRetried.              *)
(*                                                                         *)
(* That nonces are fresh, windows behind their senders and packets         *)
(* delivered once rests on who can hold which session: KeyInv, in the      *)
(* second part.                                                            *)
(***************************************************************************)
EXTENDS Tunnel, PeerProofs

(* What n keeps about m is a peer record. *)
LEMMA PairPeers ==
    ASSUME TypeOK, NEW n \in Nodes, NEW m \in Nodes, n # m
    PROVE  /\ <<n, m>> \in Pairs
           /\ peer[<<n, m>>] \in Peer
BY DEF TypeOK, Pairs

(* HandshakeRetried says RetryArmed of every peer record. *)
LEMMA ArmedEverywhere ==
    HandshakeRetried <=> \A x \in Pairs : RetryArmed(peer[x])
BY DEF HandshakeRetried, RetryArmed

(* The key that is drawn is a key, when there is an unused one.            *)
LEMMA NewKeyType ==
    ASSUME NEW n, NEW m, Unused(n, m) # {}
    PROVE  NewKey(n, m) \in Unused(n, m) /\ NewKey(n, m) \in Ephemerals
<1>1. NewKey(n, m) \in Unused(n, m)
  BY DEF NewKey
<1> QED
  BY <1>1 DEF Unused

(* Packet makes messages of the right shape. *)
LEMMA PacketType ==
    ASSUME NEW n \in Nodes, NEW m \in Nodes, n # m, loc \in [Nodes -> Addresses],
           NEW kind \in {"init", "resp", "data"}, NEW id \in InitId \cup SessionId,
           kind = "init" <=> id.er = None,
           NEW dest \in Addresses \cup {Relay, None},
           NEW nonce \in Nat, NEW load \in {"own", "foreign", "empty"}
    PROVE  Packet(kind, n, m, dest, id, nonce, load) \subseteq Message
<1> DEFINE src == IF dest = Relay THEN Relay ELSE loc[n]
           msg == [kind |-> kind, from |-> n, to |-> m, src |-> src, dst |-> dest,
                   id |-> id, nonce |-> nonce, load |-> load]
<1>1. CASE dest = None
  BY <1>1 DEF Packet
<1>2. CASE dest # None
  <2>1. src \in Addresses \cup {Relay} /\ (src = Relay <=> dest = Relay)
    BY PeerAssumption
  <2>2. msg \in Message
    BY <1>2, <2>1 DEF Message
  <2> QED
    BY <1>2, <2>2 DEF Packet
<1> QED
  BY <1>1, <1>2

(* Sending puts messages in flight. *)
LEMMA SendType ==
    ASSUME net \subseteq Message, NEW packets \in SUBSET Message, Send(packets)
    PROVE  net' \subseteq Message
BY DEF Send, Room

(* Delivering leaves messages in flight, among them the answers. *)
LEMMA DeliverType ==
    ASSUME net \subseteq Message, NEW msg \in net, NEW answers \in SUBSET Message,
           Deliver(msg, answers)
    PROVE  net' \subseteq Message
BY DEF Deliver, Room

(* Initiations and the ids of sessions are told apart by the second key.   *)
LEMMA IdKinds ==
    /\ \A id \in InitId : id.er = None
    /\ \A id \in SessionId : id.er # None
    /\ \A n, m \in Nodes, e \in Ephemerals : Initiation(n, m, e) \in InitId
BY PeerAssumption DEF InitId, SessionId, Initiation

-----------------------------------------------------------------------------

(* The inductive invariant of both theorems.                               *)
Inv == TypeOK /\ HandshakeRetried

(* A new record for some pairs keeps the invariant's peer part. *)
LEMMA PeerTable ==
    ASSUME Inv, NEW f, peer' = [x \in Pairs |-> f[x]],
           \A x \in Pairs : f[x] \in Peer /\ RetryArmed(f[x])
    PROVE  peer' \in [Pairs -> Peer] /\ HandshakeRetried'
<1>1. peer' \in [Pairs -> Peer]
  OBVIOUS
<1>2. \A x \in Pairs : RetryArmed(peer'[x])
  OBVIOUS
<1> QED
  BY <1>1, <1>2 DEF HandshakeRetried, RetryArmed

(* A new record for one pair does, too. *)
LEMMA OnePeer ==
    ASSUME Inv, NEW x \in Pairs, NEW q \in Peer, RetryArmed(q),
           peer' = [peer EXCEPT ![x] = q]
    PROVE  peer' \in [Pairs -> Peer] /\ HandshakeRetried'
<1>1. peer' \in [Pairs -> Peer]
  BY DEF Inv, TypeOK
<1>2. \A y \in Pairs : RetryArmed(peer'[y])
  BY ArmedEverywhere DEF Inv, TypeOK
<1> QED
  BY <1>1, <1>2 DEF HandshakeRetried, RetryArmed

(* Daemons start in the invariant. *)
LEMMA InitInv == Init => Inv
<1> SUFFICES ASSUME Init PROVE Inv
  OBVIOUS
<1>1. \A x \in Pairs : NewPeer(Advertised[x[2]]) \in Peer
  BY NewPeerType, TunnelAssumption DEF Pairs
<1>2. peer \in [Pairs -> Peer]
  BY <1>1 DEF Init
<1>3. \A x \in Pairs : RetryArmed(peer[x])
  BY NewPeerArmed DEF Init
<1>4. 0 \in 0 .. MaxFaults
  BY TunnelAssumption, SMT
<1> QED
  BY <1>2, <1>3, <1>4, ArmedEverywhere DEF Init, Inv, TypeOK

(* A second passes. *)
LEMMA TickInv == Inv /\ Tick => Inv'
<1> SUFFICES ASSUME Inv, Tick PROVE Inv'
  OBVIOUS
<1> DEFINE f == [x \in Pairs |-> Aged(peer[x])]
<1>1. \A x \in Pairs : f[x] \in Peer /\ RetryArmed(f[x])
  BY AgedType, AgedArmed, ArmedEverywhere DEF Inv, TypeOK
<1>2. peer' = [x \in Pairs |-> f[x]]
  BY DEF Tick
<1>3. peer' \in [Pairs -> Peer] /\ HandshakeRetried'
  BY <1>1, <1>2, PeerTable
<1> QED
  BY <1>3 DEF Tick, Inv, TypeOK

(* The TUN task encrypts a packet. *)
LEMMA TunEncryptsInv ==
    ASSUME Inv, NEW n \in Nodes, NEW m \in Nodes, n # m, NEW load \in Loads,
           TunEncrypts(n, m, load)
    PROVE  Inv'
<1>1. <<n, m>> \in Pairs /\ peer[<<n, m>>] \in Peer /\ RetryArmed(peer[<<n, m>>])
  BY PairPeers, ArmedEverywhere DEF Inv, TypeOK
<1>2. peer[<<n, m>>].active \in Session
  BY <1>1 DEF TunEncrypts, Peer
<1>3. Encrypt(peer[<<n, m>>], 1) \in Peer /\ RetryArmed(Encrypt(peer[<<n, m>>], 1))
  <2>1. SamePending(Encrypt(peer[<<n, m>>], 1), peer[<<n, m>>])
    BY <1>1, PendingKept
  <2> QED
    BY <1>1, <2>1, EncryptType DEF TunEncrypts, RetryArmed, SamePending
<1>4. peer' \in [Pairs -> Peer] /\ HandshakeRetried'
  BY <1>1, <1>3, OnePeer DEF TunEncrypts
<1>5. net' \subseteq Message
  <2>1. /\ peer[<<n, m>>].active.id \in SessionId /\ peer[<<n, m>>].active.nonce \in Nat
        /\ peer[<<n, m>>].active.id.er # None
    BY <1>2, IdKinds DEF Session
  <2>2. load \in {"own", "foreign", "empty"}
    BY TunnelAssumption
  <2>3. Packet("data", n, m, Dest(peer[<<n, m>>]), peer[<<n, m>>].active.id,
               peer[<<n, m>>].active.nonce, load) \subseteq Message
    BY <1>1, <2>1, <2>2, PacketType, DestType DEF Inv, TypeOK
  <2> QED
    BY <2>3, SendType DEF TunEncrypts, Inv, TypeOK
<1> QED
  BY <1>4, <1>5 DEF TunEncrypts, Inv, TypeOK

(* The TUN task triggers a handshake. *)
LEMMA TunTriggersInv ==
    ASSUME Inv, NEW n \in Nodes, NEW m \in Nodes, n # m, TunTriggers(n, m)
    PROVE  Inv'
<1> DEFINE init == Initiation(n, m, NewKey(n, m))
<1>1. <<n, m>> \in Pairs /\ peer[<<n, m>>] \in Peer
  BY PairPeers DEF Inv
<1>2. init \in InitId /\ init.er = None
  BY NewKeyType, IdKinds DEF TunTriggers
<1>3. /\ InitiateHandshake(peer[<<n, m>>], init) \in Peer
      /\ RetryArmed(InitiateHandshake(peer[<<n, m>>], init))
  BY <1>1, <1>2, InitiateHandshakeType, InitiateHandshakeArmed
<1>4. peer' \in [Pairs -> Peer] /\ HandshakeRetried'
  BY <1>1, <1>3, OnePeer DEF TunTriggers
<1>5. Packet("init", n, m, Dest(peer[<<n, m>>]), init, 0, "empty") \subseteq Message
  BY <1>1, <1>2, PacketType, DestType DEF Inv, TypeOK
<1>6. net' \subseteq Message
  BY <1>5, SendType DEF TunTriggers, Inv, TypeOK
<1> QED
  BY <1>4, <1>6 DEF TunTriggers, Inv, TypeOK

(* What one run of the timer task sends to one peer.                       *)
LEMMA TimerSendsType ==
    ASSUME Inv, NEW n \in Nodes, NEW m \in Nodes, n # m, NEW init,
           StartsHandshake(peer[<<n, m>>]) => init \in InitId
    PROVE  TimerSends(n, m, init) \subseteq Message
<1> DEFINE p == peer[<<n, m>>]
           q == DetectDead(Rotate(p, init))
           r == SendKeepalive(q)
           again == RotationDue(p) \/ InitiateDue(r) \/ RetransmitDue(r)
           initiation == IF again
                         THEN Packet("init", n, m, Dest(p), Retry(r, init).packet, 0, "empty")
                         ELSE {}
           keepalive == IF KeepaliveDue(q)
                        THEN Packet("data", n, m, Dest(p), q.active.id, q.active.nonce, "empty")
                        ELSE {}
<1>1. p \in Peer /\ RetryArmed(p) /\ Dest(p) \in Addresses \cup {Relay, None}
  BY PairPeers, ArmedEverywhere, DestType DEF Inv
<1>2. q \in Peer
  BY <1>1, RotateType, DetectDeadType DEF StartsHandshake
<1>3. again => Retry(r, init).packet \in InitId
  BY <1>1, TimerPeerArmed
<1>4. initiation \subseteq Message
  <2>1. SUFFICES ASSUME again
                 PROVE  Packet("init", n, m, Dest(p), Retry(r, init).packet, 0, "empty")
                            \subseteq Message
    OBVIOUS
  <2>2. Retry(r, init).packet \in InitId /\ Retry(r, init).packet.er = None
    BY <1>3, <2>1, IdKinds
  <2> HIDE DEF p, r
  <2> QED
    BY <1>1, <2>2, PacketType DEF Inv, TypeOK
<1>5. keepalive \subseteq Message
  <2>1. SUFFICES ASSUME KeepaliveDue(q)
                 PROVE  Packet("data", n, m, Dest(p), q.active.id, q.active.nonce, "empty")
                            \subseteq Message
    OBVIOUS
  <2>2. q.active \in Session
    BY <1>2, <2>1 DEF KeepaliveDue, Peer
  <2>3. q.active.id \in SessionId /\ q.active.id.er # None /\ q.active.nonce \in Nat
    BY <2>2, IdKinds DEF Session
  <2> HIDE DEF p, q
  <2> QED
    BY <1>1, <2>3, PacketType DEF Inv, TypeOK
<1>6. TimerSends(n, m, init) = initiation \cup keepalive
  BY DEF TimerSends
<1> HIDE DEF initiation, keepalive
<1> QED
  BY <1>4, <1>5, <1>6

(* The timer task runs. *)
LEMMA TimerInv ==
    ASSUME Inv, NEW n \in Nodes, Timer(n)
    PROVE  Inv'
<1> DEFINE init(m) == Initiation(n, m, NewKey(n, m))
           f == [x \in Pairs |->
                    IF x[1] = n THEN TimerPeer(peer[x], init(x[2])) ELSE peer[x]]
<1>1. \A m \in PeersOf(n) : StartsHandshake(peer[<<n, m>>]) => init(m) \in InitId
  BY NewKeyType, IdKinds DEF Timer, PeersOf
<1>2. \A x \in Pairs : f[x] \in Peer /\ RetryArmed(f[x])
  <2>1. TAKE x \in Pairs
  <2>2. peer[x] \in Peer /\ RetryArmed(peer[x])
    BY ArmedEverywhere DEF Inv, TypeOK
  <2>3. CASE x[1] = n
    <3>1. x = <<n, x[2]>> /\ x[2] \in PeersOf(n)
      BY <2>3 DEF Pairs, PeersOf
    <3>2. StartsHandshake(peer[x]) => init(x[2]) \in InitId
      BY <1>1, <3>1
    <3> HIDE DEF init
    <3>3. /\ TimerPeer(peer[x], init(x[2])) \in Peer
          /\ RetryArmed(TimerPeer(peer[x], init(x[2])))
      BY <2>2, <3>2, TimerPeerType, TimerPeerArmed
    <3> QED
      BY <2>3, <3>3
  <2> QED
    BY <2>2, <2>3
<1>3. peer' = [x \in Pairs |-> f[x]]
  BY DEF Timer
<1>4. peer' \in [Pairs -> Peer] /\ HandshakeRetried'
  <2> HIDE DEF f
  <2> QED
    BY <1>2, <1>3, PeerTable
<1>5. \A m \in PeersOf(n) : TimerSends(n, m, init(m)) \subseteq Message
  <2>1. TAKE m \in PeersOf(n)
  <2>2. m \in Nodes /\ m # n
    BY DEF PeersOf
  <2> HIDE DEF init
  <2> QED
    BY <1>1, <2>2, TimerSendsType
<1>6. net' \subseteq Message
  <2> DEFINE packets == UNION {TimerSends(n, m, init(m)) : m \in PeersOf(n)}
  <2>1. Send(packets)
    BY DEF Timer
  <2>2. packets \in SUBSET Message
    BY <1>5
  <2> HIDE DEF packets
  <2> QED
    BY <2>1, <2>2, SendType DEF Inv, TypeOK
<1>7. due' \subseteq Nodes /\ UNCHANGED <<loc, tun, faults>>
  BY DEF Timer, Inv, TypeOK
<1> QED
  BY <1>4, <1>6, <1>7 DEF Inv, TypeOK

(* A packet in flight names two nodes, and addresses as its kind requires. *)
LEMMA InFlight ==
    ASSUME Inv, NEW msg \in net
    PROVE  /\ msg \in Message
           /\ msg.from \in Nodes /\ msg.to \in Nodes /\ msg.from # msg.to
           /\ msg.src \in Addresses \cup {Relay}
           /\ msg.dst # Relay => msg.src \in Addresses
           /\ msg.kind = "init" => msg.id \in InitId
           /\ msg.kind # "init" => msg.id \in SessionId
           /\ msg.nonce \in Nat
<1>1. msg \in Message
  BY DEF Inv, TypeOK
<1>2. msg.id \in InitId \cup SessionId /\ (msg.kind = "init" <=> msg.id.er = None)
  BY <1>1 DEF Message
<1> QED
  BY <1>1, <1>2, IdKinds DEF Message

(* A direct packet moves the endpoint. *)
LEMMA HeardFromType ==
    ASSUME NEW p \in Peer, NEW addr \in Addresses
    PROVE  HeardFrom(p, addr) \in Peer /\ SamePending(HeardFrom(p, addr), p)
BY Timeouts DEF HeardFrom, SamePending, Peer

(* An initiation is answered. *)
LEMMA RecvInitInv ==
    ASSUME Inv, NEW n \in Nodes, NEW msg \in net, RecvInit(n, msg)
    PROVE  Inv'
<1> DEFINE m == msg.from
           p == IF msg.dst = Relay THEN peer[<<n, m>>] ELSE HeardFrom(peer[<<n, m>>], msg.src)
           id == [msg.id EXCEPT !.er = NewKey(n, m)]
<1>1. n # m /\ m \in Nodes /\ msg.id \in InitId
  BY InFlight DEF RecvInit
<1>2. <<n, m>> \in Pairs /\ peer[<<n, m>>] \in Peer /\ RetryArmed(peer[<<n, m>>])
  BY <1>1, PairPeers, ArmedEverywhere DEF Inv, TypeOK
<1>3. id \in SessionId /\ id.er # None
  <2>1. NewKey(n, m) \in Ephemerals
    BY NewKeyType DEF RecvInit
  <2>2. id \in SessionId
    BY <1>1, <2>1 DEF InitId, SessionId
  <2> QED
    BY <2>2, IdKinds
<1>4. p \in Peer /\ SamePending(p, peer[<<n, m>>])
  BY <1>2, InFlight, HeardFromType DEF SamePending
<1>5. Install(p, id) \in Peer /\ RetryArmed(Install(p, id))
  <2> HIDE DEF p, id
  <2>1. SamePending(Install(p, id), p)
    BY <1>4, PendingKept
  <2> QED
    BY <1>2, <1>3, <1>4, <2>1, InstallType DEF RetryArmed, SamePending
<1>6. /\ peer' = [peer EXCEPT ![<<n, m>>] = Install(p, id)]
      /\ Deliver(msg, Packet("resp", n, m, msg.src, id, 0, "empty"))
      /\ UNCHANGED <<loc, due, tun, faults>>
  BY DEF RecvInit
<1> HIDE DEF p, id
<1>7. peer' \in [Pairs -> Peer] /\ HandshakeRetried'
  BY <1>2, <1>5, <1>6, OnePeer
<1>8. net' \subseteq Message
  <2>1. Packet("resp", n, m, msg.src, id, 0, "empty") \subseteq Message
    BY <1>1, <1>3, InFlight, PacketType DEF Inv, TypeOK
  <2> QED
    BY <1>6, <2>1, DeliverType DEF Inv, TypeOK
<1> QED
  BY <1>6, <1>7, <1>8 DEF Inv, TypeOK

(* A response is handled, by the peer it is for or by another one. *)
LEMMA RecvRespInv ==
    ASSUME Inv, NEW n \in Nodes, NEW msg \in net, RecvResp(n, msg)
    PROVE  Inv'
<1>1. msg.id \in SessionId /\ msg.from \in Nodes
  BY InFlight DEF RecvResp
<1>2. \A x \in Pairs : /\ HandleResponse(peer[x], msg.id) \in Peer
                       /\ RetryArmed(HandleResponse(peer[x], msg.id))
  BY <1>1, HandleResponseType, HandleResponseArmed, ArmedEverywhere DEF Inv, TypeOK
<1>3. peer' \in [Pairs -> Peer] /\ HandshakeRetried'
  <2>1. CASE msg.dst = Relay
    <3> DEFINE f == [x \in Pairs |-> IF x = <<n, msg.from>>
                                     THEN HandleResponse(peer[x], msg.id) ELSE peer[x]]
    <3>1. peer' = [x \in Pairs |-> f[x]]
      BY <2>1 DEF RecvResp, Inv, TypeOK
    <3>2. \A x \in Pairs : f[x] \in Peer /\ RetryArmed(f[x])
      BY <1>2, ArmedEverywhere DEF Inv, TypeOK
    <3> HIDE DEF f
    <3> QED
      BY <3>1, <3>2, PeerTable
  <2>2. CASE msg.dst # Relay
    <3> DEFINE f == [x \in Pairs |->
                        IF x[1] = n /\ x[2] \in AtEndpoint(n, msg.src)
                        THEN [HandleResponse(peer[x], msg.id) EXCEPT !.direct = 0]
                        ELSE peer[x]]
    <3>1. peer' = [x \in Pairs |-> f[x]]
      BY <2>2 DEF RecvResp
    <3>2. \A q \in Peer : RetryArmed(q) => /\ [q EXCEPT !.direct = 0] \in Peer
                                         /\ RetryArmed([q EXCEPT !.direct = 0])
      BY Timeouts DEF RetryArmed, Peer
    <3>3. \A x \in Pairs : f[x] \in Peer /\ RetryArmed(f[x])
      BY <1>2, <3>2, ArmedEverywhere DEF Inv, TypeOK
    <3> HIDE DEF f
    <3> QED
      BY <3>1, <3>3, PeerTable
  <2> QED
    BY <2>1, <2>2
<1>4. net' \subseteq Message /\ UNCHANGED <<loc, due, tun, faults>>
  BY DeliverType DEF RecvResp, Inv, TypeOK
<1> QED
  BY <1>3, <1>4 DEF Inv, TypeOK

(* A data packet is decrypted, or not. *)
LEMMA RecvDataInv ==
    ASSUME Inv, NEW n \in Nodes, NEW msg \in net, RecvData(n, msg)
    PROVE  Inv'
<1> DEFINE m == msg.from
           p == Decrypted(peer[<<n, m>>], msg.id, msg.nonce)
           opened == Tried(n, m, msg) /\ Decrypts(peer[<<n, m>>], msg.id, msg.nonce)
           q == CASE opened /\ msg.load = "own" /\ msg.dst # Relay -> HeardFrom(p, msg.src)
                  [] opened /\ (msg.load # "own" \/ msg.dst = Relay) -> p
                  [] OTHER -> peer[<<n, m>>]
<1>1. n # m /\ m \in Nodes /\ msg.id \in SessionId /\ msg.nonce \in Nat /\ n = msg.to
  BY InFlight DEF RecvData
<1>2. <<n, m>> \in Pairs /\ peer[<<n, m>>] \in Peer /\ RetryArmed(peer[<<n, m>>])
  BY <1>1, PairPeers, ArmedEverywhere DEF Inv, TypeOK
<1>3. p \in Peer /\ SamePending(p, peer[<<n, m>>])
  BY <1>1, <1>2, DecryptedType, PendingKept
<1>4. msg.dst # Relay => HeardFrom(p, msg.src) \in Peer /\ SamePending(HeardFrom(p, msg.src), p)
  BY <1>3, InFlight, HeardFromType
<1>5. /\ peer' = [peer EXCEPT ![<<n, m>>] = q]
      /\ tun' = IF opened /\ msg.load = "own"
                THEN tun \cup {[from |-> m, to |-> n, id |-> msg.id, nonce |-> msg.nonce]}
                ELSE tun
      /\ Deliver(msg, {})
      /\ UNCHANGED <<loc, due, faults>>
  BY <1>1, <1>2 DEF RecvData, Inv, TypeOK
<1> HIDE DEF p, opened
<1>6. q \in Peer /\ RetryArmed(q)
  BY <1>2, <1>3, <1>4 DEF RetryArmed, SamePending
<1>7. peer' \in [Pairs -> Peer] /\ HandshakeRetried'
  <2> HIDE DEF q
  <2> QED
    BY <1>2, <1>5, <1>6, OnePeer
<1>8. tun' \subseteq Delivery /\ net' \subseteq Message
  BY <1>1, <1>5, DeliverType DEF Delivery, Inv, TypeOK
<1> QED
  BY <1>5, <1>7, <1>8 DEF Inv, TypeOK

(* A fault is counted within its bound. *)
LEMMA FaultType ==
    ASSUME NEW kind, Fault(kind), faults \in 0 .. MaxFaults
    PROVE  faults' \in 0 .. MaxFaults
BY TunnelAssumption, SMT DEF Fault

(* Packets vanish and are lost. *)
LEMMA NetworkInv ==
    ASSUME Inv, NEW msg \in net, Vanish(msg) \/ Lose(msg)
    PROVE  Inv'
<1>1. /\ net' \subseteq Message /\ faults' \in 0 .. MaxFaults
      /\ UNCHANGED <<peer, loc, due, tun>>
  BY FaultType DEF Vanish, Lose, Inv, TypeOK
<1> QED
  BY <1>1 DEF Inv, TypeOK, HandshakeRetried

(* A daemon restarts. *)
LEMMA RestartInv ==
    ASSUME Inv, NEW n \in Nodes, Restart(n)
    PROVE  Inv'
<1> DEFINE f == [x \in Pairs |->
                    IF x[1] = n THEN NewPeer(Advertised[x[2]]) ELSE peer[x]]
<1>1. \A x \in Pairs : f[x] \in Peer /\ RetryArmed(f[x])
  <2>1. TAKE x \in Pairs
  <2>2. Advertised[x[2]] \in Addresses \cup {None}
    BY TunnelAssumption DEF Pairs
  <2> QED
    BY <2>2, NewPeerType, NewPeerArmed, ArmedEverywhere DEF Inv, TypeOK
<1>2. peer' = [x \in Pairs |-> f[x]]
  BY DEF Restart
<1>3. peer' \in [Pairs -> Peer] /\ HandshakeRetried'
  <2> HIDE DEF f
  <2> QED
    BY <1>1, <1>2, PeerTable
<1>4. due' \subseteq Nodes /\ faults' \in 0 .. MaxFaults /\ UNCHANGED <<loc, net, tun>>
  BY FaultType DEF Restart, Inv, TypeOK
<1> QED
  BY <1>3, <1>4 DEF Inv, TypeOK

(* A daemon moves. *)
LEMMA RoamInv ==
    ASSUME Inv, NEW n \in Nodes, Roam(n)
    PROVE  Inv'
<1>1. loc' \in [Nodes -> Addresses]
  BY DEF Roam, Inv, TypeOK
<1>2. faults' \in 0 .. MaxFaults /\ UNCHANGED <<peer, due, net, tun>>
  BY FaultType DEF Roam, Inv, TypeOK
<1> QED
  BY <1>1, <1>2 DEF Inv, TypeOK, HandshakeRetried

(* A poll overwrites the endpoints. *)
LEMMA PollInv ==
    ASSUME Inv, NEW n \in Nodes, Poll(n)
    PROVE  Inv'
<1> DEFINE f == [x \in Pairs |->
                    IF x[1] = n THEN [peer[x] EXCEPT !.endpoint = Advertised[x[2]]] ELSE peer[x]]
<1>1. \A x \in Pairs : f[x] \in Peer /\ RetryArmed(f[x])
  <2>1. TAKE x \in Pairs
  <2>2. /\ Advertised[x[2]] \in Addresses \cup {None}
        /\ peer[x] \in Peer /\ RetryArmed(peer[x])
    BY TunnelAssumption, ArmedEverywhere DEF Inv, TypeOK, Pairs
  <2>3. /\ [peer[x] EXCEPT !.endpoint = Advertised[x[2]]] \in Peer
        /\ RetryArmed([peer[x] EXCEPT !.endpoint = Advertised[x[2]]])
    BY <2>2 DEF RetryArmed, Peer
  <2> QED
    BY <2>2, <2>3
<1>2. peer' = [x \in Pairs |-> f[x]]
  BY DEF Poll
<1>3. peer' \in [Pairs -> Peer] /\ HandshakeRetried'
  <2> HIDE DEF f
  <2> QED
    BY <1>1, <1>2, PeerTable
<1> QED
  BY <1>3 DEF Poll, Inv, TypeOK

-----------------------------------------------------------------------------

(* Every step keeps the invariant: one lemma for each action. *)
LEMMA NextInv == Inv /\ [Next]_vars => Inv'
<1> SUFFICES ASSUME Inv, [Next]_vars PROVE Inv'
  OBVIOUS
<1>1. CASE Tick
  BY <1>1, TickInv
<1>2. CASE \E n \in Nodes : Timer(n) \/ Restart(n) \/ Roam(n) \/ Poll(n)
  BY <1>2, TimerInv, RestartInv, RoamInv, PollInv
<1>3. CASE \E x \in Pairs, load \in Loads : TunEncrypts(x[1], x[2], load)
  BY <1>3, TunEncryptsInv DEF Pairs
<1>4. CASE \E x \in Pairs : TunTriggers(x[1], x[2])
  BY <1>4, TunTriggersInv DEF Pairs
<1>5. CASE \E msg \in net : Receive(msg) \/ Vanish(msg) \/ Lose(msg)
  BY <1>5, RecvInitInv, RecvRespInv, RecvDataInv, NetworkInv DEF Receive
<1>6. CASE UNCHANGED vars
  BY <1>6 DEF vars, Inv, TypeOK, HandshakeRetried
<1> QED
  BY <1>1, <1>2, <1>3, <1>4, <1>5, <1>6 DEF Next

(***************************************************************************)
(* The daemons' tables, the packets in flight and what was delivered keep  *)
(* their shape whatever is lost, repeated or restarted: in particular no   *)
(* session is installed, and nothing is sent under one, that lacks one of  *)
(* the two ephemeral keys (peer.rs:111-198, 200-246).                      *)
(***************************************************************************)
THEOREM TypeCorrect == Spec => []TypeOK
<1>1. Inv => TypeOK
  BY DEF Inv
<1> QED
  BY <1>1, InitInv, NextInv, PTL DEF Spec

(***************************************************************************)
(* No peer is ever left waiting for a handshake response that nobody will  *)
(* ask for again, and none keeps retransmitting a handshake that is over   *)
(* (the three fields of peer.rs:22-24, the retry of daemon.rs:467-493).    *)
(***************************************************************************)
THEOREM PendingHandshakesAreRetried == Spec => []HandshakeRetried
<1>1. Inv => HandshakeRetried
  BY DEF Inv
<1> QED
  BY <1>1, InitInv, NextInv, PTL DEF Spec

-----------------------------------------------------------------------------

(***************************************************************************)
(* The keys.  A nonce, a window and a delivery mean something only under   *)
(* the session they belong to, so the three invariants about them rest on  *)
(* who can hold which session:                                             *)
(*  - every id belongs to the two nodes it is kept by or travels between   *)
(*    (OwnKeys), and a peer's two sessions differ (KeysApart);             *)
(*  - until a pending handshake is answered its initiator has no session   *)
(*    derived from it, has sent and heard nothing under one, and nothing   *)
(*    has been delivered under one (PendingUnused).                        *)
(* A session is therefore new wherever it is installed: by the initiator   *)
(* because its handshake was pending, by the responder because it drew a   *)
(* key of its own that nothing refers to.                                  *)
(***************************************************************************)
Between(id, n, m) == (id.i = n /\ id.r = m) \/ (id.i = m /\ id.r = n)

Back(x) == <<x[2], x[1]>>

OwnHandshake(x) ==
    peer[x].handshake # None => peer[x].handshake.i = x[1] /\ peer[x].handshake.r = x[2]

OwnKeys ==
    /\ \A x \in Pairs : /\ \A s \in SessionsOf(peer[x]) : Between(s.id, x[1], x[2])
                        /\ OwnHandshake(x)
    /\ \A msg \in net : /\ Between(msg.id, msg.from, msg.to)
                        /\ msg.kind = "init" => msg.id.i = msg.from
    /\ \A d \in tun : Between(d.id, d.from, d.to) /\ d.from # d.to

KeysApart == \A x \in Pairs : TwoSessions(peer[x])

(* The first node of x has never used this id. *)
Unheard(x, id) ==
    /\ \A s \in SessionsOf(peer[x]) : s.id # id
    /\ \A t \in SessionsOf(peer[Back(x)]) : t.id = id => ~t.replay.initialized
    /\ \A msg \in net : msg.kind = "data" /\ msg.from = x[1] => msg.id # id
    /\ \A d \in tun : d.id # id

PendingUnused ==
    \A x \in Pairs : \A id \in SessionId : Answers(peer[x], id) => Unheard(x, id)

NoncesBehind ==
    \A x \in Pairs : \A s \in SessionsOf(peer[x]) :
        /\ \A msg \in net : msg.kind = "data" /\ msg.from = x[1] /\ msg.id = s.id =>
                                msg.nonce < s.nonce
        /\ \A d \in tun : d.from = x[1] /\ d.id = s.id => d.nonce < s.nonce

DeliveredRefused ==
    \A d \in tun : \A t \in SessionsOf(peer[<<d.to, d.from>>]) :
        t.id = d.id => ~Accepts(t.replay, d.nonce)

KeyInv ==
    /\ OwnKeys
    /\ KeysApart
    /\ PendingUnused
    /\ NoncesBehind
    /\ WindowBehindSender
    /\ DeliveredRefused

(***************************************************************************)
(* What a step of any task does to the keys.  A session of x was there     *)
(* before, may have been sent under and may have received a packet in      *)
(* flight; or it is one that x's first node never used.  A handshake that  *)
(* is pending is answered by no session in use; what is sent is sent under *)
(* a session whose counter has moved past it; what is delivered was in     *)
(* flight and is refused afterwards.                                       *)
(***************************************************************************)
Evolved(x, s, t) ==
    /\ t.id = s.id /\ t.nonce >= s.nonce
    /\ \/ t.replay = s.replay
       \/ \E msg \in net : /\ msg.kind = "data" /\ msg.from = x[2] /\ msg.id = s.id
                           /\ Accepts(s.replay, msg.nonce)
                           /\ t.replay = Updated(s.replay, msg.nonce)

Established(x, t) ==
    /\ Between(t.id, x[1], x[2])
    /\ ~t.replay.initialized
    /\ Unheard(x, t.id)
    /\ ~Answers(peer'[x], t.id)

SessionsStep ==
    \A x \in Pairs :
        /\ TwoSessions(peer'[x])
        /\ \A t \in SessionsOf(peer'[x]) :
              (\E s \in SessionsOf(peer[x]) : Evolved(x, s, t)) \/ Established(x, t)

PendingStep ==
    \A x \in Pairs :
        /\ peer'[x].handshake # None => peer'[x].handshake.i = x[1] /\ peer'[x].handshake.r = x[2]
        /\ \A id \in SessionId : Answers(peer'[x], id) => Unheard(x, id)

Sent(msg) ==
    /\ Between(msg.id, msg.from, msg.to)
    /\ msg.kind = "init" => msg.id.i = msg.from
    /\ msg.kind = "data" =>
          LET x == <<msg.from, msg.to>>
          IN  /\ \E s \in SessionsOf(peer[x]) : s.id = msg.id
              /\ \A t \in SessionsOf(peer'[x]) : t.id = msg.id => msg.nonce < t.nonce

Delivered(d) ==
    LET x == <<d.to, d.from>>
    IN  /\ \E msg \in net : /\ msg.kind = "data" /\ msg.from = d.from /\ msg.to = d.to
                            /\ msg.id = d.id /\ msg.nonce = d.nonce
        /\ \E t \in SessionsOf(peer[x]) : t.id = d.id
        /\ \A t \in SessionsOf(peer'[x]) : t.id = d.id => ~Accepts(t.replay, d.nonce)

KeyStep ==
    /\ SessionsStep
    /\ PendingStep
    /\ \A msg \in net' : msg \in net \/ Sent(msg)
    /\ \A d \in tun' : d \in tun \/ Delivered(d)

(* Two ids of the same pair of nodes are of the same two nodes. *)
LEMMA SamePair ==
    ASSUME NEW id, NEW n, NEW m, NEW k, NEW l, n # m, Between(id, n, m), Between(id, k, l)
    PROVE  /\ n = k => m = l
           /\ n = l => m = k
           /\ n = k \/ n = l
BY DEF Between

(* The sessions, messages and deliveries of a state, and their pairs. *)
LEMMA KeyTypes ==
    ASSUME Inv
    PROVE  /\ \A x \in Pairs : /\ Back(x) \in Pairs /\ Back(Back(x)) = x
                               /\ Back(x)[1] = x[2] /\ Back(x)[2] = x[1]
                               /\ x[1] # x[2] /\ x = <<x[1], x[2]>>
                               /\ peer[x] \in Peer
           /\ \A x \in Pairs : \A s \in SessionsOf(peer[x]) :
                 /\ s.id \in SessionId /\ s.nonce \in Nat /\ s.replay \in Window
           /\ \A msg \in net : /\ <<msg.from, msg.to>> \in Pairs /\ <<msg.to, msg.from>> \in Pairs
                               /\ msg.from # msg.to /\ msg.nonce \in Nat
                               /\ msg.kind # "init" => msg.id \in SessionId
           /\ \A d \in tun : d.nonce \in Nat /\ d.id \in SessionId
<1>1. \A x \in Pairs : /\ Back(x) \in Pairs /\ Back(Back(x)) = x
                       /\ Back(x)[1] = x[2] /\ Back(x)[2] = x[1]
                       /\ x[1] # x[2] /\ x = <<x[1], x[2]>>
                       /\ peer[x] \in Peer
  BY DEF Pairs, Back, Inv, TypeOK
<1>2. \A x \in Pairs : \A s \in SessionsOf(peer[x]) :
         /\ s.id \in SessionId /\ s.nonce \in Nat /\ s.replay \in Window
  BY <1>1, SessionsOfType
<1>3. \A msg \in net : /\ <<msg.from, msg.to>> \in Pairs /\ <<msg.to, msg.from>> \in Pairs
                       /\ msg.from # msg.to /\ msg.nonce \in Nat
                       /\ msg.kind # "init" => msg.id \in SessionId
  BY InFlight DEF Pairs
<1>4. \A d \in tun : d.nonce \in Nat /\ d.id \in SessionId
  BY DEF Inv, TypeOK, Delivery
<1> QED
  BY <1>1, <1>2, <1>3, <1>4

(* Ids stay with their nodes. *)
LEMMA OwnKeysStep ==
    ASSUME Inv, Inv', OwnKeys, KeyStep
    PROVE  OwnKeys'
<1>1. ASSUME NEW x \in Pairs, NEW t \in SessionsOf(peer'[x])
      PROVE  Between(t.id, x[1], x[2])
  BY <1>1 DEF KeyStep, SessionsStep, Established, Evolved, OwnKeys
<1>2. \A x \in Pairs : OwnHandshake(x)'
  BY DEF KeyStep, PendingStep, OwnHandshake
<1>3. ASSUME NEW msg \in net'
      PROVE  Between(msg.id, msg.from, msg.to) /\ (msg.kind = "init" => msg.id.i = msg.from)
  BY <1>3 DEF KeyStep, Sent, OwnKeys
<1>4. ASSUME NEW d \in tun'
      PROVE  Between(d.id, d.from, d.to) /\ d.from # d.to
  <2>1. CASE d \in tun
    BY <2>1 DEF OwnKeys
  <2>2. CASE Delivered(d)
    BY <2>2, KeyTypes DEF Delivered, OwnKeys
  <2> QED
    BY <1>4, <2>1, <2>2 DEF KeyStep
<1> QED
  BY <1>1, <1>2, <1>3, <1>4 DEF OwnKeys

(* A packet sent in the step by the first node of x, under an id of that   *)
(* pair, is sent under a session that x had.                               *)
LEMMA SentByOwner ==
    ASSUME Inv, Inv', OwnKeys, KeyStep, NEW x \in Pairs, NEW id, Between(id, x[1], x[2]),
           NEW msg \in net', msg \notin net, msg.kind = "data", msg.from = x[1], msg.id = id
    PROVE  /\ \E s \in SessionsOf(peer[x]) : s.id = id
           /\ \A t \in SessionsOf(peer'[x]) : t.id = id => msg.nonce < t.nonce
<1>1. Sent(msg)
  BY DEF KeyStep
<1>2. msg.to = x[2]
  BY <1>1, KeyTypes, SamePair DEF Sent
<1>3. <<msg.from, msg.to>> = x
  BY <1>2, KeyTypes
<1> QED
  BY <1>1, <1>3 DEF Sent

(* What is delivered in the step was in flight, and its receiver has the   *)
(* session.                                                                *)
LEMMA DeliveredToOwner ==
    ASSUME Inv, OwnKeys, KeyStep, NEW x \in Pairs, NEW id, Between(id, x[1], x[2]),
           NEW d \in tun', d \notin tun, d.id = id
    PROVE  \/ /\ d.from = x[1]
              /\ \E msg \in net : /\ msg.kind = "data" /\ msg.from = x[1]
                                  /\ msg.id = id /\ msg.nonce = d.nonce
           \/ /\ d.from = x[2]
              /\ \E t \in SessionsOf(peer[x]) : t.id = id
<1>1. Delivered(d)
  BY DEF KeyStep
<1>2. PICK msg \in net : /\ msg.kind = "data" /\ msg.from = d.from /\ msg.to = d.to
                         /\ msg.id = d.id /\ msg.nonce = d.nonce
  BY <1>1 DEF Delivered
<1>3. Between(id, d.from, d.to) /\ d.from # d.to
  BY <1>2, KeyTypes DEF OwnKeys
<1>4. CASE d.from = x[1]
  BY <1>2, <1>4
<1>5. CASE d.from = x[2]
  <2>1. d.to = x[1]
    BY <1>3, <1>5, KeyTypes, SamePair DEF Between
  <2>2. <<d.to, d.from>> = x
    BY <1>5, <2>1, KeyTypes
  <2> QED
    BY <1>1, <1>5, <2>2 DEF Delivered
<1>6. d.from = x[1] \/ d.from = x[2]
  BY <1>3, KeyTypes, SamePair
<1> QED
  BY <1>4, <1>5, <1>6

(* Whatever is in flight or was delivered is behind its sender's counter.  *)
LEMMA NoncesBehindStep ==
    ASSUME Inv, Inv', OwnKeys, NoncesBehind, KeyStep
    PROVE  NoncesBehind'
<1> SUFFICES ASSUME NEW x \in Pairs, NEW t \in SessionsOf(peer'[x])
             PROVE  /\ \A msg \in net' : msg.kind = "data" /\ msg.from = x[1] /\ msg.id = t.id =>
                                            msg.nonce < t.nonce
                    /\ \A d \in tun' : d.from = x[1] /\ d.id = t.id => d.nonce < t.nonce
  BY DEF NoncesBehind
<1>1. t.nonce \in Nat /\ Between(t.id, x[1], x[2])
  BY OwnKeysStep, KeyTypes, SessionsOfType DEF OwnKeys, Inv, TypeOK
<1>2. ASSUME NEW msg \in net, msg.kind = "data", msg.from = x[1], msg.id = t.id
      PROVE  msg.nonce < t.nonce
  <2>1. ~Established(x, t)
    BY <1>2 DEF Established, Unheard
  <2>2. PICK s \in SessionsOf(peer[x]) : Evolved(x, s, t)
    BY <2>1 DEF KeyStep, SessionsStep
  <2>3. msg.nonce < s.nonce /\ s.nonce <= t.nonce
    BY <1>2, <2>2 DEF NoncesBehind, Evolved
  <2>4. msg.nonce \in Nat /\ s.nonce \in Nat
    BY KeyTypes
  <2> QED
    BY <1>1, <2>3, <2>4, SMT
<1>3. ASSUME NEW msg \in net', msg.kind = "data", msg.from = x[1], msg.id = t.id
      PROVE  msg.nonce < t.nonce
  <2>1. CASE msg \in net
    BY <1>2, <1>3, <2>1
  <2>2. CASE msg \notin net
    BY <1>1, <1>3, <2>2, SentByOwner
  <2> QED
    BY <2>1, <2>2
<1>4. ASSUME NEW d \in tun', d.from = x[1], d.id = t.id
      PROVE  d.nonce < t.nonce
  <2>1. CASE d \in tun
    <3>1. ~Established(x, t)
      BY <1>4, <2>1 DEF Established, Unheard
    <3>2. PICK s \in SessionsOf(peer[x]) : Evolved(x, s, t)
      BY <3>1 DEF KeyStep, SessionsStep
    <3>3. d.nonce < s.nonce /\ s.nonce <= t.nonce
      BY <1>4, <2>1, <3>2 DEF NoncesBehind, Evolved
    <3>4. d.nonce \in Nat /\ s.nonce \in Nat
      BY <2>1, KeyTypes
    <3> QED
      BY <1>1, <3>3, <3>4, SMT
  <2>2. CASE d \notin tun
    <3>1. d.from # x[2]
      BY <1>4, KeyTypes
    <3>2. PICK msg \in net : /\ msg.kind = "data" /\ msg.from = x[1]
                             /\ msg.id = t.id /\ msg.nonce = d.nonce
      BY <1>1, <1>4, <2>2, <3>1, DeliveredToOwner
    <3> QED
      BY <1>2, <3>2
  <2> QED
    BY <2>1, <2>2
<1> QED
  BY <1>3, <1>4

(* A pending handshake's initiator goes on using nothing derived from it.  *)
LEMMA PendingUnusedStep ==
    ASSUME Inv, Inv', OwnKeys, KeyStep
    PROVE  PendingUnused'
<1> SUFFICES ASSUME NEW x \in Pairs, NEW id \in SessionId, Answers(peer'[x], id)
             PROVE  Unheard(x, id)'
  BY DEF PendingUnused
<1>1. Unheard(x, id)
  BY DEF KeyStep, PendingStep
<1>2. Between(id, x[1], x[2])
  <2>1. peer'[x] \in Peer
    BY DEF Inv, TypeOK
  <2>2. peer'[x].handshake # None /\ peer'[x].handshake.i = id.i /\ peer'[x].handshake.r = id.r
    BY <2>1, AnswersOwn
  <2> QED
    BY <2>2 DEF KeyStep, PendingStep, Between
<1>3. \A t \in SessionsOf(peer'[x]) : t.id # id
  BY <1>1 DEF KeyStep, SessionsStep, Established, Evolved, Unheard
<1>4. ASSUME NEW t \in SessionsOf(peer'[Back(x)]), t.id = id
      PROVE  ~t.replay.initialized
  <2>1. CASE \E s \in SessionsOf(peer[Back(x)]) : Evolved(Back(x), s, t)
    <3>1. PICK s \in SessionsOf(peer[Back(x)]) : Evolved(Back(x), s, t)
      BY <2>1
    <3>2. s.id = id /\ ~s.replay.initialized
      BY <1>1, <1>4, <3>1 DEF Evolved, Unheard
    <3>3. t.replay = s.replay
      BY <1>1, <3>1, <3>2, KeyTypes DEF Evolved, Unheard
    <3> QED
      BY <3>2, <3>3
  <2>2. CASE Established(Back(x), t)
    BY <2>2 DEF Established
  <2> QED
    BY <2>1, <2>2, KeyTypes DEF KeyStep, SessionsStep
<1>5. ASSUME NEW msg \in net', msg.kind = "data", msg.from = x[1]
      PROVE  msg.id # id
  <2>1. CASE msg \in net
    BY <1>1, <1>5, <2>1 DEF Unheard
  <2>2. CASE msg \notin net
    BY <1>1, <1>2, <1>5, <2>2, SentByOwner DEF Unheard
  <2> QED
    BY <2>1, <2>2
<1>6. ASSUME NEW d \in tun'
      PROVE  d.id # id
  <2>1. CASE d \in tun
    BY <1>1, <2>1 DEF Unheard
  <2>2. CASE d \notin tun
    BY <1>1, <1>2, <2>2, DeliveredToOwner DEF Unheard
  <2> QED
    BY <2>1, <2>2
<1> QED
  BY <1>3, <1>4, <1>5, <1>6 DEF Unheard

(* A window moves only to nonces that its sender's counter has passed.     *)
LEMMA WindowBehindStep ==
    ASSUME Inv, Inv', OwnKeys, NoncesBehind, WindowBehindSender, KeyStep
    PROVE  WindowBehindSender'
<1> SUFFICES ASSUME NEW x \in Pairs,
                    NEW s1 \in SessionsOf(peer'[x]), NEW t1 \in SessionsOf(peer'[Back(x)]),
                    s1.id = t1.id, t1.replay.initialized
             PROVE  t1.replay.last < s1.nonce
  BY DEF WindowBehindSender, Sessions, SessionsOf, Back
<1>1. s1.nonce \in Nat
  BY SessionsOfType DEF Inv, TypeOK
<1>2. PICK t \in SessionsOf(peer[Back(x)]) : Evolved(Back(x), t, t1)
  BY KeyTypes DEF KeyStep, SessionsStep, Established
<1>3. t.replay \in Window /\ t.replay.last \in Nat
  BY KeyTypes DEF Window
<1>4. CASE Established(x, s1)
  <2>1. t.id = s1.id /\ ~t.replay.initialized
    BY <1>2, <1>4 DEF Established, Evolved, Unheard
  <2>2. PICK msg \in net : msg.kind = "data" /\ msg.from = x[1] /\ msg.id = s1.id
    BY <1>2, <2>1, KeyTypes DEF Evolved
  <2> QED
    BY <1>4, <2>2 DEF Established, Unheard
<1>5. CASE \E s \in SessionsOf(peer[x]) : Evolved(x, s, s1)
  <2>1. PICK s \in SessionsOf(peer[x]) : Evolved(x, s, s1)
    BY <1>5
  <2>2. s.id = t.id /\ s.nonce <= s1.nonce /\ s.nonce \in Nat
    BY <1>2, <2>1, KeyTypes DEF Evolved
  <2>3. t.replay.initialized => t.replay.last < s.nonce
    BY <2>2 DEF WindowBehindSender, Sessions, SessionsOf, Back
  <2>4. CASE t1.replay = t.replay
    BY <1>1, <1>3, <2>2, <2>3, <2>4, SMT
  <2>5. CASE t1.replay # t.replay
    <3>1. PICK msg \in net : /\ msg.kind = "data" /\ msg.from = x[1] /\ msg.id = t.id
                             /\ Accepts(t.replay, msg.nonce)
                             /\ t1.replay = Updated(t.replay, msg.nonce)
      BY <1>2, <2>5, KeyTypes DEF Evolved
    <3>2. msg.nonce < s.nonce /\ msg.nonce \in Nat
      BY <2>2, <3>1, KeyTypes DEF NoncesBehind
    <3>3. \/ t1.replay.last = msg.nonce
          \/ t.replay.initialized /\ t1.replay.last = t.replay.last
      BY <1>3, <3>1, <3>2, UpdatedLast
    <3> QED
      BY <1>1, <1>3, <2>2, <2>3, <3>2, <3>3, SMT
  <2> QED
    BY <2>4, <2>5
<1> QED
  BY <1>4, <1>5 DEF KeyStep, SessionsStep

(* What was delivered is refused by every session that could open it.      *)
LEMMA DeliveredRefusedStep ==
    ASSUME Inv, Inv', OwnKeys, DeliveredRefused, KeyStep
    PROVE  DeliveredRefused'
<1> SUFFICES ASSUME NEW d \in tun', NEW t \in SessionsOf(peer'[<<d.to, d.from>>]), t.id = d.id
             PROVE  ~Accepts(t.replay, d.nonce)
  BY DEF DeliveredRefused
<1>1. CASE d \in tun
  <2> DEFINE x == <<d.to, d.from>>
  <2>1. x \in Pairs /\ d.nonce \in Nat
    BY <1>1 DEF Inv, TypeOK, Delivery, Pairs, OwnKeys, Between
  <2>2. ~Established(x, t)
    BY <1>1 DEF Established, Unheard
  <2>3. PICK s \in SessionsOf(peer[x]) : Evolved(x, s, t)
    BY <2>1, <2>2 DEF KeyStep, SessionsStep
  <2>4. ~Accepts(s.replay, d.nonce) /\ s.replay \in Window
    BY <1>1, <2>1, <2>3, KeyTypes DEF DeliveredRefused, Evolved
  <2>5. CASE t.replay = s.replay
    BY <2>4, <2>5
  <2>6. CASE t.replay # s.replay
    <3>1. PICK msg \in net : /\ Accepts(s.replay, msg.nonce)
                             /\ t.replay = Updated(s.replay, msg.nonce)
      BY <2>3, <2>6 DEF Evolved
    <3>2. msg.nonce \in Nat
      BY KeyTypes
    <3> QED
      BY <2>1, <2>4, <3>1, <3>2, RefusedStays
  <2> QED
    BY <2>5, <2>6
<1>2. CASE Delivered(d)
  BY <1>2 DEF Delivered
<1> QED
  BY <1>1, <1>2 DEF KeyStep

(* A step of that kind keeps the whole of KeyInv. *)
LEMMA KeyStepInv ==
    ASSUME Inv, Inv', KeyInv, KeyStep
    PROVE  KeyInv'
<1>1. KeysApart'
  BY DEF KeyStep, SessionsStep, KeysApart
<1> QED
  BY <1>1, OwnKeysStep, PendingUnusedStep, NoncesBehindStep, WindowBehindStep,
     DeliveredRefusedStep DEF KeyInv

-----------------------------------------------------------------------------

(* A key that is drawn belongs to no id yet (Noise draws it at random). *)
LEMMA FreshKey ==
    ASSUME Inv, OwnKeys, NEW n \in Nodes, NEW m \in Nodes, n # m, Unused(n, m) # {},
           NEW id, Between(id, n, m), Mine(n, id) = NewKey(n, m)
    PROVE  Unheard(<<n, m>>, id)
<1> DEFINE held(p) == {s.id : s \in {p.active, p.previous} \ {None}}
                         \cup ({p.handshake, p.packet} \ {None})
           sent == {msg.id : msg \in {k \in net : {k.from, k.to} = {n, m}}}
           delivered == {d.id : d \in {k \in tun : {k.from, k.to} = {n, m}}}
<1>1. IdsBetween(n, m) = held(peer[<<n, m>>]) \cup held(peer[<<m, n>>]) \cup sent \cup delivered
  BY DEF IdsBetween
<1>2. NewKey(n, m) \notin {Mine(n, k) : k \in IdsBetween(n, m)}
  BY NewKeyType DEF Unused
<1> HIDE DEF held, sent, delivered
<1>3. id \notin held(peer[<<n, m>>]) /\ id \notin held(peer[<<m, n>>])
      /\ id \notin sent /\ id \notin delivered
  BY <1>1, <1>2
<1>4. \A s \in SessionsOf(peer[<<n, m>>]) \cup SessionsOf(peer[<<m, n>>]) : s.id # id
  BY <1>3 DEF held, SessionsOf
<1>5. ASSUME NEW msg \in net PROVE msg.id # id
  <2>1. SUFFICES ASSUME msg.id = id PROVE FALSE
    OBVIOUS
  <2>2. {msg.from, msg.to} = {n, m}
    BY <2>1, KeyTypes, SamePair DEF OwnKeys, Between
  <2> QED
    BY <1>3, <2>1, <2>2 DEF sent
<1>6. ASSUME NEW d \in tun PROVE d.id # id
  <2>1. SUFFICES ASSUME d.id = id PROVE FALSE
    OBVIOUS
  <2>2. {d.from, d.to} = {n, m}
    BY <2>1, SamePair DEF OwnKeys, Between
  <2> QED
    BY <1>3, <2>1, <2>2 DEF delivered
<1> QED
  BY <1>4, <1>5, <1>6 DEF Unheard, Back

(* So a handshake begun with it has no session derived from it.            *)
LEMMA FreshHandshake ==
    ASSUME Inv, OwnKeys, NEW n \in Nodes, NEW m \in Nodes, n # m, Unused(n, m) # {},
           NEW q \in Peer, q.handshake = Initiation(n, m, NewKey(n, m))
    PROVE  /\ q.handshake.i = n /\ q.handshake.r = m
           /\ \A id \in SessionId : Answers(q, id) => Unheard(<<n, m>>, id)
<1>1. ASSUME NEW id \in SessionId, Answers(q, id)
      PROVE  Unheard(<<n, m>>, id)
  <2>1. id.i = n /\ id.r = m /\ id.ei = NewKey(n, m)
    BY <1>1, AnswersOwn DEF Initiation
  <2> QED
    BY <2>1, FreshKey DEF Between, Mine
<1> QED
  BY <1>1 DEF Initiation

(* Sessions that are only kept evolve. *)
LEMMA KeptSessions ==
    ASSUME KeysApart, NEW x \in Pairs, KeysKept(peer[x], peer'[x])
    PROVE  /\ TwoSessions(peer'[x])
           /\ \A t \in SessionsOf(peer'[x]) : \E s \in SessionsOf(peer[x]) : Evolved(x, s, t)
<1>1. TwoSessions(peer'[x])
  BY KeptTwoSessions DEF KeysApart
<1>2. \A t \in SessionsOf(peer'[x]) : \E s \in SessionsOf(peer[x]) : SameKeys(s, t)
  BY DEF KeysKept, SessionsOf
<1> QED
  BY <1>1, <1>2 DEF SameKeys, Evolved

(* A handshake that is still pending, or over, is as unused as before.     *)
LEMMA SamePendingStep ==
    ASSUME Inv', OwnKeys, PendingUnused, NEW x \in Pairs,
           peer'[x].handshake \in {peer[x].handshake, None}
    PROVE  /\ peer'[x].handshake # None =>
                  peer'[x].handshake.i = x[1] /\ peer'[x].handshake.r = x[2]
           /\ \A id \in SessionId : Answers(peer'[x], id) => Unheard(x, id)
<1>1. peer'[x] \in Peer
  BY DEF Inv, TypeOK
<1>2. ASSUME NEW id \in SessionId, Answers(peer'[x], id)
      PROVE  Answers(peer[x], id)
  BY <1>1, <1>2, AnswersOwn DEF Answers
<1> QED
  BY <1>2 DEF OwnKeys, OwnHandshake, PendingUnused

(* Steps that establish, send and deliver nothing. *)
LEMMA QuietStep ==
    ASSUME Inv', KeyInv,
           \A x \in Pairs : /\ KeysKept(peer[x], peer'[x])
                            /\ peer'[x].handshake \in {peer[x].handshake, None},
           net' \subseteq net, tun' = tun
    PROVE  KeyStep
<1>1. SessionsStep
  BY KeptSessions DEF SessionsStep, KeyInv
<1>2. PendingStep
  BY SamePendingStep DEF PendingStep, KeyInv
<1> QED
  BY <1>1, <1>2 DEF KeyStep

(* A second passes. *)
LEMMA TickKeys ==
    ASSUME Inv, Inv', KeyInv, Tick
    PROVE  KeyStep
<1>1. ASSUME NEW x \in Pairs
      PROVE  KeysKept(peer[x], peer'[x]) /\ peer'[x].handshake = peer[x].handshake
  <2>1. peer[x] \in Peer /\ peer'[x] = Aged(peer[x])
    BY DEF Tick, Inv, TypeOK
  <2>2. Aged(peer[x]).handshake = peer[x].handshake
    BY <2>1 DEF Aged, Peer
  <2> QED
    BY <2>1, <2>2, AgedKeeps
<1>2. net' = net /\ tun' = tun
  BY DEF Tick
<1> QED
  BY <1>1, <1>2, QuietStep

(* A poll changes endpoints only. *)
LEMMA PollKeys ==
    ASSUME Inv, Inv', KeyInv, NEW n \in Nodes, Poll(n)
    PROVE  KeyStep
<1>1. ASSUME NEW x \in Pairs
      PROVE  KeysKept(peer[x], peer'[x]) /\ peer'[x].handshake = peer[x].handshake
  <2>1. peer[x] \in Peer
    BY DEF Inv, TypeOK
  <2>2. \/ peer'[x] = peer[x]
        \/ peer'[x] = [peer[x] EXCEPT !.endpoint = Advertised[x[2]]]
    BY DEF Poll
  <2>3. /\ peer'[x].active = peer[x].active /\ peer'[x].previous = peer[x].previous
        /\ peer'[x].handshake = peer[x].handshake
    BY <2>1, <2>2 DEF Peer
  <2> QED
    BY <2>1, <2>3, Untouched
<1>2. net' = net /\ tun' = tun
  BY DEF Poll
<1> QED
  BY <1>1, <1>2, QuietStep

(* A daemon moves, packets vanish or are lost: the tables are untouched. *)
LEMMA UntouchedKeys ==
    ASSUME Inv, Inv', KeyInv, peer' = peer, net' \subseteq net, tun' = tun
    PROVE  KeyStep
<1>1. \A x \in Pairs : KeysKept(peer[x], peer'[x])
  BY Untouched DEF Inv, TypeOK
<1> QED
  BY <1>1, QuietStep

(* A daemon that restarts has no keys. *)
LEMMA RestartKeys ==
    ASSUME Inv, Inv', KeyInv, NEW n \in Nodes, Restart(n)
    PROVE  KeyStep
<1>1. ASSUME NEW x \in Pairs
      PROVE  /\ KeysKept(peer[x], peer'[x])
             /\ peer'[x].handshake \in {peer[x].handshake, None}
  <2>1. peer[x] \in Peer
    BY DEF Inv, TypeOK
  <2>2. peer'[x] = peer[x] \/ peer'[x] = NewPeer(Advertised[x[2]])
    BY DEF Restart
  <2>3. /\ peer'[x].active \in {peer[x].active, None}
        /\ peer'[x].previous \in {peer[x].previous, None}
        /\ peer'[x].handshake \in {peer[x].handshake, None}
    BY <2>2 DEF NewPeer
  <2> QED
    BY <2>1, <2>3, Untouched
<1>2. net' = net /\ tun' = tun
  BY DEF Restart
<1> QED
  BY <1>1, <1>2, QuietStep

(* What is sent adds to what is in flight, and so does what answers it.    *)
LEMMA InFlightAfter ==
    /\ \A packets : Send(packets) => net' \subseteq net \cup packets
    /\ \A msg \in net : \A answers : Deliver(msg, answers) => net' \subseteq net \cup answers
<1>1. ASSUME NEW packets, Send(packets) PROVE net' \subseteq net \cup packets
  BY <1>1 DEF Send, Room
<1>2. ASSUME NEW msg \in net, NEW answers, Deliver(msg, answers)
      PROVE  net' \subseteq net \cup answers
  BY <1>2 DEF Deliver, Room
<1> QED
  BY <1>1, <1>2

(* What a packet says. *)
LEMMA PacketFields ==
    ASSUME NEW kind, NEW n, NEW m, NEW dest, NEW id, NEW nonce, NEW load,
           NEW msg \in Packet(kind, n, m, dest, id, nonce, load)
    PROVE  /\ msg.kind = kind /\ msg.from = n /\ msg.to = m
           /\ msg.id = id /\ msg.nonce = nonce
BY DEF Packet

(* The TUN task encrypts under the active session and uses up its nonce.   *)
LEMMA TunEncryptsKeys ==
    ASSUME Inv, Inv', KeyInv, NEW n \in Nodes, NEW m \in Nodes, n # m, NEW load,
           TunEncrypts(n, m, load)
    PROVE  KeyStep
<1> DEFINE x == <<n, m>>
           p == peer[x]
           q == Encrypt(p, 1)
           packets == Packet("data", n, m, Dest(p), p.active.id, p.active.nonce, load)
<1>1. x \in Pairs /\ p \in Peer /\ p.active # None
  BY PairPeers DEF TunEncrypts, Inv
<1>2. /\ KeysKept(p, q) /\ q.active # None /\ q.active.id = p.active.id
      /\ q.active.nonce = p.active.nonce + 1 /\ q.previous = p.previous
  BY <1>1, EncryptKeeps
<1>3. q.handshake = p.handshake
  BY <1>1 DEF Encrypt, Peer
<1>4. peer' = [peer EXCEPT ![x] = q] /\ Send(packets) /\ tun' = tun
  BY DEF TunEncrypts
<1> HIDE DEF q, packets
<1>5. peer'[x] = q /\ \A y \in Pairs : y # x => peer'[y] = peer[y]
  BY <1>1, <1>4 DEF Inv, TypeOK
<1>6. \A y \in Pairs : KeysKept(peer[y], peer'[y]) /\ peer'[y].handshake = peer[y].handshake
  BY <1>1, <1>2, <1>3, <1>5, Untouched, KeyTypes
<1>7. SessionsStep /\ PendingStep
  BY <1>6, KeptSessions, SamePendingStep DEF SessionsStep, PendingStep, KeyInv
<1>8. ASSUME NEW msg \in packets PROVE Sent(msg)
  <2>1. /\ msg.kind = "data" /\ <<msg.from, msg.to>> = x /\ msg.from = n /\ msg.to = m
        /\ msg.id = p.active.id /\ msg.nonce = p.active.nonce
    BY <1>8, PacketFields DEF packets
  <2>2. p.active \in SessionsOf(p) /\ p.active.nonce \in Nat
    BY <1>1, SessionsOfType DEF SessionsOf
  <2>3. Between(msg.id, n, m)
    BY <1>1, <2>1, <2>2 DEF KeyInv, OwnKeys
  <2>4. \A t \in SessionsOf(q) : t.id = msg.id => t = q.active
    <3>1. TwoSessions(q)
      BY <1>1, <1>2, KeptTwoSessions DEF KeyInv, KeysApart
    <3> QED
      BY <1>2, <2>1, <3>1 DEF SessionsOf, TwoSessions
  <2>5. msg.nonce < q.active.nonce
    BY <1>2, <2>1, <2>2, SMT
  <2> HIDE DEF x, p
  <2> QED
    BY <1>5, <2>1, <2>2, <2>3, <2>4, <2>5 DEF Sent, p
<1>9. net' \subseteq net \cup packets
  BY <1>4, InFlightAfter
<1> QED
  BY <1>4, <1>7, <1>8, <1>9 DEF KeyStep

(* The TUN task triggers a handshake with a key of its own. *)
LEMMA TunTriggersKeys ==
    ASSUME Inv, Inv', KeyInv, NEW n \in Nodes, NEW m \in Nodes, n # m, TunTriggers(n, m)
    PROVE  KeyStep
<1> DEFINE x == <<n, m>>
           p == peer[x]
           init == Initiation(n, m, NewKey(n, m))
           q == InitiateHandshake(p, init)
           packets == Packet("init", n, m, Dest(p), init, 0, "empty")
<1>1. x \in Pairs /\ p \in Peer /\ Unused(n, m) # {}
  BY PairPeers DEF TunTriggers, Inv
<1>2. q.active = p.active /\ q.previous = p.previous /\ q.handshake = init
  BY <1>1 DEF InitiateHandshake, Peer
<1>3. peer' = [peer EXCEPT ![x] = q] /\ Send(packets) /\ tun' = tun
  BY DEF TunTriggers
<1>4. peer'[x] = q /\ \A y \in Pairs : y # x => peer'[y] = peer[y]
  BY <1>1, <1>3 DEF Inv, TypeOK
<1>5. SessionsStep
  <2>1. \A y \in Pairs : KeysKept(peer[y], peer'[y])
    BY <1>2, <1>4, Untouched, KeyTypes
  <2> QED
    BY <2>1, KeptSessions DEF SessionsStep, KeyInv
<1>6. PendingStep
  <2>1. q \in Peer
    BY <1>1, <1>4 DEF Inv, TypeOK
  <2>2. /\ q.handshake.i = n /\ q.handshake.r = m
        /\ \A id \in SessionId : Answers(q, id) => Unheard(x, id)
    BY <1>1, <1>2, <2>1, FreshHandshake DEF KeyInv
  <2> HIDE DEF q
  <2> QED
    BY <1>4, <2>2, SamePendingStep DEF PendingStep, KeyInv
<1>7. ASSUME NEW msg \in packets PROVE Sent(msg)
  BY <1>7, PacketFields DEF Sent, Between, Initiation
<1>8. net' \subseteq net \cup packets
  BY <1>3, InFlightAfter
<1> QED
  BY <1>3, <1>5, <1>6, <1>7, <1>8 DEF KeyStep

(* The timer task: new handshakes have new keys, keepalives are numbered   *)
(* like every other packet.                                                *)
LEMMA TimerKeys ==
    ASSUME Inv, Inv', KeyInv, NEW n \in Nodes, Timer(n)
    PROVE  KeyStep
<1> DEFINE init(m) == Initiation(n, m, NewKey(n, m))
           packets == UNION {TimerSends(n, m, init(m)) : m \in PeersOf(n)}
<1>1. /\ \A x \in Pairs : x[1] # n => peer'[x] = peer[x]
      /\ Send(packets) /\ tun' = tun
  BY DEF Timer
<1>2. ASSUME NEW m \in PeersOf(n)
      PROVE  /\ <<n, m>> \in Pairs /\ m \in Nodes /\ m # n
             /\ peer[<<n, m>>] \in Peer /\ RetryArmed(peer[<<n, m>>])
             /\ peer'[<<n, m>>] = TimerPeer(peer[<<n, m>>], init(m))
             /\ peer'[<<n, m>>] \in Peer
             /\ StartsHandshake(peer[<<n, m>>]) => init(m) \in InitId /\ Unused(n, m) # {}
  <2>1. <<n, m>> \in Pairs /\ m \in Nodes /\ m # n
    BY DEF PeersOf, Pairs
  <2>2. StartsHandshake(peer[<<n, m>>]) => init(m) \in InitId /\ Unused(n, m) # {}
    BY <2>1, NewKeyType, IdKinds DEF Timer
  <2> QED
    BY <2>1, <2>2, ArmedEverywhere DEF Timer, Inv, TypeOK
<1>3. \A x \in Pairs : x[1] = n => x[2] \in PeersOf(n) /\ x = <<n, x[2]>>
  BY DEF Pairs, PeersOf
<1>4. ASSUME NEW m \in PeersOf(n)
      PROVE  LET p == peer[<<n, m>>]
                 q == DetectDead(Rotate(p, init(m)))
                 t == peer'[<<n, m>>]
             IN  /\ KeysKept(p, t)
                 /\ KeepaliveDue(q) =>
                       /\ p.active # None /\ q.active.id = p.active.id
                       /\ t.active # None /\ t.active.id = q.active.id
                       /\ t.active.nonce = q.active.nonce + 1
                 /\ t.handshake # p.handshake => StartsHandshake(p) /\ t.handshake = init(m)
  <2> HIDE DEF init
  <2> QED
    BY <1>2, TimerPeerKeeps
<1>5. SessionsStep
  <2>1. \A x \in Pairs : KeysKept(peer[x], peer'[x])
    <3>1. TAKE x \in Pairs
    <3>2. CASE x[1] = n
      BY <1>3, <1>4, <3>2
    <3>3. CASE x[1] # n
      BY <1>1, <3>3, Untouched, KeyTypes
    <3> QED
      BY <3>2, <3>3
  <2> QED
    BY <2>1, KeptSessions DEF SessionsStep, KeyInv
<1>6. PendingStep
  <2> SUFFICES ASSUME NEW x \in Pairs
               PROVE  /\ peer'[x].handshake # None =>
                             peer'[x].handshake.i = x[1] /\ peer'[x].handshake.r = x[2]
                      /\ \A id \in SessionId : Answers(peer'[x], id) => Unheard(x, id)
    BY DEF PendingStep
  <2>1. CASE peer'[x].handshake = peer[x].handshake
    BY <2>1, SamePendingStep DEF KeyInv
  <2>2. CASE peer'[x].handshake # peer[x].handshake
    <3>1. x[1] = n /\ x[2] \in PeersOf(n) /\ x = <<n, x[2]>>
      BY <1>1, <1>3, <2>2
    <3>2. /\ StartsHandshake(peer[x]) /\ peer'[x].handshake = init(x[2])
          /\ peer'[x] \in Peer /\ Unused(n, x[2]) # {} /\ x[2] \in Nodes /\ x[2] # n
      BY <1>2, <1>4, <2>2, <3>1
    <3> QED
      BY <3>1, <3>2, FreshHandshake DEF KeyInv
  <2> QED
    BY <2>1, <2>2
<1>7. ASSUME NEW m \in PeersOf(n), NEW msg \in TimerSends(n, m, init(m))
      PROVE  Sent(msg)
  <2> DEFINE p == peer[<<n, m>>]
             t == peer'[<<n, m>>]
             q == DetectDead(Rotate(p, init(m)))
             r == SendKeepalive(q)
  <2>1. /\ msg.from = n /\ msg.to = m
        /\ \/ /\ RotationDue(p) \/ InitiateDue(r) \/ RetransmitDue(r)
              /\ msg.kind = "init" /\ msg.id = Retry(r, init(m)).packet
           \/ /\ KeepaliveDue(q) /\ msg.kind = "data"
              /\ msg.id = q.active.id /\ msg.nonce = q.active.nonce
    <3> HIDE DEF init
    <3> QED
      BY <1>7, PacketFields DEF TimerSends
  <2>2. CASE msg.kind = "init"
    <3>1. RotationDue(p) \/ InitiateDue(r) \/ RetransmitDue(r)
      BY <2>1, <2>2
    <3>2. RetryArmed(t) /\ Retry(r, init(m)).packet \in InitId /\ t = Retry(r, init(m))
      <4> HIDE DEF init
      <4> QED
        BY <1>2, <3>1, TimerPeerArmed DEF TimerPeer
    <3>3. msg.id = t.handshake /\ t.handshake # None
      BY <2>1, <2>2, <3>2, PeerAssumption DEF RetryArmed
    <3> HIDE DEF t
    <3>4. msg.id.i = n /\ msg.id.r = m
      BY <1>2, <1>6, <3>3 DEF PendingStep, t
    <3> QED
      BY <2>1, <2>2, <3>4 DEF Sent, Between
  <2>3. CASE msg.kind = "data"
    <3>1. KeepaliveDue(q) /\ msg.id = q.active.id /\ msg.nonce = q.active.nonce
      BY <2>1, <2>3
    <3>2. /\ p.active # None /\ msg.id = p.active.id
          /\ t.active # None /\ t.active.id = msg.id
          /\ t.active.nonce = msg.nonce + 1
      BY <1>4, <3>1
    <3>3. TwoSessions(t)
      BY <1>2, <1>5 DEF SessionsStep
    <3>4. \A u \in SessionsOf(t) : u.id = msg.id => u = t.active
      BY <3>2, <3>3 DEF SessionsOf, TwoSessions
    <3>5. msg.nonce \in Nat
      <4>1. q \in Peer
        <5> HIDE DEF init
        <5> QED
          BY <1>2, RotateType, DetectDeadType DEF StartsHandshake
      <4>2. q.active \in Session
        <5> HIDE DEF q
        <5> QED
          BY <3>1, <4>1 DEF KeepaliveDue, Peer
      <4> QED
        BY <3>1, <4>2 DEF Session
    <3>6. p.active \in SessionsOf(p) /\ Between(msg.id, n, m)
      BY <1>2, <3>2 DEF SessionsOf, KeyInv, OwnKeys
    <3>7. \A u \in SessionsOf(t) : u.id = msg.id => msg.nonce < u.nonce
      BY <3>2, <3>4, <3>5, SMT
    <3> HIDE DEF p, t
    <3> QED
      BY <2>1, <2>3, <3>2, <3>6, <3>7 DEF Sent, p, t
  <2> QED
    BY <2>1, <2>2, <2>3
<1>8. net' \subseteq net \cup packets
  BY <1>1, InFlightAfter
<1> QED
  BY <1>1, <1>5, <1>6, <1>7, <1>8 DEF KeyStep

(* The pairs that a handler leaves alone. *)
LEMMA OtherPairs ==
    ASSUME Inv, Inv', KeyInv, NEW x \in Pairs, peer'[x] = peer[x]
    PROVE  /\ TwoSessions(peer'[x])
           /\ \A t \in SessionsOf(peer'[x]) : \E s \in SessionsOf(peer[x]) : Evolved(x, s, t)
           /\ peer'[x].handshake # None =>
                 peer'[x].handshake.i = x[1] /\ peer'[x].handshake.r = x[2]
           /\ \A id \in SessionId : Answers(peer'[x], id) => Unheard(x, id)
<1>1. KeysKept(peer[x], peer'[x])
  BY KeyTypes, Untouched
<1> QED
  BY <1>1, KeptSessions, SamePendingStep DEF KeyInv

(* A session with an id that its owner never used is established.          *)
LEMMA NewKeys ==
    ASSUME Inv, Inv', KeyInv, NEW x \in Pairs, NEW id \in SessionId,
           Between(id, x[1], x[2]), Unheard(x, id), ~Answers(peer'[x], id),
           NEW p \in Peer, SessionsOf(p) = SessionsOf(peer[x]), TwoSessions(p),
           SessionsOf(peer'[x]) = SessionsOf(Install(p, id)),
           TwoSessions(peer'[x]) <=> TwoSessions(Install(p, id))
    PROVE  /\ TwoSessions(peer'[x])
           /\ \A t \in SessionsOf(peer'[x]) :
                 (\E s \in SessionsOf(peer[x]) : Evolved(x, s, t)) \/ Established(x, t)
<1>1. \A s \in SessionsOf(p) : s.id # id
  BY DEF Unheard
<1>2. /\ \A t \in SessionsOf(peer'[x]) : t \in SessionsOf(peer[x]) \/ t = NewSession(id)
      /\ TwoSessions(peer'[x]) /\ ~NewSession(id).replay.initialized
  BY <1>1, InstallSessions
<1>3. Established(x, NewSession(id))
  BY <1>2, NewSessionType DEF Established
<1>4. \A s \in SessionsOf(peer[x]) : Evolved(x, s, s)
  <2>1. ASSUME NEW s \in SessionsOf(peer[x]) PROVE s.nonce >= s.nonce
    <3>1. s.nonce \in Nat
      BY KeyTypes
    <3> QED
      BY <3>1, SMT
  <2> QED
    BY <2>1 DEF Evolved
<1> QED
  BY <1>2, <1>3, <1>4

(* An initiation is answered with a key that nothing refers to. *)
LEMMA RecvInitKeys ==
    ASSUME Inv, Inv', KeyInv, NEW n \in Nodes, NEW msg \in net, RecvInit(n, msg)
    PROVE  KeyStep
<1> DEFINE m == msg.from
           x == <<n, m>>
           p == IF msg.dst = Relay THEN peer[x] ELSE HeardFrom(peer[x], msg.src)
           id == [msg.id EXCEPT !.er = NewKey(n, m)]
           answers == Packet("resp", n, m, msg.src, id, 0, "empty")
<1>1. /\ n # m /\ m \in Nodes /\ msg.id \in InitId /\ msg.to = n /\ msg.kind = "init"
      /\ Unused(n, m) # {}
  BY InFlight DEF RecvInit
<1>2. x \in Pairs /\ peer[x] \in Peer /\ peer'[x] \in Peer
  BY <1>1, PairPeers DEF Inv, TypeOK
<1>3. msg.id.i = m /\ msg.id.r = n
  BY <1>1 DEF KeyInv, OwnKeys, Between
<1>4. id \in SessionId /\ id.i = m /\ id.r = n /\ id.er = NewKey(n, m)
  BY <1>1, <1>3, NewKeyType DEF InitId, SessionId
<1>5. /\ peer' = [peer EXCEPT ![x] = Install(p, id)]
      /\ Deliver(msg, answers) /\ tun' = tun
  BY DEF RecvInit
<1>6. /\ p \in Peer /\ p.handshake = peer[x].handshake
      /\ p.active = peer[x].active /\ p.previous = peer[x].previous
  <2>1. msg.dst # Relay => HeardFrom(peer[x], msg.src) \in Peer
    BY <1>2, InFlight, HeardFromType
  <2> QED
    BY <1>2, <2>1 DEF HeardFrom, Peer
<1> HIDE DEF p, id, answers
<1>7. Install(p, id).handshake = peer[x].handshake
  BY <1>6 DEF Install, Peer
<1>8. peer'[x] = Install(p, id) /\ \A y \in Pairs : y # x => peer'[y] = peer[y]
  BY <1>2, <1>5 DEF Inv, TypeOK
<1>9. Between(id, n, m) /\ Unheard(x, id) /\ ~Answers(peer'[x], id)
  <2>1. Between(id, n, m) /\ Mine(n, id) = NewKey(n, m)
    BY <1>1, <1>4 DEF Between, Mine
  <2>2. Unheard(x, id)
    BY <1>1, <2>1, FreshKey DEF KeyInv
  <2>3. ASSUME Answers(peer'[x], id) PROVE FALSE
    <3>1. peer[x].handshake # None /\ peer[x].handshake.i = m
      BY <1>2, <1>4, <1>7, <1>8, <2>3, AnswersOwn
    <3> QED
      BY <1>1, <1>2, <3>1 DEF KeyInv, OwnKeys, OwnHandshake
  <2> QED
    BY <2>1, <2>2, <2>3
<1>10. SessionsStep
  <2>1. /\ SessionsOf(p) = SessionsOf(peer[x]) /\ TwoSessions(p)
    BY <1>2, <1>6 DEF SessionsOf, TwoSessions, KeyInv, KeysApart
  <2>2. /\ TwoSessions(peer'[x])
        /\ \A t \in SessionsOf(peer'[x]) :
              (\E s \in SessionsOf(peer[x]) : Evolved(x, s, t)) \/ Established(x, t)
    BY <1>2, <1>4, <1>6, <1>8, <1>9, <2>1, NewKeys
  <2> QED
    BY <1>8, <2>2, OtherPairs DEF SessionsStep
<1>11. PendingStep
  <2>1. \A y \in Pairs : peer'[y].handshake = peer[y].handshake
    BY <1>7, <1>8
  <2> QED
    BY <2>1, SamePendingStep DEF PendingStep, KeyInv
<1>12. ASSUME NEW sent \in answers PROVE Sent(sent)
  <2>1. sent.kind = "resp" /\ sent.from = n /\ sent.to = m /\ sent.id = id
    BY <1>12, PacketFields DEF answers
  <2> QED
    BY <1>9, <2>1 DEF Sent
<1>13. net' \subseteq net \cup answers
  BY <1>5, InFlightAfter
<1> QED
  BY <1>5, <1>10, <1>11, <1>12, <1>13 DEF KeyStep

(* A response is handled where it is an answer, and nowhere else.          *)
LEMMA ResponseKeys ==
    ASSUME Inv, Inv', KeyInv, NEW x \in Pairs, NEW id \in SessionId,
           peer'[x] = HandleResponse(peer[x], id)
               \/ peer'[x] = [HandleResponse(peer[x], id) EXCEPT !.direct = 0]
    PROVE  /\ TwoSessions(peer'[x])
           /\ \A t \in SessionsOf(peer'[x]) :
                 (\E s \in SessionsOf(peer[x]) : Evolved(x, s, t)) \/ Established(x, t)
           /\ peer'[x].handshake # None =>
                 peer'[x].handshake.i = x[1] /\ peer'[x].handshake.r = x[2]
           /\ \A k \in SessionId : Answers(peer'[x], k) => Unheard(x, k)
<1> DEFINE p == peer[x]
           q == HandleResponse(p, id)
<1>1. p \in Peer /\ peer'[x] \in Peer /\ q \in Peer
  BY HandleResponseType DEF Inv, TypeOK
<1>2. /\ peer'[x].active = q.active /\ peer'[x].previous = q.previous
      /\ peer'[x].handshake = q.handshake
  <2> HIDE DEF q
  <2> QED
    BY <1>1 DEF q, p, Peer
<1>3. /\ SessionsOf(peer'[x]) = SessionsOf(q)
      /\ TwoSessions(peer'[x]) <=> TwoSessions(q)
  BY <1>2 DEF SessionsOf, TwoSessions
<1>4. CASE Answers(p, id)
  <2>1. /\ SessionsOf(q) = SessionsOf(Install(p, id))
        /\ TwoSessions(q) <=> TwoSessions(Install(p, id))
        /\ q.handshake = None
    BY <1>1, <1>4, AnsweredSessions
  <2>2. Unheard(x, id) /\ Between(id, x[1], x[2])
    BY <1>1, <1>4, AnswersOwn DEF KeyInv, PendingUnused, OwnKeys, OwnHandshake, Between
  <2>3. ~Answers(peer'[x], id)
    BY <1>1, <1>2, <2>1, AnswersOwn
  <2>4. TwoSessions(p)
    BY DEF KeyInv, KeysApart
  <2> HIDE DEF q
  <2>5. /\ TwoSessions(peer'[x])
        /\ \A t \in SessionsOf(peer'[x]) :
              (\E s \in SessionsOf(peer[x]) : Evolved(x, s, t)) \/ Established(x, t)
    BY <1>1, <1>3, <2>1, <2>2, <2>3, <2>4, NewKeys
  <2> QED
    BY <1>2, <2>1, <2>5, SamePendingStep DEF KeyInv
<1>5. CASE ~Answers(p, id)
  <2>1. q = p
    BY <1>5 DEF HandleResponse
  <2>2. KeysKept(p, peer'[x]) /\ peer'[x].handshake = p.handshake
    BY <1>1, <1>2, <2>1, Untouched
  <2> QED
    BY <2>2, KeptSessions, SamePendingStep DEF KeyInv
<1> QED
  BY <1>4, <1>5

(* A response completes the handshake it answers. *)
LEMMA RecvRespKeys ==
    ASSUME Inv, Inv', KeyInv, NEW n \in Nodes, NEW msg \in net, RecvResp(n, msg)
    PROVE  KeyStep
<1>1. msg.id \in SessionId
  BY InFlight DEF RecvResp
<1>2. ASSUME NEW x \in Pairs
      PROVE  \/ peer'[x] = peer[x]
             \/ peer'[x] = HandleResponse(peer[x], msg.id)
             \/ peer'[x] = [HandleResponse(peer[x], msg.id) EXCEPT !.direct = 0]
  BY DEF RecvResp, Inv, TypeOK
<1>3. SessionsStep /\ PendingStep
  BY <1>1, <1>2, OtherPairs, ResponseKeys DEF SessionsStep, PendingStep
<1>4. net' \subseteq net /\ tun' = tun
  BY InFlightAfter DEF RecvResp
<1> QED
  BY <1>3, <1>4 DEF KeyStep

(* A data packet moves the window of the session that opens it.            *)
LEMMA RecvDataKeys ==
    ASSUME Inv, Inv', KeyInv, NEW n \in Nodes, NEW msg \in net, RecvData(n, msg)
    PROVE  KeyStep
<1> DEFINE m == msg.from
           x == <<n, m>>
           p == peer[x]
           q == Decrypted(p, msg.id, msg.nonce)
           opened == Tried(n, m, msg) /\ Decrypts(p, msg.id, msg.nonce)
           d == [from |-> m, to |-> n, id |-> msg.id, nonce |-> msg.nonce]
<1>1. n # m /\ m \in Nodes /\ msg.id \in SessionId /\ msg.nonce \in Nat /\ msg.to = n
      /\ msg.kind = "data"
  BY InFlight DEF RecvData
<1>2. x \in Pairs /\ p \in Peer /\ peer'[x] \in Peer /\ q \in Peer
  BY <1>1, PairPeers, DecryptedType DEF Inv, TypeOK
<1>3. /\ \A y \in Pairs : y # x => peer'[y] = peer[y]
      /\ ~opened => peer'[x] = p
      /\ opened => peer'[x] = q \/ peer'[x] = HeardFrom(q, msg.src)
      /\ tun' = tun \/ (opened /\ tun' = tun \cup {d})
      /\ Deliver(msg, {})
  BY <1>1, <1>2 DEF RecvData, Inv, TypeOK
<1>4. q.handshake = p.handshake
  BY <1>1, <1>2, PendingKept DEF SamePending
<1>5. opened => /\ peer'[x].active = q.active /\ peer'[x].previous = q.previous
                /\ peer'[x].handshake = p.handshake
  BY <1>2, <1>3, <1>4 DEF HeardFrom, Peer
<1>6. net' \subseteq net
  BY <1>3, InFlightAfter
<1> HIDE DEF opened
<1>7. CASE ~opened
  <2>1. \A y \in Pairs : peer'[y] = peer[y]
    BY <1>3, <1>7
  <2> QED
    BY <1>3, <1>6, <1>7, <2>1, OtherPairs DEF KeyStep, SessionsStep, PendingStep
<1>8. CASE opened
  <2>1. /\ TwoSessions(q)
        /\ \E s \in SessionsOf(p) : s.id = msg.id
        /\ \A t \in SessionsOf(q) : \E s \in SessionsOf(p) :
              /\ t.id = s.id /\ t.nonce = s.nonce
              /\ \/ t.replay = s.replay
                 \/ /\ s.id = msg.id /\ Accepts(s.replay, msg.nonce)
                    /\ t.replay = Updated(s.replay, msg.nonce)
        /\ \A t \in SessionsOf(q) : t.id = msg.id => ~Accepts(t.replay, msg.nonce)
    BY <1>1, <1>2, <1>8, DecryptedSessions DEF opened, KeyInv, KeysApart
  <2> HIDE DEF q
  <2>2. SessionsOf(peer'[x]) = SessionsOf(q) /\ TwoSessions(peer'[x])
    BY <1>5, <1>8, <2>1 DEF SessionsOf, TwoSessions
  <2>3. \A t \in SessionsOf(peer'[x]) : \E s \in SessionsOf(p) : Evolved(x, s, t)
    <3>1. TAKE t \in SessionsOf(peer'[x])
    <3>2. PICK s \in SessionsOf(p) :
              /\ t.id = s.id /\ t.nonce = s.nonce
              /\ \/ t.replay = s.replay
                 \/ /\ s.id = msg.id /\ Accepts(s.replay, msg.nonce)
                    /\ t.replay = Updated(s.replay, msg.nonce)
      BY <2>1, <2>2
    <3>3. s.nonce \in Nat /\ t.nonce >= s.nonce
      <4>1. s.nonce \in Nat
        BY <1>2, SessionsOfType
      <4> QED
        BY <3>2, <4>1, SMT
    <3> QED
      BY <1>1, <3>2, <3>3 DEF Evolved
  <2>4. SessionsStep
    BY <1>2, <1>3, <2>2, <2>3, OtherPairs DEF SessionsStep
  <2>5. PendingStep
    <3>1. \A y \in Pairs : peer'[y].handshake = peer[y].handshake
      BY <1>3, <1>5, <1>8
    <3> QED
      BY <3>1, SamePendingStep DEF PendingStep, KeyInv
  <2>6. Delivered(d)
    <3>1. \A t \in SessionsOf(peer'[x]) : t.id = d.id => ~Accepts(t.replay, d.nonce)
      BY <2>1, <2>2
    <3> QED
      BY <1>1, <2>1, <3>1 DEF Delivered
  <2> QED
    BY <1>3, <1>6, <2>4, <2>5, <2>6 DEF KeyStep
<1> QED
  BY <1>7, <1>8

-----------------------------------------------------------------------------

(* Daemons start without keys. *)
LEMMA InitKeys == Init => KeyInv
<1> SUFFICES ASSUME Init PROVE KeyInv
  OBVIOUS
<1>1. net = {} /\ tun = {}
  BY DEF Init
<1>2. ASSUME NEW x \in Pairs
      PROVE  /\ peer[x] \in Peer /\ peer[x].handshake = None
             /\ SessionsOf(peer[x]) = {} /\ TwoSessions(peer[x])
  <2>1. peer[x] \in Peer
    BY InitInv DEF Inv, TypeOK
  <2>2. /\ peer[x].handshake = None /\ peer[x].active = None /\ peer[x].previous = None
    BY DEF Init, NewPeer
  <2> QED
    BY <2>1, <2>2 DEF SessionsOf, TwoSessions
<1>3. OwnKeys /\ KeysApart
  BY <1>1, <1>2 DEF OwnKeys, OwnHandshake, KeysApart
<1>4. PendingUnused
  BY <1>2, AnswersOwn DEF PendingUnused
<1>5. NoncesBehind /\ DeliveredRefused
  BY <1>1, <1>2 DEF NoncesBehind, DeliveredRefused
<1>6. WindowBehindSender
  BY <1>2 DEF WindowBehindSender, Sessions, SessionsOf
<1> QED
  BY <1>3, <1>4, <1>5, <1>6 DEF KeyInv

(* Every step is one of that kind, or changes nothing the keys depend on. *)
LEMMA NextKeys == Inv /\ Inv' /\ KeyInv /\ [Next]_vars => KeyInv'
<1> SUFFICES ASSUME Inv, Inv', KeyInv, [Next]_vars PROVE KeyStep
  BY KeyStepInv
<1>1. CASE Tick
  BY <1>1, TickKeys
<1>2. CASE \E n \in Nodes : Timer(n) \/ Restart(n) \/ Poll(n)
  BY <1>2, TimerKeys, RestartKeys, PollKeys
<1>3. CASE \E x \in Pairs, load \in Loads : TunEncrypts(x[1], x[2], load)
  BY <1>3, TunEncryptsKeys DEF Pairs
<1>4. CASE \E x \in Pairs : TunTriggers(x[1], x[2])
  BY <1>4, TunTriggersKeys DEF Pairs
<1>5. CASE \E msg \in net : Receive(msg)
  BY <1>5, RecvInitKeys, RecvRespKeys, RecvDataKeys DEF Receive
<1>6. CASE (\E n \in Nodes : Roam(n)) \/ (\E msg \in net : Vanish(msg) \/ Lose(msg))
           \/ UNCHANGED vars
  <2>1. peer' = peer /\ net' \subseteq net /\ tun' = tun
    BY <1>6 DEF Roam, Vanish, Lose, vars
  <2> QED
    BY <2>1, UntouchedKeys
<1> QED
  BY <1>1, <1>2, <1>3, <1>4, <1>5, <1>6 DEF Next

(* The keys' invariant holds in every run. *)
LEMMA KeysInvariant == Spec => [](Inv /\ KeyInv)
BY InitInv, NextInv, InitKeys, NextKeys, PTL DEF Spec

(***************************************************************************)
(* No AEAD nonce is ever used twice under one key: no handshake, repeated, *)
(* reordered or restarted from, installs a session a second time           *)
(* (peer.rs:254-255, tx_nonce of every new ActiveSession is 0).            *)
(***************************************************************************)
THEOREM NoncesNeverReused == Spec => []TxNonceFresh
<1>1. Inv /\ KeyInv => TxNonceFresh
  <2> SUFFICES ASSUME Inv, KeyInv, NEW x \in Pairs, peer[x].active # None,
                      NEW msg \in net \cup tun,
                      msg.from = x[1], msg.id = peer[x].active.id,
                      msg \in tun \/ msg.kind = "data"
               PROVE  msg.nonce < peer[x].active.nonce
    BY DEF TxNonceFresh
  <2>1. peer[x].active \in SessionsOf(peer[x])
    BY DEF SessionsOf
  <2> QED
    BY <2>1 DEF KeyInv, NoncesBehind
<1> QED
  BY <1>1, KeysInvariant, PTL

(***************************************************************************)
(* A receiver's window never runs ahead of the sender's counter, so that   *)
(* it cannot shut out what is still to be sent (session.rs:76-78).         *)
(***************************************************************************)
THEOREM WindowsBehindSenders == Spec => []WindowBehindSender
<1>1. Inv /\ KeyInv => WindowBehindSender
  BY DEF KeyInv
<1> QED
  BY <1>1, KeysInvariant, PTL

(***************************************************************************)
(* A packet that was written to a TUN device never decrypts again, under   *)
(* the active session or the previous one, whatever handshakes come        *)
(* between (peer.rs:303-306, 325-332).                                     *)
(***************************************************************************)
THEOREM NothingDeliveredTwice == Spec => []NoReplayDelivery
<1>1. Inv /\ KeyInv => NoReplayDelivery
  <2> SUFFICES ASSUME Inv, KeyInv, NEW d \in tun,
                      Decrypts(peer[<<d.to, d.from>>], d.id, d.nonce)
               PROVE  FALSE
    BY DEF NoReplayDelivery
  <2> DEFINE p == peer[<<d.to, d.from>>]
  <2>1. PICK s \in SessionsOf(p) : s.id = d.id /\ Accepts(s.replay, d.nonce)
    BY DEF Decrypts, ActiveOpens, PreviousOpens, SessionsOf
  <2> QED
    BY <2>1 DEF KeyInv, DeliveredRefused
<1> QED
  BY <1>1, KeysInvariant, PTL
=============================================================================
