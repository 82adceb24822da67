------------------------------- MODULE Tunnel -------------------------------
(***************************************************************************)
(* Daemons that keep encrypted tunnels to each other: the timer, TUN and   *)
(* UDP tasks and the relay's receive path of src/daemon.rs, over a network *)
(* that loses, delays, reorders and (UDP only) duplicates packets, with    *)
(* daemons that restart and move to other addresses.                       *)
(*                                                                         *)
(* Each task handles a packet under the PeerManager lock and sends what    *)
(* results after unlocking: one action, the delay before the send being    *)
(* part of the network's delay.                                            *)
(***************************************************************************)
EXTENDS Peer, FiniteSets

CONSTANTS
    Loads,       \* what hosts send: "own" and "foreign" inner source addresses
    Advertised,  \* the endpoint of each node that configuration and coordinator give
    Coordinated, \* whether the nodes poll a coordinator
    Dup,         \* whether UDP duplicates packets
    Prompt,      \* whether packets arrive, or are lost, within the second
    MaxNonce,    \* bound: no second passes once a session has used so many nonces
    MaxNet,      \* bound: packets in flight; further ones are lost
    FaultKinds,  \* which faults happen
    MaxFaults    \* bound: how many of them

ASSUME TunnelAssumption ==
    /\ Nodes \subseteq Nat
    /\ Loads \subseteq {"own", "foreign"}
    /\ Advertised \in [Nodes -> Addresses \cup {None}]
    /\ FaultKinds \subseteq {"loss", "restart", "move"}
    /\ {Coordinated, Dup, Prompt} \subseteq BOOLEAN
    /\ MaxNonce \in Nat /\ MaxNet \in Nat /\ MaxFaults \in Nat

VARIABLES
    peer,    \* peer[<<n, m>>]: what n keeps about m
    loc,     \* the address each node sends from and receives at
    due,     \* nodes whose one-second timer has fired but not run
    net,     \* packets in flight
    tun,     \* history: packets written to a TUN device
    faults   \* faults so far

vars == <<peer, loc, due, net, tun, faults>>

Pairs == {x \in Nodes \X Nodes : x[1] # x[2]}
PeersOf(n) == Nodes \ {n}

(* Initiations carry one ephemeral key, everything else belongs to a       *)
(* session; a packet travels all the way over UDP or through the relay.    *)
Message ==
    {msg \in [kind : {"init", "resp", "data"}, from : Nodes, to : Nodes,
              src : Addresses \cup {Relay}, dst : Addresses \cup {Relay},
              id : InitId \cup SessionId, nonce : Nat, load : {"own", "foreign", "empty"}] :
        /\ msg.from # msg.to
        /\ msg.kind = "init" <=> msg.id.er = None
        /\ msg.src = Relay <=> msg.dst = Relay}

Delivery == [from : Nodes, to : Nodes, id : SessionId, nonce : Nat]

-----------------------------------------------------------------------------

(* A randomly drawn key is fresh: between n and m, n draws one that nothing *)
(* refers to any more.  Which one makes no difference, so it is always the  *)
(* same; when all are in use the step that would draw one is disabled.      *)
Mine(n, id) == IF id.i = n THEN id.ei ELSE id.er

IdsBetween(n, m) ==
    LET held(p) == {s.id : s \in {p.active, p.previous} \ {None}}
                   \cup ({p.handshake, p.packet} \ {None})
    IN held(peer[<<n, m>>]) \cup held(peer[<<m, n>>])
       \cup {msg.id : msg \in {x \in net : {x.from, x.to} = {n, m}}}
       \cup {d.id : d \in {x \in tun : {x.from, x.to} = {n, m}}}

Unused(n, m) == Ephemerals \ {Mine(n, id) : id \in IdsBetween(n, m)}

NewKey(n, m) == CHOOSE e \in Unused(n, m) : TRUE

(* A packet from n to m by way of dest; none if there is nowhere to send.  *)
Packet(kind, n, m, dest, id, nonce, load) ==
    IF dest = None
    THEN {}
    ELSE {[kind |-> kind, from |-> n, to |-> m,
           src |-> IF dest = Relay THEN Relay ELSE loc[n], dst |-> dest,
           id |-> id, nonce |-> nonce, load |-> load]}

(* Packets go into a net with room for MaxNet. *)
Room(packets) == IF Cardinality(packets) <= MaxNet THEN packets ELSE net

Send(packets) == net' = Room(net \cup packets)

(* Where a packet arrives, and the net after it did. *)
Arrives(n, msg) == IF msg.dst = Relay THEN msg.to = n ELSE msg.dst = loc[n]

Deliver(msg, answers) ==
    \E kept \in {{}} \cup (IF Dup /\ msg.dst # Relay THEN {{msg}} ELSE {}) :
        net' = Room((net \ {msg}) \cup kept \cup answers)

(* manager.peers.iter_mut().find(|p| p.endpoint == Some(addr)): the first  *)
(* peer in the table, which is ordered by node, with this endpoint.        *)
AtEndpoint(n, addr) ==
    {m \in PeersOf(n) : /\ peer[<<n, m>>].endpoint = addr
                        /\ \A k \in PeersOf(n) : peer[<<n, k>>].endpoint = addr => m <= k}

-----------------------------------------------------------------------------

Init ==
    /\ peer = [x \in Pairs |-> NewPeer(Advertised[x[2]])]
    /\ loc \in [Nodes -> Addresses]
    /\ \A n \in Nodes : Advertised[n] # None => loc[n] = Advertised[n]
    /\ \A n, m \in Nodes : n # m => loc[n] # loc[m]
    /\ due = Nodes
    /\ net = {}
    /\ tun = {}
    /\ faults = 0

(* A second passes.  Every timer has run for the last one. *)
Tick ==
    /\ due = {}
    /\ Prompt => net = {}
    /\ \A x \in Pairs : peer[x].active # None => peer[x].active.nonce <= MaxNonce
    /\ peer' = [x \in Pairs |-> Aged(peer[x])]
    /\ due' = Nodes
    /\ UNCHANGED <<loc, net, tun, faults>>

(* What the timer task sends to one peer: an initiation, new or again, and *)
(* a keepalive.                                                            *)
TimerSends(n, m, init) ==
    LET p == peer[<<n, m>>]
        q == DetectDead(Rotate(p, init))
        r == SendKeepalive(q)
    IN (IF RotationDue(p) \/ InitiateDue(r) \/ RetransmitDue(r)
        THEN Packet("init", n, m, Dest(p), Retry(r, init).packet, 0, "empty")
        ELSE {})
       \cup (IF KeepaliveDue(q)
             THEN Packet("data", n, m, Dest(p), q.active.id, q.active.nonce, "empty")
             ELSE {})

(* One run of the timer task over all peers. *)
Timer(n) ==
    /\ n \in due
    /\ \A m \in PeersOf(n) : StartsHandshake(peer[<<n, m>>]) => Unused(n, m) # {}
    /\ LET init(m) == Initiation(n, m, NewKey(n, m)) IN
        /\ peer' = [x \in Pairs |->
                       IF x[1] = n THEN TimerPeer(peer[x], init(x[2])) ELSE peer[x]]
        /\ Send(UNION {TimerSends(n, m, init(m)) : m \in PeersOf(n)})
    /\ due' = due \ {n}
    /\ UNCHANGED <<loc, tun, faults>>

(* n's TUN task reads a packet routed to m and has a session for it. *)
TunEncrypts(n, m, load) ==
    LET p == peer[<<n, m>>] IN
    /\ p.active # None
    /\ p.active.nonce < MaxNonce
    /\ peer' = [peer EXCEPT ![<<n, m>>] = Encrypt(p, 1)]
    /\ Send(Packet("data", n, m, Dest(p), p.active.id, p.active.nonce, load))
    /\ UNCHANGED <<loc, due, tun, faults>>

(* It has none: the packet is dropped and a handshake triggered, unless    *)
(* one is on its way.                                                      *)
TunTriggers(n, m) ==
    LET p == peer[<<n, m>>] IN
    /\ p.active = None
    /\ p.handshake = None
    /\ Unused(n, m) # {}
    /\ LET init == Initiation(n, m, NewKey(n, m)) IN
        /\ peer' = [peer EXCEPT ![<<n, m>>] = InitiateHandshake(p, init)]
        /\ Send(Packet("init", n, m, Dest(p), init, 0, "empty"))
    /\ UNCHANGED <<loc, due, tun, faults>>

-----------------------------------------------------------------------------

(* An authenticated direct packet from p came from addr. *)
HeardFrom(p, addr) == [p EXCEPT !.endpoint = addr, !.direct = 0]

(* Faulty variant of RecvInit: the session is set up from the initiation   *)
(* alone, before the response's ephemeral key is mixed in.                 *)
RecvInitEarly(n, msg) ==
    LET m == msg.from
        p == IF msg.dst = Relay THEN peer[<<n, m>>] ELSE HeardFrom(peer[<<n, m>>], msg.src)
    IN
    /\ msg.kind = "init" /\ Arrives(n, msg) /\ msg.to = n
    /\ peer' = [peer EXCEPT ![<<n, m>>] = Install(p, msg.id)]
    /\ Deliver(msg, Packet("resp", n, m, msg.src, msg.id, 0, "empty"))
    /\ UNCHANGED <<loc, due, tun, faults>>

(* A handshake initiation readable with n's static key: n answers it with  *)
(* a new session, whatever it was doing itself.  Over UDP the sender's     *)
(* address becomes the peer's endpoint and gets the answer.                *)
RecvInit(n, msg) ==
    LET m == msg.from
        p == IF msg.dst = Relay THEN peer[<<n, m>>] ELSE HeardFrom(peer[<<n, m>>], msg.src)
    IN
    /\ msg.kind = "init" /\ Arrives(n, msg) /\ msg.to = n
    /\ Unused(n, m) # {}
    /\ LET id == [msg.id EXCEPT !.er = NewKey(n, m)] IN
        /\ peer' = [peer EXCEPT ![<<n, m>>] = Install(p, id)]
        /\ Deliver(msg, Packet("resp", n, m, msg.src, id, 0, "empty"))
    /\ UNCHANGED <<loc, due, tun, faults>>

(* A handshake response.  Through the relay it is handled by its sender's  *)
(* entry; over UDP by the first peer with the address it came from, whose  *)
(* direct path counts as alive even if the response is not for it.         *)
RecvResp(n, msg) ==
    /\ msg.kind = "resp" /\ Arrives(n, msg)
    /\ IF msg.dst = Relay
       THEN peer' = [peer EXCEPT ![<<n, msg.from>>] = HandleResponse(@, msg.id)]
       ELSE peer' = [x \in Pairs |->
                        IF x[1] = n /\ x[2] \in AtEndpoint(n, msg.src)
                        THEN [HandleResponse(peer[x], msg.id) EXCEPT !.direct = 0]
                        ELSE peer[x]]
    /\ Deliver(msg, {})
    /\ UNCHANGED <<loc, due, tun, faults>>

(* Over UDP the peer found by endpoint is tried first, then every peer     *)
(* with a different endpoint; the others at that endpoint never are.       *)
Tried(n, m, msg) ==
    \/ msg.dst = Relay
    \/ m \in AtEndpoint(n, msg.src)
    \/ peer[<<n, m>>].endpoint # msg.src

(* A data packet.  What decrypts and carries an allowed inner source goes  *)
(* to the TUN device, and over UDP moves the sender's endpoint.  A         *)
(* keepalive has no IPv4 header: it only counts as received.               *)
RecvData(n, msg) ==
    LET m == msg.from
        p == Decrypted(peer[<<n, m>>], msg.id, msg.nonce)
        opened == Tried(n, m, msg) /\ Decrypts(peer[<<n, m>>], msg.id, msg.nonce)
    IN
    /\ msg.kind = "data" /\ Arrives(n, msg) /\ msg.to = n
    /\ peer' = [peer EXCEPT ![<<n, m>>] =
                   CASE opened /\ msg.load = "own" /\ msg.dst # Relay -> HeardFrom(p, msg.src)
                     [] opened /\ (msg.load # "own" \/ msg.dst = Relay) -> p
                     [] OTHER -> @]
    /\ tun' = IF opened /\ msg.load = "own"
              THEN tun \cup {[from |-> m, to |-> n, id |-> msg.id, nonce |-> msg.nonce]}
              ELSE tun
    /\ Deliver(msg, {})
    /\ UNCHANGED <<loc, due, faults>>

(* A fault of this kind may still happen, and does. *)
Fault(kind) ==
    /\ kind \in FaultKinds
    /\ faults < MaxFaults
    /\ faults' = faults + 1

(* A packet that reaches nobody who could use it: no node is at its        *)
(* address, or one that holds no key for it.                               *)
Useless(msg) == \A n \in Nodes : Arrives(n, msg) => msg.kind # "resp" /\ msg.to # n

Vanish(msg) ==
    /\ Useless(msg)
    /\ net' = net \ {msg}
    /\ UNCHANGED <<peer, loc, due, tun, faults>>

(* A packet is lost on the way. *)
Lose(msg) ==
    /\ ~Useless(msg)
    /\ Fault("loss")
    /\ net' = net \ {msg}
    /\ UNCHANGED <<peer, loc, due, tun>>

(* The daemon restarts: everything it knew is gone but its configuration.  *)
Restart(n) ==
    /\ Fault("restart")
    /\ peer' = [x \in Pairs |-> IF x[1] = n THEN NewPeer(Advertised[x[2]]) ELSE peer[x]]
    /\ due' = due \cup {n}
    /\ UNCHANGED <<loc, net, tun>>

(* The node's address changes to one that nobody has. *)
Roam(n) ==
    /\ Fault("move")
    /\ \E addr \in Addresses \ {loc[m] : m \in Nodes} : loc' = [loc EXCEPT ![n] = addr]
    /\ UNCHANGED <<peer, due, net, tun>>

(* sync_peers with an unchanged registry: the learned endpoints of all     *)
(* peers are replaced by the advertised ones.                              *)
Poll(n) ==
    /\ Coordinated
    /\ peer' = [x \in Pairs |->
                   IF x[1] = n THEN [peer[x] EXCEPT !.endpoint = Advertised[x[2]]] ELSE peer[x]]
    /\ UNCHANGED <<loc, due, net, tun, faults>>

Receive(msg) == \E n \in Nodes : RecvInit(n, msg) \/ RecvResp(n, msg) \/ RecvData(n, msg)

Next ==
    \/ Tick
    \/ \E n \in Nodes : Timer(n) \/ Restart(n) \/ Roam(n) \/ Poll(n)
    \/ \E x \in Pairs, load \in Loads : TunEncrypts(x[1], x[2], load)
    \/ Loads # {} /\ \E x \in Pairs : TunTriggers(x[1], x[2])
    \/ \E msg \in net : Receive(msg) \/ Vanish(msg) \/ Lose(msg)

Spec == Init /\ [][Next]_vars

(* The clock and the timers never stop, and what is in flight arrives (or  *)
(* is lost, at most MaxFaults times).                                      *)
Fairness ==
    /\ WF_vars(Tick)
    /\ \A n \in Nodes : WF_vars(Timer(n))
    /\ WF_vars(\E msg \in net : Receive(msg) \/ Vanish(msg))

FairSpec == Spec /\ Fairness

-----------------------------------------------------------------------------

(***************************************************************************)
(* Types.  No session is set up, and nothing sent under one, before both   *)
(* ephemeral keys have been mixed in (peer.rs:145-149, daemon.rs:694-698). *)
(***************************************************************************)
TypeOK ==
    /\ peer \in [Pairs -> Peer]
    /\ loc \in [Nodes -> Addresses]
    /\ due \subseteq Nodes
    /\ net \subseteq Message
    /\ tun \subseteq Delivery
    /\ faults \in 0 .. MaxFaults

Sessions(x) == {peer[x].active, peer[x].previous} \ {None}

(***************************************************************************)
(* The retry machinery of daemon.rs:467-493 is driven by three fields that *)
(* are set and cleared in different functions.  A pending handshake always *)
(* has the attempt time and the packet that its retransmission needs, so a *)
(* peer cannot be stuck waiting for a response nobody asks for again; and  *)
(* once there is none, nothing is retransmitted.                           *)
(***************************************************************************)
HandshakeRetried ==
    \A x \in Pairs :
        /\ peer[x].packet = peer[x].handshake
        /\ peer[x].attempt = None <=> peer[x].handshake = None

(***************************************************************************)
(* The AEAD nonce of a packet is never used again under its key: whatever  *)
(* is in flight or was delivered under the session a node now sends with   *)
(* was sent with a smaller nonce (peer.rs:254-255; tx_nonce starts at 0 in *)
(* every ActiveSession, so no key may ever be installed twice).            *)
(***************************************************************************)
TxNonceFresh ==
    \A x \in Pairs :
        peer[x].active # None =>
            \A msg \in net \cup tun :
                msg.from = x[1] /\ msg.id = peer[x].active.id
                    /\ (msg \in tun \/ msg.kind = "data") =>
                        msg.nonce < peer[x].active.nonce

(***************************************************************************)
(* The receiver's replay window never runs ahead of the sender's counter:  *)
(* otherwise everything the sender still sends would be refused as old     *)
(* (session.rs:76-78) until the keys are replaced.                         *)
(***************************************************************************)
WindowBehindSender ==
    \A x \in Pairs : \A s \in Sessions(x), t \in Sessions(<<x[2], x[1]>>) :
        s.id = t.id /\ t.replay.initialized => t.replay.last < s.nonce

(***************************************************************************)
(* No IP packet is written to a TUN device twice, however often and late   *)
(* the network repeats it, also when its session has become the previous   *)
(* one or the daemons have exchanged new keys: what was delivered does not *)
(* decrypt any more (peer.rs:303-306 and 325-332).                         *)
(***************************************************************************)
NoReplayDelivery ==
    \A d \in tun : ~Decrypts(peer[<<d.to, d.from>>], d.id, d.nonce)

-----------------------------------------------------------------------------

(* What n sends to m now goes to m, which would decrypt it. *)
Carries(n, m) ==
    /\ peer[<<n, m>>].active # None
    /\ Dest(peer[<<n, m>>]) \in {Relay, loc[m]}
    /\ Opens(peer[<<m, n>>], peer[<<n, m>>].active.id)

(***************************************************************************)
(* After the last lost packet or restart a tunnel works again, in both     *)
(* directions, again and again: sessions the two ends do not share, left   *)
(* by lost responses, crossed initiations and restarts, are found dead and *)
(* replaced (daemon.rs:433-493).                                           *)
(***************************************************************************)
TunnelRecovers == \A x \in Pairs : []<>Carries(x[1], x[2])

(***************************************************************************)
(* "To avoid packet loss during rekeying ... the previous session is kept  *)
(* active for a 15-second grace period" (DESIGN.md:202-205): packets the   *)
(* other end sent before it heard of the new session still decrypt when a  *)
(* handshake has just displaced theirs.                                    *)
(***************************************************************************)
GraceAfterRekey ==
    [][\A x \in Pairs :
          LET old == peer[x].active IN
          old # None /\ peer'[x].previous # None /\ peer'[x].previous.id = old.id =>
              Opens(peer'[x], old.id)]_vars

(***************************************************************************)
(* "If decryption succeeds under peer key, their UDP endpoint updates      *)
(* dynamically" (DESIGN.md:243).                                           *)
(***************************************************************************)
EndpointFollows ==
    [][\A msg \in net : \A n \in Nodes :
          RecvData(n, msg) /\ msg.dst # Relay
              /\ Decrypts(peer[<<n, msg.from>>], msg.id, msg.nonce) =>
                  peer'[<<n, msg.from>>].endpoint = msg.src]_vars
=============================================================================
