-------------------------- MODULE RelayServerProofs --------------------------
(***************************************************************************)
(* Safety of the relay server for every set of daemons and connections and *)
(* every channel capacity, however often daemons come and go.              *)
(*                                                                         *)
(* That frames reach their addressee is not inductive: a connection is     *)
(* used again for another daemon, which must find neither frames nor       *)
(* senders of the channel that was there before.  Inv says so.             *)
(***************************************************************************)
EXTENDS RelayServer, TLAPS

(* A connection that is not served has no frames, one in use has an owner, *)
(* and nobody holds the channel of one that has not been entered yet.      *)
Fresh(c) ==
    /\ conn[c].phase \in {"unused", "accepted"} => queue[c] = <<>>
    /\ conn[c].phase # "unused" => conn[c].owner \in Nodes
    /\ conn[c].phase = "accepted" => ~Held(c)
    /\ holding[c] # None => Serving(c)

Inv ==
    /\ TypeOK
    /\ NoDeadRoute
    /\ FramesReachAddressee
    /\ \A c \in Conns : Fresh(c)

-----------------------------------------------------------------------------

(* Nothing is connected in the beginning. *)
LEMMA InitInv == Init => Inv
<1> SUFFICES ASSUME Init PROVE Inv
  OBVIOUS
<1>1. TypeOK
  <2>1. MaxFaults \in Nat /\ Capacity \in Nat \ {0}
    BY RelayServerAssumption
  <2>2. faults \in 0 .. MaxFaults
    BY <2>1 DEF Init
  <2>3. Unused \in Conn
    BY DEF Unused, Conn
  <2> QED
    BY <2>1, <2>2, <2>3 DEF Init, TypeOK
<1>2. NoDeadRoute /\ FramesReachAddressee
  BY DEF Init, NoDeadRoute, FramesReachAddressee
<1>3. \A c \in Conns : Fresh(c)
  BY DEF Init, Fresh, Held, Unused
<1> QED
  BY <1>1, <1>2, <1>3 DEF Inv

(* A daemon connects: the connection it gets is as good as new. *)
LEMMA ConnectInv ==
    ASSUME Inv, NEW n \in Nodes, Connect(n)
    PROVE  Inv'
<1>1. PICK c \in Free :
        /\ client' = [client EXCEPT ![n] = c]
        /\ conn' = [conn EXCEPT ![c] = [owner |-> n, phase |-> "accepted", link |-> "open"]]
        /\ UNCHANGED <<queue, holding, routes, faults>>
  BY DEF Connect
<1>2. c \in Conns /\ conn[c] = Unused /\ ~Held(c)
  BY DEF Free
<1>3. /\ conn'[c].owner = n /\ conn'[c].phase = "accepted"
      /\ \A d \in Conns \ {c} : conn'[d] = conn[d]
  BY <1>1, <1>2 DEF Inv, TypeOK
<1>4. TypeOK'
  <2>1. [owner |-> n, phase |-> "accepted", link |-> "open"] \in Conn
    BY DEF Conn
  <2> QED
    BY <1>1, <1>2, <2>1 DEF Inv, TypeOK
<1>5. NoDeadRoute'
  BY <1>1, <1>2, <1>3 DEF Inv, TypeOK, NoDeadRoute, Unused
<1>6. queue[c] = <<>>
  BY <1>2 DEF Inv, Fresh, Unused
<1>7. FramesReachAddressee'
  BY <1>1, <1>2, <1>3, <1>6 DEF Inv, TypeOK, FramesReachAddressee, Held
<1>8. \A d \in Conns : Fresh(d)'
  BY <1>1, <1>2, <1>3, <1>6 DEF Inv, TypeOK, Fresh, Held, Serving, Unused
<1> QED
  BY <1>4, <1>5, <1>7, <1>8 DEF Inv

(* A handler enters its channel in the routes. *)
LEMMA IdentifyInv ==
    ASSUME Inv, NEW c \in Conns, Identify(c)
    PROVE  Inv'
<1> DEFINE n == conn[c].owner
<1>1. /\ conn[c].phase = "accepted" /\ n \in Nodes
      /\ conn' = [conn EXCEPT ![c].phase = "serving"]
      /\ routes' = [routes EXCEPT ![n] = c]
      /\ UNCHANGED <<client, queue, holding, faults>>
  BY DEF Identify, Inv, Fresh
<1>2. /\ conn'[c].owner = n /\ conn'[c].phase = "serving"
      /\ \A d \in Conns \ {c} : conn'[d] = conn[d]
      /\ conn' \in [Conns -> Conn]
  BY <1>1 DEF Inv, TypeOK, Conn
<1>3. TypeOK'
  BY <1>1, <1>2 DEF Inv, TypeOK
<1>4. NoDeadRoute'
  BY <1>1, <1>2 DEF Inv, TypeOK, NoDeadRoute
<1>5. FramesReachAddressee'
  BY <1>1, <1>2 DEF Inv, TypeOK, FramesReachAddressee
<1>6. \A d \in Conns : Fresh(d)'
  BY <1>1, <1>2 DEF Inv, Fresh, Held, Serving
<1> QED
  BY <1>3, <1>4, <1>5, <1>6 DEF Inv

(* A connection is gone before it was identified. *)
LEMMA NotIdentifiedInv ==
    ASSUME Inv, NEW c \in Conns, NotIdentified(c)
    PROVE  Inv'
<1>1. /\ conn[c].phase = "accepted"
      /\ conn' = [conn EXCEPT ![c] = Unused]
      /\ UNCHANGED <<client, queue, holding, routes, faults>>
  BY DEF NotIdentified
<1>2. /\ conn'[c] = Unused /\ \A d \in Conns \ {c} : conn'[d] = conn[d]
      /\ Unused \in Conn
      /\ queue[c] = <<>> /\ ~Held(c) /\ holding[c] = None
  BY <1>1 DEF Inv, TypeOK, Fresh, Serving, Conn, Unused
<1>3. TypeOK'
  BY <1>1, <1>2 DEF Inv, TypeOK
<1>4. NoDeadRoute'
  BY <1>1, <1>2 DEF Inv, TypeOK, NoDeadRoute
<1>5. FramesReachAddressee'
  BY <1>1, <1>2 DEF Inv, TypeOK, FramesReachAddressee, Unused
<1>6. \A d \in Conns : Fresh(d)'
  BY <1>1, <1>2 DEF Inv, Fresh, Held, Serving, Unused
<1> QED
  BY <1>3, <1>4, <1>5, <1>6 DEF Inv

(* A handler looks a frame's destination up. *)
LEMMA LookUpInv ==
    ASSUME Inv, NEW c \in Conns, LookUp(c)
    PROVE  Inv'
<1>1. PICK n \in Nodes \ {conn[c].owner} :
        /\ Serving(c) /\ routes[n] # None
        /\ holding' = [holding EXCEPT
              ![c] = [channel |-> routes[n], frame |-> [from |-> conn[c].owner, to |-> n]]]
        /\ UNCHANGED <<client, conn, queue, routes, faults>>
  BY DEF LookUp
<1>2. /\ conn[c].owner \in Nodes /\ routes[n] \in Conns
      /\ conn[routes[n]].owner = n /\ conn[routes[n]].phase # "accepted"
  BY <1>1 DEF Inv, TypeOK, NoDeadRoute, Fresh, Serving
<1>3. /\ holding'[c] = [channel |-> routes[n], frame |-> [from |-> conn[c].owner, to |-> n]]
      /\ \A d \in Conns \ {c} : holding'[d] = holding[d]
  BY <1>1 DEF Inv, TypeOK
<1>4. TypeOK'
  BY <1>1, <1>2 DEF Inv, TypeOK, Frame
<1>5. NoDeadRoute'
  BY <1>1 DEF Inv, NoDeadRoute
<1>6. FramesReachAddressee'
  BY <1>1, <1>2, <1>3 DEF Inv, FramesReachAddressee
<1>7. \A d \in Conns : Fresh(d)'
  BY <1>1, <1>2, <1>3 DEF Inv, Fresh, Held, Serving
<1> QED
  BY <1>4, <1>5, <1>6, <1>7 DEF Inv

-----------------------------------------------------------------------------

(* What a handler has cloned a channel for goes into it, or nowhere. *)
LEMMA PassOnInv ==
    ASSUME Inv, NEW c \in Conns, PassOn(c)
    PROVE  Inv'
<1> DEFINE d == holding[c].channel
           f == holding[c].frame
<1>1. /\ holding[c] # None /\ d \in Conns /\ f \in Frame
      /\ holding' = [holding EXCEPT ![c] = None]
      /\ UNCHANGED <<client, conn, routes, faults>>
  BY DEF PassOn, Inv, TypeOK
<1>2. /\ holding'[c] = None /\ \A e \in Conns \ {c} : holding'[e] = holding[e]
      /\ \A e \in Conns : holding'[e] # None => holding'[e] = holding[e]
      /\ holding' \in [Conns -> [channel : Conns, frame : Frame] \cup {None}]
  BY <1>1 DEF Inv, TypeOK
<1>3. \A e \in Conns : Held(e)' => Held(e)
  BY <1>2 DEF Held
<1>4. NoDeadRoute'
  BY <1>1 DEF Inv, NoDeadRoute
<1>5. CASE UNCHANGED queue
  BY <1>1, <1>2, <1>3, <1>4, <1>5
     DEF Inv, TypeOK, FramesReachAddressee, Fresh, Serving
<1>6. CASE /\ conn[d].phase # "unused" /\ Len(queue[d]) < Capacity
           /\ queue' = [queue EXCEPT ![d] = Append(@, f)]
  <2>1. conn[d].owner = f.to /\ conn[d].phase # "accepted"
    <3>1. conn[d].owner \in {None, f.to}
      BY <1>1 DEF Inv, FramesReachAddressee
    <3>2. Held(d)
      BY <1>1 DEF Held
    <3> QED
      BY <1>1, <1>6, <3>1, <3>2, RelayServerAssumption DEF Inv, Fresh
  <2>2. /\ queue'[d] = Append(queue[d], f)
        /\ \A e \in Conns \ {d} : queue'[e] = queue[e]
        /\ queue' \in [Conns -> Seq(Frame)]
    BY <1>1, <1>6 DEF Inv, TypeOK
  <2>3. queue[d] \in Seq(Frame) /\ Capacity \in Nat
    BY <1>1, RelayServerAssumption DEF Inv, TypeOK
  <2>4. \A e \in Conns : Len(queue'[e]) <= Capacity
    <3>1. Len(queue'[d]) <= Capacity
      BY <1>6, <2>2, <2>3
    <3> QED
      BY <2>2, <3>1 DEF Inv, TypeOK
  <2>5. TypeOK'
    BY <1>1, <1>2, <2>2, <2>4 DEF Inv, TypeOK
  <2>6. \A i \in DOMAIN queue'[d] : queue'[d][i].to = conn[d].owner
    BY <1>1, <2>1, <2>2, <2>3 DEF Inv, FramesReachAddressee
  <2>7. FramesReachAddressee'
    <3>1. \A e \in Conns : \A i \in DOMAIN queue'[e] : queue'[e][i].to = conn[e].owner
      BY <2>2, <2>6 DEF Inv, FramesReachAddressee
    <3>2. \A e \in Conns : holding'[e] # None =>
             conn[holding'[e].channel].owner \in {None, holding'[e].frame.to}
      BY <1>2 DEF Inv, FramesReachAddressee
    <3> QED
      BY <1>1, <3>1, <3>2 DEF FramesReachAddressee
  <2>8. \A e \in Conns : Fresh(e)'
    BY <1>1, <1>2, <1>3, <1>6, <2>1, <2>2 DEF Inv, Fresh, Serving
  <2> QED
    BY <1>4, <2>5, <2>7, <2>8 DEF Inv
<1> QED
  BY <1>5, <1>6 DEF PassOn

(* A frame goes out. *)
LEMMA WriteInv ==
    ASSUME Inv, NEW c \in Conns, Write(c)
    PROVE  Inv'
<1>1. /\ Serving(c) /\ queue[c] # <<>>
      /\ queue' = [queue EXCEPT ![c] = Tail(@)]
      /\ UNCHANGED <<client, conn, holding, routes, faults>>
  BY DEF Write
<1>2. queue[c] \in Seq(Frame) /\ Len(queue[c]) <= Capacity /\ Capacity \in Nat
  BY RelayServerAssumption DEF Inv, TypeOK
<1>3. /\ Tail(queue[c]) \in Seq(Frame) /\ Len(Tail(queue[c])) <= Capacity
      /\ \A i \in DOMAIN Tail(queue[c]) :
            i + 1 \in DOMAIN queue[c] /\ Tail(queue[c])[i] = queue[c][i + 1]
  BY <1>1, <1>2
<1>4. /\ queue'[c] = Tail(queue[c]) /\ \A d \in Conns \ {c} : queue'[d] = queue[d]
      /\ queue' \in [Conns -> Seq(Frame)]
  BY <1>1, <1>3 DEF Inv, TypeOK
<1>5. TypeOK'
  BY <1>1, <1>3, <1>4 DEF Inv, TypeOK
<1>6. NoDeadRoute'
  BY <1>1 DEF Inv, NoDeadRoute
<1>7. FramesReachAddressee'
  BY <1>1, <1>3, <1>4 DEF Inv, FramesReachAddressee
<1>8. \A d \in Conns : Fresh(d)'
  BY <1>1, <1>4 DEF Inv, Fresh, Held, Serving
<1> QED
  BY <1>5, <1>6, <1>7, <1>8 DEF Inv

(* A loop ends, whatever it was that ended it. *)
LEMMA EndInv ==
    ASSUME Inv, NEW c \in Conns, Serving(c), End(c)
    PROVE  Inv'
<1>1. /\ conn[c].phase = "serving"
      /\ conn' = [conn EXCEPT ![c].phase = "ending"]
      /\ holding' = [holding EXCEPT ![c] = None]
      /\ UNCHANGED <<client, queue, routes, faults>>
  BY DEF End, Serving
<1>2. /\ conn'[c].owner = conn[c].owner /\ conn'[c].phase = "ending"
      /\ \A d \in Conns \ {c} : conn'[d] = conn[d]
      /\ conn' \in [Conns -> Conn]
  BY <1>1 DEF Inv, TypeOK, Conn
<1>3. /\ holding'[c] = None /\ \A d \in Conns \ {c} : holding'[d] = holding[d]
      /\ holding' \in [Conns -> [channel : Conns, frame : Frame] \cup {None}]
  BY <1>1 DEF Inv, TypeOK
<1>4. TypeOK'
  BY <1>1, <1>2, <1>3 DEF Inv, TypeOK
<1>5. NoDeadRoute'
  BY <1>1, <1>2 DEF Inv, TypeOK, NoDeadRoute
<1>6. FramesReachAddressee'
  <2>1. \A d \in Conns : conn'[d].owner = conn[d].owner
    BY <1>2
  <2>2. \A d \in Conns : holding[d] # None => holding[d].channel \in Conns
    BY DEF Inv, TypeOK
  <2> QED
    BY <1>1, <1>3, <2>1, <2>2 DEF Inv, FramesReachAddressee
<1>7. \A d \in Conns : Fresh(d)'
  BY <1>1, <1>2, <1>3 DEF Inv, Fresh, Held, Serving
<1> QED
  BY <1>4, <1>5, <1>6, <1>7 DEF Inv

(* A handler removes its daemon's route, which may be another handler's,   *)
(* and returns.                                                            *)
LEMMA CleanUpInv ==
    ASSUME Inv, NEW c \in Conns, CleanUp(c)
    PROVE  Inv'
<1> DEFINE n == conn[c].owner
<1>1. /\ conn[c].phase = "ending" /\ n \in Nodes
      /\ routes' = [routes EXCEPT ![n] = None]
      /\ conn' = [conn EXCEPT ![c] = Unused]
      /\ queue' = [queue EXCEPT ![c] = <<>>]
      /\ UNCHANGED <<client, holding, faults>>
  BY DEF CleanUp, Inv, Fresh
<1>2. /\ conn'[c] = Unused /\ \A d \in Conns \ {c} : conn'[d] = conn[d]
      /\ Unused \in Conn /\ conn' \in [Conns -> Conn]
      /\ holding[c] = None
  BY <1>1 DEF Inv, TypeOK, Fresh, Serving, Conn, Unused
<1>3. /\ queue'[c] = <<>> /\ \A d \in Conns \ {c} : queue'[d] = queue[d]
      /\ queue' \in [Conns -> Seq(Frame)]
  BY <1>1 DEF Inv, TypeOK
<1>4. TypeOK'
  <2>1. \A d \in Conns : Len(queue'[d]) <= Capacity
    <3>1. Len(<<>>) <= Capacity
      BY RelayServerAssumption
    <3> QED
      BY <1>3, <3>1 DEF Inv, TypeOK
  <2> QED
    BY <1>1, <1>2, <1>3, <2>1 DEF Inv, TypeOK
<1>5. NoDeadRoute'
  BY <1>1, <1>2 DEF Inv, TypeOK, NoDeadRoute
<1>6. FramesReachAddressee'
  BY <1>1, <1>2, <1>3 DEF Inv, TypeOK, FramesReachAddressee, Unused
<1>7. \A d \in Conns : Fresh(d)'
  BY <1>1, <1>2, <1>3 DEF Inv, Fresh, Held, Serving, Unused
<1> QED
  BY <1>4, <1>5, <1>6, <1>7 DEF Inv

-----------------------------------------------------------------------------

(* A daemon finds out that it was cut off. *)
LEMMA CutOffInv ==
    ASSUME Inv, NEW n \in Nodes, CutOff(n)
    PROVE  Inv'
BY DEF CutOff, Inv, TypeOK, NoDeadRoute, FramesReachAddressee, Fresh, Held, Serving

(* A daemon's end of a connection goes away. *)
LEMMA GiveUpInv ==
    ASSUME Inv, NEW n \in Nodes, GiveUp(n)
    PROVE  Inv'
<1> DEFINE c == client[n]
<1>1. /\ c \in Conns /\ faults < MaxFaults /\ faults' = faults + 1
      /\ client' = [client EXCEPT ![n] = None]
      /\ UNCHANGED <<queue, holding, routes>>
  BY DEF GiveUp, Inv, TypeOK
<1>2. PICK how \in {"closed", "lost"} : conn' = [conn EXCEPT ![c].link = how]
  BY DEF GiveUp
<1>3. /\ conn' \in [Conns -> Conn]
      /\ \A d \in Conns : conn'[d].owner = conn[d].owner /\ conn'[d].phase = conn[d].phase
  BY <1>1, <1>2 DEF Inv, TypeOK, Conn
<1>4. TypeOK'
  <2>1. faults \in 0 .. MaxFaults /\ MaxFaults \in Nat
    BY RelayServerAssumption DEF Inv, TypeOK
  <2>2. faults' \in 0 .. MaxFaults
    BY <1>1, <2>1
  <2> QED
    BY <1>1, <1>3, <2>2 DEF Inv, TypeOK
<1>5. NoDeadRoute'
  BY <1>1, <1>3 DEF Inv, TypeOK, NoDeadRoute
<1>6. FramesReachAddressee'
  BY <1>1, <1>3 DEF Inv, TypeOK, FramesReachAddressee
<1>7. \A d \in Conns : Fresh(d)'
  BY <1>1, <1>3 DEF Inv, Fresh, Held, Serving
<1> QED
  BY <1>4, <1>5, <1>6, <1>7 DEF Inv

(* Every step keeps the invariant: one lemma for each action. *)
LEMMA NextInv == Inv /\ [Next]_vars => Inv'
<1> SUFFICES ASSUME Inv, [Next]_vars PROVE Inv'
  OBVIOUS
<1>1. ASSUME NEW n \in Nodes, Connect(n) \/ CutOff(n) \/ GiveUp(n)
      PROVE  Inv'
  BY <1>1, ConnectInv, CutOffInv, GiveUpInv
<1>2. ASSUME NEW c \in Conns, LinkClosed(c) \/ WriteFails(c) \/ ChannelClosed(c)
      PROVE  Inv'
  BY <1>2, EndInv DEF LinkClosed, WriteFails, ChannelClosed
<1>3. ASSUME NEW c \in Conns,
             \/ Identify(c) \/ NotIdentified(c) \/ LookUp(c)
             \/ PassOn(c) \/ Write(c) \/ CleanUp(c)
      PROVE  Inv'
  BY <1>3, IdentifyInv, NotIdentifiedInv, LookUpInv, PassOnInv, WriteInv, CleanUpInv
<1>4. CASE UNCHANGED vars
  BY <1>4 DEF vars, Inv, TypeOK, NoDeadRoute, FramesReachAddressee, Fresh, Held, Serving
<1> QED
  BY <1>1, <1>2, <1>3, <1>4 DEF Next, Handler

(* The inductive invariant holds for good. *)
LEMMA Invariant == Spec => []Inv
<1> QED
  BY InitInv, NextInv, PTL DEF Spec

(***************************************************************************)
(* The relay's tables and channels keep their shape and no channel ever    *)
(* holds more than its capacity (mpsc::channel(64), coordinatord.rs).      *)
(***************************************************************************)
THEOREM RelayTypeCorrect == Spec => []TypeOK
<1>1. Inv => TypeOK
  BY DEF Inv
<1> QED
  BY <1>1, Invariant, PTL

(***************************************************************************)
(* A route always leads to a handler that is still there and belongs to    *)
(* the daemon it is entered under (handle_relay_client's insertion and     *)
(* removal).                                                               *)
(***************************************************************************)
THEOREM RoutesAlive == Spec => []NoDeadRoute
<1>1. Inv => NoDeadRoute
  BY DEF Inv
<1> QED
  BY <1>1, Invariant, PTL

(***************************************************************************)
(* No frame gets into the channel of a daemon it is not addressed to,      *)
(* although the look-up and the sending are separate steps of a handler.   *)
(***************************************************************************)
THEOREM FramesDeliveredToAddressee == Spec => []FramesReachAddressee
<1>1. Inv => FramesReachAddressee
  BY DEF Inv
<1> QED
  BY <1>1, Invariant, PTL
=============================================================================
