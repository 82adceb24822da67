----------------------------- MODULE RelayServer -----------------------------
(***************************************************************************)
(* The relay: the coordinator's relay server (src/bin/coordinatord.rs,     *)
(* run_relay and handle_relay_client), one handler per TCP connection, and *)
(* the daemons' side that connects again whenever it is cut off            *)
(* (src/relay.rs, connect; src/daemon.rs, spawn_relay_task).               *)
(*                                                                         *)
(* Handlers share the routes, a map from a daemon's key to the sending end *)
(* of the channel of one of its connections.  A channel is closed when all *)
(* its sending ends are gone: the one in routes, and the clones taken by   *)
(* handlers that are passing a frame on.                                   *)
(***************************************************************************)
EXTENDS Naturals, Sequences

CONSTANTS
    Nodes,     \* the daemons, by their Noise keys
    Conns,     \* TCP connections; one is used again when nobody refers to it
    None,      \* Rust's None
    Capacity,  \* frames a channel holds (64)
    MaxFaults  \* bound: connections that a daemon gives up

ASSUME RelayServerAssumption ==
    /\ None \notin Conns /\ None \notin Nodes
    /\ Capacity \in Nat \ {0}
    /\ MaxFaults \in Nat

VARIABLES
    client,   \* the connection each daemon is using, or None
    conn,     \* the server's end of each connection
    queue,    \* the frames in the channel of each connection's handler
    holding,  \* the frame a handler passes on, and the channel it cloned for it
    routes,   \* the shared map
    faults    \* connections given up so far

vars == <<client, conn, queue, holding, routes, faults>>

Frame == [from : Nodes, to : Nodes]

(* phase: not in use, accepted, in its two loops, out of them but not yet  *)
(* cleaned up.  link: open, closed by the daemon, or lost without the      *)
(* server being told (the daemon's host lost power or changed networks).   *)
Conn ==
    [owner : Nodes \cup {None},
     phase : {"unused", "accepted", "serving", "ending"},
     link : {"open", "closed", "lost"}]

Unused == [owner |-> None, phase |-> "unused", link |-> "closed"]

TypeOK ==
    /\ client \in [Nodes -> Conns \cup {None}]
    /\ conn \in [Conns -> Conn]
    /\ queue \in [Conns -> Seq(Frame)]
    /\ \A c \in Conns : Len(queue[c]) <= Capacity
    /\ holding \in [Conns -> [channel : Conns, frame : Frame] \cup {None}]
    /\ routes \in [Nodes -> Conns \cup {None}]
    /\ faults \in 0 .. MaxFaults

Init ==
    /\ client = [n \in Nodes |-> None]
    /\ conn = [c \in Conns |-> Unused]
    /\ queue = [c \in Conns |-> <<>>]
    /\ holding = [c \in Conns |-> None]
    /\ routes = [n \in Nodes |-> None]
    /\ faults = 0

-----------------------------------------------------------------------------

Serving(c) == conn[c].phase = "serving"

Held(c) == \E d \in Conns : holding[d] # None /\ holding[d].channel = c

(* Some sending end of the channel is left. *)
ChannelOpen(c) == Held(c) \/ \E n \in Nodes : routes[n] = c

(* A daemon connects and sends its identity.  Which of the connections     *)
(* not in use it gets makes no difference, so it is always the same one.   *)
Free == {c \in Conns : conn[c] = Unused /\ ~Held(c) /\ \A n \in Nodes : client[n] # c}

Connect(n) ==
    /\ client[n] = None /\ Free # {}
    /\ LET c == CHOOSE c \in Free : TRUE IN
        /\ client' = [client EXCEPT ![n] = c]
        /\ conn' = [conn EXCEPT ![c] = [owner |-> n, phase |-> "accepted", link |-> "open"]]
    /\ UNCHANGED <<queue, holding, routes, faults>>

(* The handler has read the identity and enters its channel in the routes, *)
(* in the place of the one of the daemon's earlier connection.             *)
Identify(c) ==
    /\ conn[c].phase = "accepted"
    /\ conn' = [conn EXCEPT ![c].phase = "serving"]
    /\ routes' = [routes EXCEPT ![conn[c].owner] = c]
    /\ UNCHANGED <<client, queue, holding, faults>>

(* The connection was gone before the identity came.                       *)
NotIdentified(c) ==
    /\ conn[c].phase = "accepted" /\ conn[c].link # "open"
    /\ conn' = [conn EXCEPT ![c] = Unused]
    /\ UNCHANGED <<client, queue, holding, routes, faults>>

(* Faulty variant of LookUp: the header keeps the destination's key where  *)
(* the sender's has to go.                                                 *)
LookUpSwapped(c) ==
    /\ Serving(c) /\ holding[c] = None
    /\ \E n \in Nodes \ {conn[c].owner} :
        /\ routes[n] # None
        /\ holding' = [holding EXCEPT
              ![c] = [channel |-> routes[n], frame |-> [from |-> n, to |-> conn[c].owner]]]
    /\ UNCHANGED <<client, conn, queue, routes, faults>>

(* The receiving loop has read a frame, which may have been sent before    *)
(* the link went away, and looks its destination up; if it is not there    *)
(* the frame is dropped.  Frames are well formed, as RelayClient's are: an *)
(* invalid length, which would end the loop (coordinatord.rs:184-191), is  *)
(* left out.                                                               *)
LookUp(c) ==
    /\ Serving(c) /\ holding[c] = None
    /\ \E n \in Nodes \ {conn[c].owner} :
        /\ routes[n] # None
        /\ holding' = [holding EXCEPT
              ![c] = [channel |-> routes[n], frame |-> [from |-> conn[c].owner, to |-> n]]]
    /\ UNCHANGED <<client, conn, queue, routes, faults>>

(* Faulty variant of PassOn: the channel has no bound. *)
PassOnUnbounded(c) ==
    /\ Serving(c) /\ holding[c] # None
    /\ queue' = [queue EXCEPT ![holding[c].channel] = Append(@, holding[c].frame)]
    /\ holding' = [holding EXCEPT ![c] = None]
    /\ UNCHANGED <<client, conn, routes, faults>>

(* The frame goes into the channel once there is room, or nowhere if the   *)
(* channel's handler has returned meanwhile.                               *)
PassOn(c) ==
    /\ Serving(c) /\ holding[c] # None
    /\ LET d == holding[c].channel IN
        \/ /\ conn[d].phase # "unused"
           /\ Len(queue[d]) < Capacity
           /\ queue' = [queue EXCEPT ![d] = Append(@, holding[c].frame)]
        \/ conn[d].phase = "unused" /\ UNCHANGED queue
    /\ holding' = [holding EXCEPT ![c] = None]
    /\ UNCHANGED <<client, conn, routes, faults>>

(* The sending loop writes a frame to the socket. *)
Write(c) ==
    /\ Serving(c) /\ queue[c] # <<>>
    /\ queue' = [queue EXCEPT ![c] = Tail(@)]
    /\ UNCHANGED <<client, conn, holding, routes, faults>>

-----------------------------------------------------------------------------

(* A loop ends: the other one is dropped where it stands, with the clone   *)
(* it may hold.                                                            *)
End(c) ==
    /\ conn' = [conn EXCEPT ![c].phase = "ending"]
    /\ holding' = [holding EXCEPT ![c] = None]
    /\ UNCHANGED <<client, queue, routes, faults>>

(* The daemon has closed the connection.  Reading fails, unless the loop   *)
(* is waiting for room in a channel, and so does writing.                  *)
LinkClosed(c) ==
    /\ Serving(c) /\ conn[c].link = "closed"
    /\ holding[c] = None \/ queue[c] # <<>>
    /\ End(c)

(* Writing to a lost connection fails, sooner or later. *)
WriteFails(c) == Serving(c) /\ conn[c].link = "lost" /\ queue[c] # <<>> /\ End(c)

(* Faulty variant of ChannelClosed: the handler does not notice.           *)
ChannelClosedIgnored(c) == FALSE /\ End(c)

(* The channel is closed and empty: there is nothing more to write, ever.  *)
ChannelClosed(c) == Serving(c) /\ ~ChannelOpen(c) /\ queue[c] = <<>> /\ End(c)

(* Faulty variant of CleanUp: the route stays. *)
CleanUpNoRemove(c) ==
    /\ conn[c].phase = "ending"
    /\ conn' = [conn EXCEPT ![c] = Unused]
    /\ queue' = [queue EXCEPT ![c] = <<>>]
    /\ UNCHANGED <<client, holding, routes, faults>>

(* The handler removes the daemon's route and returns, which drops its     *)
(* channel and closes the connection.                                      *)
CleanUp(c) ==
    /\ conn[c].phase = "ending"
    /\ routes' = [routes EXCEPT ![conn[c].owner] = None]
    /\ conn' = [conn EXCEPT ![c] = Unused]
    /\ queue' = [queue EXCEPT ![c] = <<>>]
    /\ UNCHANGED <<client, holding, faults>>

(* A daemon finds its connection closed by the server; it will connect     *)
(* again.                                                                  *)
CutOff(n) ==
    /\ client[n] # None /\ conn[client[n]] = Unused
    /\ client' = [client EXCEPT ![n] = None]
    /\ UNCHANGED <<conn, queue, holding, routes, faults>>

(* A daemon's end of the connection goes away: it restarts, its host moves *)
(* or the connection is reset.                                             *)
GiveUp(n) ==
    /\ client[n] # None /\ conn[client[n]] # Unused
    /\ faults < MaxFaults
    /\ faults' = faults + 1
    /\ \E how \in {"closed", "lost"} : conn' = [conn EXCEPT ![client[n]].link = how]
    /\ client' = [client EXCEPT ![n] = None]
    /\ UNCHANGED <<queue, holding, routes>>

Handler(c) ==
    \/ Identify(c) \/ NotIdentified(c) \/ LookUp(c) \/ PassOn(c) \/ Write(c)
    \/ LinkClosed(c) \/ WriteFails(c) \/ ChannelClosed(c) \/ CleanUp(c)

Next ==
    \/ \E n \in Nodes : Connect(n) \/ CutOff(n) \/ GiveUp(n)
    \/ \E c \in Conns : Handler(c)

Spec == Init /\ [][Next]_vars

(* Daemons keep connecting and the server's tasks run when they can, but a *)
(* lost connection may stay as it is for ever.  What a closed one still    *)
(* has to be read comes to an end: hence the strong fairness.  Nobody has  *)
(* to send anything.                                                       *)
Fairness ==
    /\ \A n \in Nodes : WF_vars(Connect(n)) /\ WF_vars(CutOff(n))
    /\ \A c \in Conns :
        /\ WF_vars(conn[c].link # "lost" /\ (Identify(c) \/ NotIdentified(c)))
        /\ WF_vars(PassOn(c)) /\ WF_vars(Write(c)) /\ SF_vars(LinkClosed(c))
        /\ WF_vars(ChannelClosed(c)) /\ WF_vars(CleanUp(c))

FairSpec == Spec /\ Fairness

-----------------------------------------------------------------------------

(***************************************************************************)
(* The routes never hold the channel of a handler that has returned, to    *)
(* which frames would be sent in vain while the daemon waits for them on   *)
(* another connection (coordinatord.rs:154-157 and 227-230 are far apart,  *)
(* with every way a connection can end between them).                      *)
(***************************************************************************)
NoDeadRoute ==
    \A n \in Nodes : routes[n] # None =>
        conn[routes[n]].owner = n /\ conn[routes[n]].phase \in {"serving", "ending"}

(***************************************************************************)
(* A frame is only ever in, or on its way into, the channel of the daemon  *)
(* it is addressed to, although the routes change between the look-up and  *)
(* the sending (coordinatord.rs:203-209).  A connection is taken to be of  *)
(* the daemon whose key it has sent: the server authenticates none         *)
(* (coordinatord.rs:141-157), so that this is said of honest daemons.      *)
(***************************************************************************)
FramesReachAddressee ==
    \A c \in Conns :
        /\ \A i \in DOMAIN queue[c] : queue[c][i].to = conn[c].owner
        /\ holding[c] # None =>
              conn[holding[c].channel].owner \in {None, holding[c].frame.to}

(***************************************************************************)
(* Once daemons keep their connections each has, for good, a connection    *)
(* that the server routes to.  A handler that is replaced removes the      *)
(* route of its successor when it ends (coordinatord.rs:229); what repairs *)
(* this is that the successor then finds its own channel closed (line 161) *)
(* and hangs up, so that the daemon connects again.                        *)
(***************************************************************************)
RouteRestored == \A n \in Nodes : <>[](client[n] # None /\ routes[n] = client[n])

(***************************************************************************)
(* "The relay server parses the destination key, lookup the active TCP     *)
(* connection of the destination peer, and routes the frame"               *)
(* (DESIGN.md:230): a daemon whose connection is being served is found.    *)
(***************************************************************************)
ActiveRouted ==
    \A n \in Nodes :
        client[n] # None /\ Serving(client[n]) => routes[n] = client[n]
=============================================================================
