# AraxMesh: a TLA+ model of the mesh VPN

This directory holds a formal model of the Rust program in this repository: the
daemon that keeps encrypted tunnels to its peers, the coordinator that hands out
overlay addresses, and the coordinator's relay server. The modules are checked
with TLC on small instances; the results that matter most are proved with TLAPS
for every value of the parameters. Paths such as `peer.rs:202` are relative to
the crate's `src/` directory, `DESIGN.md` and `SETUP.md` to the repository's root.

## 1. The system

    daemon A                                                    daemon B
    TUN task ─┐                                              ┌─ TUN task
    timer ────┼─ PeerManager (mutex) ── UDP, lossy ──────────┼─ timer
    UDP task ─┤                                              ├─ UDP task
    relay task┼──── TCP ──── relay server (routes) ── TCP ───┼─ relay task
    poll task ┴──── TCP ──── registry + state file ── TCP ───┴─ poll task

| Part | State | Operations | What makes it correct |
| --- | --- | --- | --- |
| Replay filter, `session.rs` | `last_seq`, `bitmap`, `initialized` | `check_and_update` | each nonce passes once; only duplicates and too old ones are refused |
| Peer and session, `peer.rs` | `active`, `previous`, `handshake`, retry time and packet, `last_rx`, `last_tx`, `last_direct_rx`, endpoint | `initiate_handshake`, `handle_handshake_packet`, `encrypt_packet`, `decrypt_packet`, `check_rotation`, `is_dead` | no nonce used twice under a key, no replay after a rekey, a pending handshake is always retried |
| Tunnel tasks, `daemon.rs` | the `PeerManager`, shared by five tasks | timer (1 s), TUN read, UDP receive, relayed receive, poll | two daemons find a common session again after loss, restart, crossed handshakes, roaming |
| Peer table and routing, `peer.rs`, `packet.rs` | peers with `allowed_ips` | `sync_peers`, `find_best_peer_idx` | a packet goes to the longest match, and is accepted only from it |
| Registry, `coordinator.rs`, `bin/coordinatord.rs` | table by public key, next-free search, rate limit, state file | `register`, `poll`, `persist`, `load_or_new` | addresses unique, stable, known to the coordinator, also after crashes |
| Relay server, `bin/coordinatord.rs` | `routes`: key → sender of a bounded channel; per connection two loops | identify, forward, clean up | frames reach their addressee only; every connected daemon ends up routed |
| Relay client, `relay.rs`, `daemon.rs` | bounded queues between the tasks | reconnect with backoff, send, receive | a broken connection is replaced; the queue keeps moving while the relay does; it never keeps a task from ending |
| Lifecycle, `daemon.rs`, desktop `lib.rs` | the cancellation token, five tasks, `DaemonState` | `start_vpn`, `stop_vpn`, `run_with_settings`, failure of a start, end of one task | a stop is answered; a stopped run gives device and socket back; the application knows whether there is a run |
| Backoff, NAT probes, parsers, configuration, metrics, user interface | none that a decision depends on | | unit tests and fuzz targets of the repository cover them |

How the parts interact: all tasks of a daemon share the `PeerManager` mutex and
send after unlocking. The timer and a received packet change the same peer
record; a poll overwrites endpoints that received packets have taught. Daemon
and registry share one TCP request at a time; daemons and relay handlers share
the `routes` map, and a handler uses a sender it looked up after it has given
the lock back. The desktop application calls `run_with_settings` in a task of its
own and talks to it through a one-shot shutdown signal and a status channel; inside
a daemon the timer, the TUN task and the relay task itself share one bounded queue
to the relay.

What is hard here: two machines of five timers each, over a network that loses,
repeats and reorders; a daemon that restarts and knows no key while the other
end still uses the old ones; initiations that cross; sessions that step back and
expire; a relay handler that outlives its connection; a crash in the middle of a
file write; an old answer applied to a newer table; tasks that outlive their run;
a queue nobody empties; a request nobody answers. `PROJECT.json` lists these hazards one by one, at the line where
each bites, with the properties that watch it.

## 2. The modules

| Module | Models | Lines |
| --- | --- | --- |
| `ReplayWindow` | the window as operators (`Accepts`, `Exposed`, `Updated`), for any width `WINDOW_BITS` | `session.rs` 10-86 |
| `AtMostOnce` | what a replay filter promises, without bitmap | abstract |
| `ReplayFilter` | `check_and_update` called with arbitrary nonces; implements `AtMostOnce` | `session.rs` |
| `Peer` | `struct Peer` and every operation on it, as operators on records | `peer.rs`, `session.rs`, timer part of `daemon.rs` |
| `Tunnel` | daemons, their tasks, the network and faults; extends `Peer`, which extends `ReplayWindow` | `daemon.rs` 196-1112 (tasks), `peer.rs` 392-427 |
| `Registry` | the coordinator's table, its state file, crashes, daemons with addresses | `coordinator.rs`, `coordinatord.rs` |
| `AddressBook` | what registry and peer tables promise together: one book in which nothing is changed or given twice, and daemons that may be behind but not wrong | abstract |
| `Mesh` | `Registry` composed with every daemon's peer table; answers to polls travel; implements `AddressBook` | `coordinator.rs` 190-200, `daemon.rs` 317-346 and 870-912, `peer.rs` 393-427 |
| `Routing` | `contains`, and what a longest match is | `packet.rs` 35-50 |
| `PeerManager` | the loops of `find_best_peer_idx` and `sync_peers`, one action per round, and what they should return | `peer.rs` 392-445 |
| `Overlay` | `Mesh` with `Routing`: the tables used for packets | `coordinator.rs` 190-200 |
| `Daemon` | the application, `run_with_settings`, its five tasks and the queue to the relay | `lib.rs` (desktop) 87-178, `daemon.rs` 162-994, `relay.rs` 79-147 |
| `RelayServer` | handlers, channels and routes, connections that come and go | `coordinatord.rs`, `relay.rs`, `daemon.rs` |
| `MC*` | finite values of the constants for TLC | |
| `*Proofs` | the theorems | |

### Replay window
The bitmap is a set of slots, `nonce % WINDOW_BITS`, as in the code; `Exposed`
is the loop that clears the slots a jump skips. The model is exact, so a loop off
by one is visible; the width is a parameter because only its relation to the
jump matters. `accepted` in `ReplayFilter` is history.

### Peer
An `Instant` becomes the whole seconds since it was taken, saturated at the
largest limit it is ever compared with. A handshake is the pair of ephemeral keys
that make it; a session is its identity (`InitId` before the responder has drawn
its key, `SessionId` after). The Noise library is external: a packet decrypts
exactly under the session it was encrypted for, and a response is read by exactly
the handshake it answers. `VOLUME` counts packets instead of bytes. The record
`packet` is `last_handshake_packet`, `attempt` is `last_handshake_attempt`.

### Tunnel
One action per run of a task:

| Action | Code |
| --- | --- |
| `Timer` | the timer task's loop over all peers: rotation, dead session, keepalive, initiation or retransmission, in this order |
| `TunEncrypts`, `TunTriggers` | the TUN task with and without a session |
| `RecvInit`, `RecvResp`, `RecvData` | the branches of the UDP task and of `handle_relayed_packet` (`msg.dst = Relay`) |
| `Poll` | `sync_peers` with an unchanged set of peers |
| `Restart`, `Roam`, `Lose`, duplicates in `Deliver` | the environment |

Every handler does its work under one lock and sends afterwards: the delay
between the two is a delay of the network. The UDP task finds the peer of a
response by its endpoint, and trial decryption first tries the peer at the
endpoint, then those with another one: `AtEndpoint` and `Tried` keep this,
including what is never tried. A response handled by a wrong peer still counts
as direct traffic for that peer, as in the code.

Freshly drawn keys: between two nodes a fixed choice of a key that
nothing refers to any more stands for a random one. Which one is taken makes no
difference as keys are only compared; `Unused` makes reuse of a live key
impossible, so a nonce is never counted under a recycled identity.

### Registry
`Register` and `Poll` are the part of a handler up to the truncation of the file,
`Reply` is the rest; the lock is held in between, so that only a crash or a
failing write can come there. A node that is refused because the pool is full
still consumes its rate limit, as in the code. `Crash` with a job in hand leaves a
torn file, and `Start` is not possible from a torn file because `load_or_new`
makes `main` return an error. `std::fs::write` may fail when it opens the file,
which leaves the old one as it was (`PersistBegins`), or later, which leaves it torn
(`WriteError`); either answers with an error and keeps the change in memory. Endpoints and host names are left out.

### Mesh, Routing, PeerManager and Overlay
`Mesh` adds to each action of `Registry` what it does to peer tables: a
registration's reply becomes the table of the starting daemon, a poll's reply
travels (`answer`) and is read by the poll task later (`Sync`), in between which
the registry may have moved on, crashed and read its file again. A table is a
function from node to address there; `sync_peers` overwrites it with what the
coordinator lists. `book` is history: the registry's table when it last answered.

`PeerManager` is exact about `find_best_peer_idx` and `sync_peers`: tables are
sequences, order decides between routes of one length, and a peer that stays keeps
its place and its sessions. Its variables are those of the code:

| Action | Code |
| --- | --- |
| `Compare`, `NextPeer`, `Found` | the two nested loops of `find_best_peer_idx`, and its return |
| `Retain`, `Retained` | the closure of `retain`, once for each peer, and its end |
| `Merge` (`Update` or `Add`), `Synced` | the loop over the descriptors, and the return |

The calls are state machines, not functions of the table, because the provers
know no induction over data: what a loop returns follows from an invariant of its
rounds. What the calls return is stated by relations, `LongestMatch` and
`SyncReconciles`. `Overlay` uses the first: a packet is encrypted for any peer that
is the longest match.
`SyncTakesAnswer` says the same of `Mesh`: its one step `Sync` is what the loops do.
`Overlay!Tables` gives every order the coordinator's hash map may list the peers in.
Endpoints in use are in `Tunnel`; descriptors that cannot be parsed are left out.

### Daemon
| Action | Code |
| --- | --- |
| `Start`, `Stop` | `start_vpn`, `stop_vpn` |
| `Over`, `ReaderStores` | the two tasks `start_vpn` spawns: the one that runs the daemon stores how it ended, the status reader stores snapshots |
| `Registered`, `RegistrationFails` | the one request to the coordinator, if one is configured; nobody has to answer it |
| `Launch`, `StartFails` | then `run_with_settings` up to the spawning of its tasks, and every `?` on the way |
| `ReturnsOnEnd`, `ReturnsOnSignal` | its `select!`; only the signal cancels the token |
| `TimerTicks`, `TimerReports`, `TimerSends` | the three places where the timer task waits: its tick, the status channel, the relay queue |
| `TunReads`, `TunSends`, `TunEnds` | the TUN task, for packets to peers behind the relay; reading 0 bytes ends it |
| `PollAsks`, `PollAnswered` | the poll task's request, during which it does not look at the token |
| `Stops` | the top of the loops of timer, TUN, UDP and poll task, with the token cancelled |
| `Relay...` | the relay task: connecting, up, answering an initiation through its own queue, waiting before the next attempt |

A run is a call of `run_with_settings`; there are several places for them because
tasks outlive the call. Each has `settings` of its own, as `start_vpn` is given them
anew each time: a TUN device, a UDP port, and whether there is a coordinator (a
poll task, and a registration) and a relay (a relay task). `HoldsDevice` and
`HoldsSocket` are the clones of the two `Arc`s: opening a device or port fails while
a run with the same one holds it, and works beside a run with another one. The
queue is a number: which frames wait makes no difference to who waits; the frames
go with the relay task, which owns the receiving end. A datagram a task is busy
with only delays it and is not a place of its own. A request to the coordinator is
one: it has no time limit, so a coordinator that accepts it and never answers keeps
a run that registers, or the poll task and with it the socket, for ever.

### RelayServer
`conn[c].phase` follows `handle_relay_client`: accepted, its two loops, out of
them but not cleaned up. A frame is looked up (`LookUp`, under the lock) and
passed on (`PassOn`, after it): `holding` is the clone of the sender that keeps
the channel open in between. A channel is closed when no sender is left, which is
how a handler that was displaced finds out. A connection's link is open, closed,
or lost without the server being told; the last kind can stay for ever. The
contents of frames are left out. A daemon whose host is lost may still have sent
frames that the server reads later, therefore `LookUp` does not ask for the link.
Frames are well formed: an invalid length, which `RelayClient` never sends, would
end the handler (`coordinatord.rs:184-191`) and is left out.

## 3. The runs

| Run | Checks | Instance |
| --- | --- | --- |
| `replay` | `TypeOK`, `WindowExact`, refinement of `AtMostOnce` | width 4, nonces 0..8: jumps below, at and above the width and twice around it |
| `tunnel` | `TypeOK`, `HandshakeRetried`, `TxNonceFresh`, `WindowBehindSender`, `NoReplayDelivery` | two daemons, UDP with duplicates, polls, one loss or restart |
| `tunnel_recovers` | `TunnelRecovers` | two daemons with a relay, any two of loss, restart, move |
| `registry` | `TypeOK`, `AddressRegistered`, `NoSharedAddress`, `OverlayIpStable`, `CryptokeyRouting`, refinement of `AddressBook`, `MeshConverges`; `LongestMatchFound`, `SyncReconciles` of the calls of `PeerManager` | module `MCOverlay`: three nodes, three addresses, three crashes or writes that fail, at opening or later; every table of two peers with up to two subnets or three with one, every table and list of up to three peers, with or without endpoint |
| `relay` | `TypeOK`, `NoDeadRoute`, `FramesReachAddressee`, `RouteRestored` | two daemons, four connections, channels of one frame, two connections given up |
| `daemon` | `TypeOK`, `AppKnowsRun`, `CancelFreesDevice`, `CancelEndsTasks`, `StopAnswered`, `RelayLetsTimerTick` | two runs with all five tasks and the same device and port, or with fewer tasks and the same, one or no common resource; queue and status channel of one, the TUN device may close |
| `rekey_grace` | `GraceAfterRekey`, violated | two daemons, no faults |
| `keepalive_roams` | `EndpointFollows`, violated | one daemon moves |
| `registry_forgets` | `OverlayIpStable` without state file, violated | one crash |
| `registry_torn` | `ServesAgain`, violated | one crash during a write |
| `relay_routes` | `ActiveRouted`, violated | one connection given up |
| `relay_outage` | `TimerKeepsTicking`, violated | one run, a queue of two, a relay that refuses |

### Bounds, and why they are enough
* The limits in seconds are scaled down (2, 10, 10, 15, 15, 120 become 1 to 5)
  and keep their order where the code depends on it: a handshake is retried, and
  a keepalive sent, before a session counts as dead, and the limit for that is
  below the age at which sessions rotate. `tunnel` makes rotation by age and by volume, death and
  keepalives all happen within a few seconds; the proofs hold for all limits.
* `WINDOW_BITS = 2`, and sessions that send at most two packets, in either order
  and repeated: late arrivals, repetitions and windows carried over by a rekey
  happen. That a window slides past a packet does not; this is checked at width 4
  and proved for every width in the modules about the window alone.
* `MaxEphemeral`: two keys per node and pair suffice in `tunnel` for one session
  active, one previous and a handshake in progress at either end; a step that
  would need another key is disabled there. In `tunnel_recovers`, where disabling
  would be a loss of progress, there are ten, more than can be referred to.
* `MaxNet`: what does not fit is lost, a fault the code must survive; in
  `tunnel_recovers` the net is large enough that this does not happen.
* `MaxNonce` stops sending, and time, when a session has used so many nonces:
  it cuts behaviours off in `tunnel`, and is out of reach in `tunnel_recovers`.
* `MaxFaults` bounds losses, restarts and moves. `TunnelRecovers` and
  `RouteRestored` are about what happens after the last one; the safety
  properties meet them in every order. `Prompt`: what is sent within a second
  arrives or is lost within it; delays beyond a second are those of messages
  overtaken by other messages.
* Three nodes and three addresses give peer tables with two entries in either
  order, and a daemon that restarts while two others know it. The pool is not
  exhausted in this instance; that a refused node disturbs nobody is part of the
  theorems, which hold for every `PoolSize`. `Watched` is one pair of nodes, which
  stands for all since the nodes are interchangeable. A behaviour of `MCOverlay` is
  that of the mesh or of one call of `PeerManager`, whose arguments are chosen by
  the initial state: calls hold the manager's lock, so that nothing comes between.
* Two bits of address instead of 32, with every prefix length, make every relation
  between two subnets happen: equal, nested, disjoint, and the prefix length 0. One
  address is looked up, which stands for all: every subnet occurs, and changing the
  same bits in both changes no comparison.
* Two runs suffice for one that has left tasks behind and one that starts: runs
  interact only through device, port and the application, and what two leftover
  runs hold one can hold with settings of its own. `Menus` says what settings a
  behaviour chooses from: all five tasks with one device and port for all; or,
  without relay, a run with a coordinator, one with its port and another device, and
  one with both others. `Watched` is place 1, of which fairness and the liveness
  properties speak: `Start` takes the lowest unused place, so that the run in
  place 1 is the older as well as the newer one of two. A queue of one frame is full
  as soon as one is in it, so that every wait happens; the code's capacities are
  128 and 8. `Reports` has one value, since no decision depends on it.
* Deadlock is checked except in `registry` and its two violated variants, where the system may really stop: a
  coordinator with a torn file and no request that could be answered.

### Fairness
* `Tunnel`: the clock (`Tick`) and each timer task are weakly fair, as tokio's
  interval fires for ever; some packet in flight arrives or is lost, and only
  finitely many are lost. No fairness for hosts that send, restarts or polls.
* `Registry`: the coordinator is started again when it goes down
  (`Restart=always`, `SETUP.md:77`), and handlers run to their end.
* `Mesh`: the same, and a running daemon's polls are strongly fair: it polls
  every 10 s, and the registry's mutex serves requests in turn, so that a daemon
  that can poll again and again does. An answer that has come is read. That every
  poll's request ends is assumed, as a request is one step of the registry: the code
  sets no time limit (`daemon.rs:885`), but a coordinator's process that crashes
  closes its connections. A host that falls silent is not in `MeshConverges`.
* `Daemon`: whoever can go on does. Strong fairness where the code chooses at
  random or in order: a task at the top of its loop sees a cancelled token although
  ticks and packets compete with it (`select!` is random), and a timer that waits
  for room in the queue gets it although the TUN task competes (tokio's semaphore
  is first come, first served). Nobody outside has to answer: relay and coordinator
  have no fairness, only an attempt to connect to the relay ends (the system's own
  limit). `CancelFreesDevice` needs no more than that: whoever is silent, a
  cancelled run's tasks end, except the poll task. What rests on others is the
  hypothesis of a property: `CancelEndsTasks` that the coordinator answers polls or
  fails them (`CoordinatorAnswers`), `StopAnswered` that it does so with the
  registration (`CoordinatorRegisters`), `RelayLetsTimerTick` that the relay is
  reached again and again and takes frames (`RelayServes`).
* `RelayServer`: daemons reconnect, handlers run when they can. Reading from a
  closed link is strongly fair, since a handler may be busy with a frame again
  and again but what is left to read on a closed link is finite. Nothing is
  assumed about lost links, nor does anyone have to send.

### What the violated runs show
1. `rekey_grace`. The previous session's 15 s are counted from its
   establishment (`peer.rs:323`), not from its replacement. A session rotated
   because it is 120 s old is refused from the first moment, so the grace period of
   `DESIGN.md:202-205` only exists for sessions younger than 15 s.
2. `keepalive_roams`. An empty keepalive decrypts, but without an IPv4 header
   it reaches neither the update of the endpoint nor `last_direct_rx`
   (`daemon.rs:776-829`): an idle peer that moves is answered at its old address
   (`DESIGN.md:243`), and idle pairs with a relay leave the direct path after 10 s
   and stay away from it until something else arrives directly.
3. `registry_forgets`. Without `--state-file`, as in the unit file of `SETUP.md`,
   a coordinator restart loses the table while daemons keep their addresses;
   another node is then given one of them (`coordinator.rs:118-119` promises
   stable addresses).
4. `registry_torn`. The state file is rewritten in place; a crash between the
   truncation and the end of the write leaves a file that makes every later
   start fail, `Restart=always` or not (`SETUP.md:59`).
5. `relay_routes`. Handlers insert and remove routes by key, without looking
   whose channel is there (`coordinatord.rs:154-157`, `227-230`). After a quick
   reconnect the new connection can be served and have no route. That this heals
   is `RouteRestored`: the routeless handler finds its channel closed, hangs up,
   and the daemon connects again.
6. `relay_outage`. The timer task and the TUN task await room in the queue of
   128 frames to the relay task (`daemon.rs:512-519`, `611-617`), which takes
   frames only while it is connected. With the relay refusing connections the
   queue fills up and both tasks stop for as long as the outage lasts: also peers
   with a working direct path get no keepalive, no rotation and no data any more
   (`DESIGN.md:67-69`: "Ticks every 1 second"). `CancelFreesDevice` shows that the
   daemon can at least be stopped then, and `RelayLetsTimerTick` that nothing but
   the relay is to blame.

Four behaviours are in the model of the `daemon` run, have no property of their
own and are worth knowing. When the TUN device closes, `run_with_settings` returns
without cancelling its token: the other tasks stay until the application is closed.
A start with the same device or port fails as long as they do; one with others,
which the settings form allows, puts two generations of tasks to work.
A coordinator that accepts a registration and never answers keeps the run, and a
stop of it, waiting. One that does so with a poll keeps the poll task of a stopped
run and its socket, so that a restart on the same port fails. And the status reader
can store a last "Connected" over "Disconnected" or "Error"; `running` and
`last_error` stay right.

## 4. What is proved

All theorems hold for every value of the constants that satisfies the named
assumptions of the modules (`WindowAssumption`, `NoncesAssumption`,
`PeerAssumption`, `TunnelAssumption`, `RegistryAssumption`,
`RelayServerAssumption`, `MeshAssumption`, `RoutingAssumption`, `OverlayAssumption`,
`PeerManagerAssumption`, `DaemonAssumption`); TLC evaluates the same assumptions in every run.

* `ReplayFilterProofs!WindowIsExact`, `FilterTypeCorrect`,
  `FilterRefinesAtMostOnce`. The invariant
  says that the slot of each nonce in the window is set exactly if the nonce was
  accepted, and that the highest accepted nonce is `last`. The work is arithmetic
  about `%`: two nonces less than a width apart have different slots
  (`SlotsDistinct`), and the slots a jump clears are those of the nonces it
  skips (`ExposedExact`), both in `ReplayWindowProofs`.
* `TunnelProofs!TypeCorrect`, `PendingHandshakesAreRetried`, for any number of
  daemons. Neither is inductive alone: the timer sends again whatever a peer
  keeps in `packet` once `attempt` is due, so that an initiation is sent
  depends on the three retry fields agreeing, which in turn needs the types.
  `Inv == TypeOK /\ HandshakeRetried` is inductive; `PeerProofs` has, for each
  operator of `Peer`, what it does to the type and to the retry fields, and
  `TunnelProofs` one lemma per action.
* `TunnelProofs!NoncesNeverReused`, `WindowsBehindSenders`, `NothingDeliveredTwice`,
  for any number of daemons, keys and timeouts and every loss, delay, repetition,
  restart and rotation. All three follow from one inductive invariant, `KeyInv`,
  which TLC has checked on the instance of `tunnel`, too. None is inductive alone:
  that a nonce is fresh says nothing of the session that a message still in flight
  will install. `KeyInv` therefore says who can hold which session: every id belongs
  to the two nodes it is kept by or travels between (`OwnKeys`), a peer's two
  sessions differ (`KeysApart`), and as long as a handshake is pending its initiator
  has no session derived from it, has sent, heard and been delivered nothing under
  one (`PendingUnused`). So wherever a session is installed it is new: at the
  initiator because its handshake was pending, at the responder because it has drawn
  a key that nothing refers to. New sessions start with nonce 0 and an empty window;
  of the old ones the invariant says that everything sent has a nonce below the
  sender's counter (`NoncesBehind`), that no window is ahead of it
  (`WindowBehindSender` itself), and that everything delivered is refused by each
  session still kept under that id (`DeliveredRefused`), where the window's
  lemmas `AcceptedOnce` and `RefusedStays` come in. The actions are not proved one by
  one against this: `KeyStep` says what any of them does to sessions, pending
  handshakes, packets and deliveries, there is one lemma per action that it is a
  `KeyStep`, and that a `KeyStep` keeps the invariant is proved once (`KeyStepInv`).
* `RegistryProofs!TablesWellFormed`, `AddressesStable`, `AddressesRegistered`,
  `AddressesUnique`, under `StateFile`. A coordinator that restarts knows what the
  file said, and the file says what the last handler wrote before it replied.
  The invariant: every address ever handed out is recorded in the table of a
  running coordinator and in a file that is not torn, a handler that is writing
  writes the table of memory, and both tables are injective. Without `StateFile`
  the theorems are false, see `registry_forgets`.
* `RelayServerProofs!RelayTypeCorrect`, `RoutesAlive`,
  `FramesDeliveredToAddressee`. A connection can be used again for another
  daemon; the invariant adds that it has no frames and no senders then (`Fresh`),
  and that only a serving handler holds a sender.
* `OverlayProofs!MeshRefinesRegistry`, `MeshRefinesAddressBook`, the latter under
  `StateFile`. Every step of `Mesh` is a step of `Registry` or leaves it alone, so
  that the registry's invariant can be used. On top of it: what is in a table or
  on its way in an answer is within `book`, and `book` is within the table of a
  running coordinator and within the file (or the text being written), so that a
  crash cannot take back what a daemon was told. With this each step is one `Look`
  of the address book, or none.
* `OverlayProofs!PacketsReachOwner`, under `StateFile`. From the same invariant: an
  entry of a table is a host route to an address of the book, a running daemon's
  address is in the book, and the book gives no address twice, so that a route
  that contains the daemon's address is the daemon's own (`HostContains`).
* `OverlayProofs!LookupFindsLongestMatch`, `SyncReconcilesTable`, for every table and
  list, whatever their length, and every width of addresses. `ManagerInv` has one
  invariant per loop, about the part it has gone through: `FindInv` (of the routes
  looked at, the longest is known, and the first peer that has one as long),
  `RetainInv` (the table holds those of the first peers that are listed, as they
  were) and `MergeInv` (and those of the first descriptors, with what these say).
  The table is assumed to hold each key once, as the coordinator's map has it; the
  list of descriptors is not. `SyncTakesAnswer` connects `sync_peers` to `Mesh`,
  which uses its result in one step.
* `DaemonProofs!DaemonTypeCorrect`, `ApplicationKnowsRun`, for any number of runs,
  any settings and any capacities. Their conjunction is inductive: a step of the
  application or of `run_with_settings` disturbs one place only because at most one
  run has not returned, and tasks touch neither (`TasksKeepInv` and the lemmas it
  rests on).

Only model-checked: all liveness (`TunnelRecovers`, `RouteRestored`,
`MeshConverges`, `CancelFreesDevice`, `CancelEndsTasks`, `StopAnswered`, `RelayLetsTimerTick`), as the
proof system does not reason about fairness. Every invariant and refinement that
a passing run checks is also a theorem.

## 5. Limits of the model

* `tx_nonce` is 64 bits wide and is not wrapped: a session is replaced after 120 s.
* `TunnelRecovers` is checked without polls (`Coordinated = FALSE`): the model has
  no 10 s rhythm for them, and without one an endpoint could be overwritten in
  every single round trip. Safety is checked with polls at any moment.
* Two peers behind one address need three daemons; the definitions cover them,
  no run does yet.
* `RelayServer` assumes that daemons keep reading from their connection, send well
  formed frames and identify with a key of their own: the server authenticates no
  identity (`coordinatord.rs:141-157`), so that `FramesReachAddressee` says what
  happens between honest daemons.
* The system clock, name resolution, TLS, the content of configuration and the
  text of log lines are left out.
* `Daemon`: the timer sends at most one frame per tick to the relay; the client's
  two channels of 64 frames are part of the queue; the delays of the backoff are
  arbitrary; a hole-punching burst, which holds the socket for half a second more,
  is left out; so are panics. A task that is not configured is a future that is never
  ready and holds nothing; it is not in the model.
* Two daemons and the server that wait on each other in a ring, each with its
  queues full, are not modelled: in `Daemon` this is a relay that takes nothing, in
  `RelayServer` daemons always read.
* The desktop application's `DaemonStatus` values (`lib.rs`) lack fields that the
  daemon's struct has; this is a matter of compilation and has no behaviour.

Not modelled: the backoff (its unit tests list every case, and its effect is the
fairness of `Connect`), NAT probes (the receiver only logs them), parsers and
configuration (pure, with unit tests and fuzz targets), metrics and the user
interface (nothing is decided from them).

## 6. Plan

Still to be done, most important first:
1. An abstract specification of a tunnel (a channel that delivers each packet at
   most once and only from the daemon it names) that `Tunnel` implements, on top
   of `KeyInv`, and the step lemmas that liveness rests on, as far as they are safety:
   what cannot be undone while two daemons find a session again.
2. A run of `Tunnel` with three daemons, two of them behind one address
   (`daemon.rs:753`), and polls with their rhythm.
3. The ring of two daemons and the relay server with all queues full, as a
   composition of `Daemon` and `RelayServer`.
