------------------------------- MODULE Daemon -------------------------------
(***************************************************************************)
(* The life of a daemon under the desktop application: start and stop      *)
(* (src/desktop-app/src-tauri/src/lib.rs), run_with_settings with its five *)
(* tasks and their cancellation, and the bounded queue through which the   *)
(* timer and TUN tasks hand frames to the relay task (src/daemon.rs,       *)
(* src/relay.rs).                                                          *)
(*                                                                         *)
(* What the tasks do for the tunnels is in module Tunnel; here it matters  *)
(* where they wait: a task looks at the cancellation token only at the top *)
(* of its loop, a send waits for room in the queue, and a request to the   *)
(* coordinator waits for its answer without a limit.  Each run comes with  *)
(* settings of its own, among them its TUN device and its UDP port.        *)
(***************************************************************************)
EXTENDS Naturals, Sequences

CONSTANTS
    Runs,        \* places for calls of run_with_settings that may overlap
    Watched,     \* those of which something is expected to happen
    Settings,    \* what a run may be started with
    QueueSize,   \* capacity of the queue to the relay task
    StatusSize,  \* capacity of the status channel
    Reports,     \* what a snapshot may say
    TunCloses,   \* whether the TUN device may be closed under the daemon
    None

AllTasks == {"timer", "tun", "udp", "poll", "relay"}

(* DaemonSettings: a TUN device, a UDP port, and the tasks there are; the  *)
(* relay task if a relay, the poll task if a coordinator is configured.    *)
(* Otherwise a future that is never ready and holds nothing is spawned.    *)
ASSUME DaemonAssumption ==
    /\ \A s \in Settings :
        /\ DOMAIN s = {"device", "port", "tasks"}
        /\ s.tasks \subseteq AllTasks /\ {"timer", "tun", "udp"} \subseteq s.tasks
    /\ QueueSize \in Nat \ {0} /\ StatusSize \in Nat \ {0}
    /\ TunCloses \in BOOLEAN
    /\ Runs \subseteq Nat /\ None \notin Runs /\ Watched \subseteq Runs
    /\ Reports \subseteq {"Connecting", "Connected"}

VARIABLES
    running,    \* DaemonState.running
    shutdown,   \* the run whose shutdown_tx the application has
    status,     \* connection_state of latest_status
    error,      \* whether there is a last_error
    settings,   \* what the run was started with
    phase,      \* where run_with_settings is
    signal,     \* a shutdown signal was sent to the run
    cancelled,  \* its cancellation token
    task,       \* where each of its tasks waits
    queue,      \* how many frames wait for the relay task
    statuses    \* the status channel

app == <<running, shutdown, status, error>>
run == <<settings, phase, signal, cancelled, task, queue>>
vars == <<app, run, statuses>>

Statuses == {"Connecting", "Connected", "Disconnecting", "Disconnected", "Error"}

(* Where a task waits; the last four are the relay task's.                 *)
Places == {"ended", "waiting", "status", "sending", "asking",
           "connecting", "up", "answering", "backoff"}

TypeOK ==
    /\ running \in BOOLEAN
    /\ shutdown \in Runs \cup {None}
    /\ status \in Statuses \cup {None}
    /\ error \in BOOLEAN
    /\ settings \in [Runs -> Settings \cup {None}]
    /\ phase \in [Runs -> {"idle", "registering", "starting",
                           "running", "returned", "failed"}]
    /\ signal \in [Runs -> BOOLEAN]
    /\ cancelled \in [Runs -> BOOLEAN]
    /\ task \in [Runs -> [AllTasks -> Places]]
    /\ queue \in [Runs -> 0 .. QueueSize]
    /\ statuses \in [Runs -> Seq(Reports)]
    /\ \A r \in Runs : Len(statuses[r]) <= StatusSize

Init ==
    /\ running = FALSE /\ shutdown = None /\ status = None /\ error = FALSE
    /\ settings = [r \in Runs |-> None]
    /\ phase = [r \in Runs |-> "idle"]
    /\ signal = [r \in Runs |-> FALSE]
    /\ cancelled = [r \in Runs |-> FALSE]
    /\ task = [r \in Runs |-> [t \in AllTasks |-> "ended"]]
    /\ queue = [r \in Runs |-> 0]
    /\ statuses = [r \in Runs |-> <<>>]

Has(r, t) == t \in settings[r].tasks
Alive(r, t) == task[r][t] # "ended"
AnyAlive(r) == \E t \in AllTasks : Alive(r, t)

(* The TUN device and the socket are free once every task that holds them  *)
(* has ended, and run_with_settings has returned.                          *)
HoldsDevice(r) == phase[r] = "running" \/ \E t \in {"tun", "udp", "relay"} : Alive(r, t)
HoldsSocket(r) == phase[r] = "running" \/ \E t \in {"timer", "tun", "udp", "poll"} : Alive(r, t)

-----------------------------------------------------------------------------
(* The application. *)

(* A run of which nothing is left: its place is used again.                *)
Unused(r) == phase[r] = "idle" /\ ~AnyAlive(r) /\ statuses[r] = <<>>

(* start_vpn, in the first unused place, with any settings. *)
Start(r) ==
    /\ ~running /\ Unused(r) /\ \A q \in Runs : Unused(q) => r <= q
    /\ running' = TRUE /\ shutdown' = r /\ status' = "Connecting" /\ error' = FALSE
    /\ \E s \in Settings :
        /\ settings' = [settings EXCEPT ![r] = s]
        /\ phase' = [phase EXCEPT ![r] =
                        IF "poll" \in s.tasks THEN "registering" ELSE "starting"]
    /\ signal' = [signal EXCEPT ![r] = FALSE]
    /\ cancelled' = [cancelled EXCEPT ![r] = FALSE]
    /\ UNCHANGED <<task, queue, statuses>>

(* Faulty variant of Stop: the signal only wakes a run that listens.       *)
StopWaiters ==
    /\ running /\ shutdown # None
    /\ signal' = [signal EXCEPT ![shutdown] = phase[shutdown] = "running"]
    /\ shutdown' = None
    /\ status' = "Disconnecting"
    /\ UNCHANGED <<running, error, settings, phase, cancelled, task, queue, statuses>>

(* stop_vpn; a second one finds no sender and is an error.                 *)
Stop ==
    /\ running /\ shutdown # None
    /\ signal' = [signal EXCEPT ![shutdown] = TRUE]
    /\ shutdown' = None
    /\ status' = "Disconnecting"
    /\ UNCHANGED <<running, error, settings, phase, cancelled, task, queue, statuses>>

(* Faulty variant of Over: a failure leaves the application running.       *)
OverIfOk(r) ==
    /\ phase[r] \in {"returned", "failed"}
    /\ phase' = [phase EXCEPT ![r] = "idle"]
    /\ running' = (phase[r] = "failed") /\ shutdown' = None
    /\ IF phase[r] = "failed" THEN status' = "Error" /\ error' = TRUE
       ELSE status' = "Disconnected" /\ UNCHANGED error
    /\ UNCHANGED <<settings, signal, cancelled, task, queue, statuses>>

(* The task that called run_with_settings stores how it ended.             *)
Over(r) ==
    /\ phase[r] \in {"returned", "failed"}
    /\ phase' = [phase EXCEPT ![r] = "idle"]
    /\ running' = FALSE /\ shutdown' = None
    /\ IF phase[r] = "failed" THEN status' = "Error" /\ error' = TRUE
       ELSE status' = "Disconnected" /\ UNCHANGED error
    /\ UNCHANGED <<settings, signal, cancelled, task, queue, statuses>>

(* The status reader stores the next snapshot, also after the end.         *)
ReaderStores(r) ==
    /\ statuses[r] # <<>>
    /\ status' = Head(statuses[r])
    /\ statuses' = [statuses EXCEPT ![r] = Tail(@)]
    /\ UNCHANGED <<running, shutdown, error, run>>

-----------------------------------------------------------------------------
(* run_with_settings. *)

(* The coordinator answers the one request to register.                    *)
Registered(r) ==
    /\ phase[r] = "registering"
    /\ phase' = [phase EXCEPT ![r] = "starting"]
    /\ UNCHANGED <<app, settings, signal, cancelled, task, queue, statuses>>

(* It refuses, or cannot be reached. *)
RegistrationFails(r) ==
    /\ phase[r] = "registering"
    /\ phase' = [phase EXCEPT ![r] = "failed"]
    /\ UNCHANGED <<app, settings, signal, cancelled, task, queue, statuses>>

FirstPlace(t) == IF t = "relay" THEN "connecting" ELSE "waiting"

(* Device and socket are opened, the tasks spawned.  Both are exclusive:   *)
(* while a run holds the same one, opening it is an error.                 *)
Launch(r) ==
    /\ phase[r] = "starting"
    /\ \A q \in Runs :
        /\ HoldsDevice(q) => settings[q].device # settings[r].device
        /\ HoldsSocket(q) => settings[q].port # settings[r].port
    /\ phase' = [phase EXCEPT ![r] = "running"]
    /\ task' = [task EXCEPT ![r] =
                    [t \in AllTasks |-> IF Has(r, t) THEN FirstPlace(t) ELSE "ended"]]
    /\ UNCHANGED <<app, settings, signal, cancelled, queue, statuses>>

(* Device or socket cannot be opened, or the settings are refused.         *)
StartFails(r) ==
    /\ phase[r] = "starting"
    /\ phase' = [phase EXCEPT ![r] = "failed"]
    /\ UNCHANGED <<app, settings, signal, cancelled, task, queue, statuses>>

(* Its select: the first task to end, or the signal.  Only the signal      *)
(* cancels the other tasks.                                                *)
ReturnsOnEnd(r) ==
    /\ phase[r] = "running" /\ \E t \in AllTasks : Has(r, t) /\ ~Alive(r, t)
    /\ phase' = [phase EXCEPT ![r] = "returned"]
    /\ UNCHANGED <<app, settings, signal, cancelled, task, queue, statuses>>

ReturnsOnSignal(r) ==
    /\ phase[r] = "running" /\ signal[r]
    /\ phase' = [phase EXCEPT ![r] = "returned"]
    /\ cancelled' = [cancelled EXCEPT ![r] = TRUE]
    /\ UNCHANGED <<app, settings, signal, task, queue, statuses>>

-----------------------------------------------------------------------------
(* The tasks. *)

At(r, t, place) == task[r][t] = place
Goes(r, t, place) == task' = [task EXCEPT ![r] = [@ EXCEPT ![t] = place]]
Stays == UNCHANGED <<app, settings, phase, signal, cancelled>>

(* Faulty variant of Sends: a queue without a limit.                       *)
SendsUnbounded(r) ==
    IF Alive(r, "relay") THEN queue' = [queue EXCEPT ![r] = @ + 1] ELSE UNCHANGED queue

(* A send to the relay task: it waits for room, and fails once the relay   *)
(* task has ended, with which the receiving end goes.                      *)
Sends(r) ==
    IF Alive(r, "relay")
    THEN queue[r] < QueueSize /\ queue' = [queue EXCEPT ![r] = @ + 1]
    ELSE UNCHANGED queue

TimerTicks(r) ==
    /\ At(r, "timer", "waiting") /\ Goes(r, "timer", "status")
    /\ Stays /\ UNCHANGED <<queue, statuses>>

(* It sends a snapshot, then what it has for peers behind the relay.       *)
TimerReports(r) ==
    /\ At(r, "timer", "status")
    /\ Len(statuses[r]) < StatusSize
    /\ \E report \in Reports : statuses' = [statuses EXCEPT ![r] = Append(@, report)]
    /\ \/ Goes(r, "timer", "waiting")
       \/ Has(r, "relay") /\ Goes(r, "timer", "sending")
    /\ Stays /\ UNCHANGED queue

TimerSends(r) ==
    /\ At(r, "timer", "sending") /\ Goes(r, "timer", "waiting")
    /\ Sends(r)
    /\ Stays /\ UNCHANGED statuses

(* A packet for a peer behind the relay; any other leaves no trace here.   *)
TunReads(r) ==
    /\ At(r, "tun", "waiting") /\ Has(r, "relay")
    /\ Goes(r, "tun", "sending")
    /\ Stays /\ UNCHANGED <<queue, statuses>>

TunSends(r) ==
    /\ At(r, "tun", "sending") /\ Goes(r, "tun", "waiting")
    /\ Sends(r)
    /\ Stays /\ UNCHANGED statuses

(* Reading 0 bytes ends the TUN task. *)
TunEnds(r) ==
    /\ TunCloses
    /\ At(r, "tun", "waiting") /\ Goes(r, "tun", "ended")
    /\ Stays /\ UNCHANGED <<queue, statuses>>

(* Its interval is over: the poll task posts its request to the            *)
(* coordinator and waits for the answer, whatever becomes of the token.    *)
PollAsks(r) ==
    /\ At(r, "poll", "waiting") /\ Goes(r, "poll", "asking")
    /\ Stays /\ UNCHANGED <<queue, statuses>>

(* An answer or an error ends the request; nothing else does.              *)
PollAnswered(r) ==
    /\ At(r, "poll", "asking") /\ Goes(r, "poll", "waiting")
    /\ Stays /\ UNCHANGED <<queue, statuses>>

(* Faulty variant of Stops: the poll task only waits for its interval.     *)
StopsNotPoll(r, t) ==
    /\ cancelled[r] /\ t # "poll"
    /\ At(r, t, "waiting") /\ Goes(r, t, "ended")
    /\ Stays /\ UNCHANGED <<queue, statuses>>

(* Back at the top of its loop, a task finds the token cancelled.          *)
Stops(r, t) ==
    /\ cancelled[r]
    /\ At(r, t, "waiting") /\ Goes(r, t, "ended")
    /\ Stays /\ UNCHANGED <<queue, statuses>>

-----------------------------------------------------------------------------
(* The relay task. *)

Connected(r) == At(r, "relay", "up") \/ At(r, "relay", "answering")

RelayConnects(r) ==
    /\ At(r, "relay", "connecting") /\ Goes(r, "relay", "up")
    /\ Stays /\ UNCHANGED <<queue, statuses>>

RelayRefused(r) ==
    /\ At(r, "relay", "connecting") /\ Goes(r, "relay", "backoff")
    /\ Stays /\ UNCHANGED <<queue, statuses>>

(* It ends; what is in the queue goes with the receiving end.              *)
RelayEnds(r) ==
    /\ Goes(r, "relay", "ended")
    /\ queue' = [queue EXCEPT ![r] = 0]

(* The delay is over. *)
RelayRetries(r) ==
    /\ At(r, "relay", "backoff")
    /\ IF cancelled[r] THEN RelayEnds(r) ELSE Goes(r, "relay", "connecting") /\ UNCHANGED queue
    /\ Stays /\ UNCHANGED statuses

(* Faulty variant of RelayTakes: not while an answer waits for room.       *)
RelayTakesIdle(r) ==
    /\ At(r, "relay", "up") /\ queue[r] > 0
    /\ queue' = [queue EXCEPT ![r] = @ - 1]
    /\ Stays /\ UNCHANGED <<task, statuses>>

(* tx_forward and the client's writer pass a frame on. *)
RelayTakes(r) ==
    /\ Connected(r) /\ queue[r] > 0
    /\ queue' = [queue EXCEPT ![r] = @ - 1]
    /\ Stays /\ UNCHANGED <<task, statuses>>

(* rx_forward has an initiation to answer, through the same queue.         *)
RelayIsAsked(r) ==
    /\ At(r, "relay", "up") /\ Goes(r, "relay", "answering")
    /\ Stays /\ UNCHANGED <<queue, statuses>>

RelayAnswers(r) ==
    /\ At(r, "relay", "answering") /\ Goes(r, "relay", "up")
    /\ Sends(r)
    /\ Stays /\ UNCHANGED statuses

(* The connection ends. *)
RelayCut(r) ==
    /\ Connected(r) /\ Goes(r, "relay", "backoff")
    /\ Stays /\ UNCHANGED <<queue, statuses>>

(* Faulty variant of RelayStops: not while an answer waits for room.       *)
RelayStopsIdle(r) ==
    /\ cancelled[r]
    /\ At(r, "relay", "up") \/ At(r, "relay", "backoff")
    /\ RelayEnds(r)
    /\ Stays /\ UNCHANGED statuses

(* The token is looked at in both of its selects. *)
RelayStops(r) ==
    /\ cancelled[r]
    /\ Connected(r) \/ At(r, "relay", "backoff")
    /\ RelayEnds(r)
    /\ Stays /\ UNCHANGED statuses

-----------------------------------------------------------------------------

Application(r) == Start(r) \/ Over(r) \/ ReaderStores(r)
Main(r) ==
    \/ Registered(r) \/ RegistrationFails(r)
    \/ Launch(r) \/ StartFails(r)
    \/ ReturnsOnEnd(r) \/ ReturnsOnSignal(r)
Workers(r) ==
    \/ TimerTicks(r) \/ TimerReports(r) \/ TimerSends(r)
    \/ TunReads(r) \/ TunSends(r) \/ TunEnds(r)
    \/ PollAsks(r) \/ PollAnswered(r)
    \/ \E t \in AllTasks \ {"relay"} : Stops(r, t)
Relay(r) ==
    \/ RelayConnects(r) \/ RelayRefused(r) \/ RelayRetries(r)
    \/ RelayTakes(r) \/ RelayIsAsked(r) \/ RelayAnswers(r)
    \/ RelayCut(r) \/ RelayStops(r)

Next ==
    \/ Stop
    \/ \E r \in Runs : Application(r) \/ Main(r) \/ Workers(r) \/ Relay(r)

Spec == Init /\ [][Next]_vars

-----------------------------------------------------------------------------
(* A task that looks at the cancelled token, and ends. *)
Ends(r) == RelayStops(r) \/ \E t \in AllTasks \ {"relay"} : Stops(r, t)

(* Fairness: a task that is ready is run, and a future that is ready is    *)
(* polled.  It is strong where select! chooses at random between the token *)
(* and a tick or a packet, and where the queue gives room to those who     *)
(* wait in the order they came.  Nobody has to answer: neither relay nor   *)
(* coordinator, whose requests (daemon.rs:328, 885) have no time limit.    *)
Fairness(r) ==
    /\ SF_vars(Ends(r)) /\ SF_vars(TimerSends(r))
    /\ WF_vars(Over(r)) /\ WF_vars(ReaderStores(r))
    /\ WF_vars(Launch(r) \/ StartFails(r))
    /\ WF_vars(ReturnsOnEnd(r) \/ ReturnsOnSignal(r))
    /\ WF_vars(TimerTicks(r)) /\ WF_vars(TimerReports(r)) /\ WF_vars(TunSends(r))
    /\ WF_vars(RelayConnects(r) \/ RelayRefused(r)) /\ WF_vars(RelayRetries(r))

FairSpec == Spec /\ \A r \in Watched : Fairness(r)

(* A coordinator that answers the requests of a run, or lets them fail.    *)
CoordinatorRegisters(r) == WF_vars(Registered(r) \/ RegistrationFails(r))
CoordinatorAnswers(r) == WF_vars(PollAnswered(r))

(* A relay that is reached again and again, and takes frames while it is.  *)
RelayServes(r) == []<>Connected(r) /\ SF_vars(RelayTakes(r))

(* One that takes frames while it is connected, if it ever is.             *)
RelayReads(r) == WF_vars(RelayTakes(r))

-----------------------------------------------------------------------------
(* Properties. *)

(* DaemonState tells the truth: it says running exactly while one call of  *)
(* run_with_settings has not been seen to return, and then that call can   *)
(* be stopped, or has been told to, however the start of it went.          *)
AppKnowsRun ==
    /\ running <=> \E r \in Runs : phase[r] # "idle"
    /\ \A r \in Runs : phase[r] # "idle" =>
           /\ shutdown = r \/ signal[r]
           /\ \A q \in Runs : phase[q] # "idle" => q = r

(* Shutdown cancels the tasks, and all of them but the poll task end,      *)
(* whoever answers or does not: also the ones that wait for room in the    *)
(* queue to a relay that takes nothing, since the relay task ends and      *)
(* their sends fail (daemon.rs:283, 964).  The TUN device is free then.    *)
CancelFreesDevice ==
    \A r \in Watched : cancelled[r] ~> \A t \in AllTasks \ {"poll"} : ~Alive(r, t)

(* The poll task, too, ends and frees the socket, provided that its        *)
(* request to the coordinator is answered or fails: the request has no     *)
(* time limit, and the token is not looked at meanwhile (daemon.rs:885).   *)
CancelEndsTasks ==
    \A r \in Watched : CoordinatorAnswers(r) => (cancelled[r] ~> ~AnyAlive(r))

(* A stop is answered, whenever it comes: also one that is sent while      *)
(* run_with_settings still registers, or as it returns (stop_vpn).  It     *)
(* assumes that the request to register is answered or fails, for which    *)
(* the code sets no time limit (daemon.rs:328).                            *)
StopAnswered ==
    \A r \in Watched : CoordinatorRegisters(r) =>
        ((phase[r] # "idle" /\ shutdown = None) ~> ~running)

(* The timer task never waits for good: rotation, keepalives and           *)
(* retransmissions go on ("Ticks every 1 second", DESIGN.md:68) while      *)
(* frames wait for the relay.                                              *)
TimerTicksOn(r) == Alive(r, "timer") ~> At(r, "timer", "waiting") \/ ~Alive(r, "timer")
TimerKeepsTicking == \A r \in Watched : TimerTicksOn(r)

(* It does as long as the relay is reached again and again and takes       *)
(* frames: room is given in the order it was asked for, so the packets of  *)
(* the TUN task cannot keep the timer's from the queue (daemon.rs:512).    *)
RelayLetsTimerTick == \A r \in Watched : RelayServes(r) => TimerTicksOn(r)
=============================================================================
