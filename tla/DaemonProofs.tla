---------------------------- MODULE DaemonProofs ----------------------------
(***************************************************************************)
(* Safety of the daemon's life under the application, for any number of    *)
(* runs, any settings and any capacity of queue and status channel.        *)
(***************************************************************************)
EXTENDS Daemon, TLAPS

Inv == TypeOK /\ AppKnowsRun

-----------------------------------------------------------------------------

(* What a step of one of a run's tasks does to the tasks. *)
Moves(r) ==
    \/ UNCHANGED task
    \/ \E t \in AllTasks, place \in Places :
        /\ Alive(r, t)
        /\ task' = [task EXCEPT ![r] = [@ EXCEPT ![t] = place]]

(* It keeps their type. *)
LEMMA MovesType ==
    ASSUME TypeOK, NEW r \in Runs, Moves(r)
    PROVE  task' \in [Runs -> [AllTasks -> Places]]
<1>1. CASE UNCHANGED task
  BY <1>1 DEF TypeOK
<1>2. CASE \E t \in AllTasks, place \in Places :
              Alive(r, t) /\ task' = [task EXCEPT ![r] = [@ EXCEPT ![t] = place]]
  <2>1. PICK t \in AllTasks, place \in Places :
            task' = [task EXCEPT ![r] = [@ EXCEPT ![t] = place]]
    BY <1>2
  <2>2. task \in [Runs -> [AllTasks -> Places]]
    BY DEF TypeOK
  <2>3. [task[r] EXCEPT ![t] = place] \in [AllTasks -> Places]
    BY <2>2
  <2> QED
    BY <2>1, <2>2, <2>3
<1> QED
  BY <1>1, <1>2 DEF Moves

(* A task that goes from one place to another moves.                       *)
LEMMA GoesMoves ==
    ASSUME NEW r \in Runs, NEW t \in AllTasks, NEW from \in Places \ {"ended"}, NEW to \in Places,
           At(r, t, from), Goes(r, t, to)
    PROVE  Moves(r)
BY DEF At, Goes, Moves, Alive

(* The queue never exceeds its capacity. *)
LEMMA SendsFit ==
    ASSUME TypeOK, NEW r \in Runs, Sends(r)
    PROVE  queue' \in [Runs -> 0 .. QueueSize]
<1>1. QueueSize \in Nat
  BY DaemonAssumption
<1>2. queue \in [Runs -> 0 .. QueueSize] /\ queue[r] \in 0 .. QueueSize
  BY DEF TypeOK
<1>3. CASE Alive(r, "relay")
  <2>1. queue[r] < QueueSize /\ queue' = [queue EXCEPT ![r] = @ + 1]
    BY <1>3 DEF Sends
  <2>2. queue[r] + 1 \in 0 .. QueueSize
    BY <1>1, <1>2, <2>1
  <2> QED
    BY <1>2, <2>1, <2>2
<1>4. CASE ~Alive(r, "relay")
  BY <1>2, <1>4 DEF Sends
<1> QED
  BY <1>3, <1>4

(* What the status channel may become. *)
ChannelOK == statuses' \in [Runs -> Seq(Reports)] /\ \A r \in Runs : Len(statuses'[r]) <= StatusSize

(* The steps of the timer, TUN, UDP and poll tasks. *)
LEMMA WorkersStep ==
    ASSUME TypeOK, NEW r \in Runs, Workers(r)
    PROVE  Moves(r) /\ Stays /\ queue' \in [Runs -> 0 .. QueueSize] /\ ChannelOK
<1> USE DEF Places, AllTasks
<1>1. /\ queue \in [Runs -> 0 .. QueueSize]
      /\ statuses \in [Runs -> Seq(Reports)] /\ \A q \in Runs : Len(statuses[q]) <= StatusSize
  BY DEF TypeOK
<1>2. CASE TimerTicks(r)
  BY <1>1, <1>2, GoesMoves DEF TimerTicks, ChannelOK
<1>3. CASE TimerReports(r)
  <2>1. Moves(r)
    BY <1>3, GoesMoves DEF TimerReports
  <2>2. PICK report \in Reports : statuses' = [statuses EXCEPT ![r] = Append(@, report)]
    BY <1>3 DEF TimerReports
  <2>3. StatusSize \in Nat /\ Len(statuses[r]) < StatusSize
    BY <1>3, DaemonAssumption DEF TimerReports
  <2>4. /\ Append(statuses[r], report) \in Seq(Reports)
        /\ Len(Append(statuses[r], report)) <= StatusSize
    BY <1>1, <2>3
  <2>5. ChannelOK
    BY <1>1, <2>2, <2>4 DEF ChannelOK
  <2> QED
    BY <1>1, <1>3, <2>1, <2>5 DEF TimerReports
<1>4. CASE TimerSends(r)
  BY <1>1, <1>4, GoesMoves, SendsFit DEF TimerSends, ChannelOK
<1>5. CASE TunReads(r)
  BY <1>1, <1>5, GoesMoves DEF TunReads, ChannelOK
<1>6. CASE TunSends(r)
  BY <1>1, <1>6, GoesMoves, SendsFit DEF TunSends, ChannelOK
<1>7. CASE TunEnds(r)
  BY <1>1, <1>7, GoesMoves DEF TunEnds, ChannelOK
<1>8. CASE PollAsks(r)
  BY <1>1, <1>8, GoesMoves DEF PollAsks, ChannelOK
<1>9. CASE PollAnswered(r)
  BY <1>1, <1>9, GoesMoves DEF PollAnswered, ChannelOK
<1>10. CASE \E t \in AllTasks \ {"relay"} : Stops(r, t)
  BY <1>1, <1>10, GoesMoves DEF Stops, ChannelOK
<1> QED
  BY <1>2, <1>3, <1>4, <1>5, <1>6, <1>7, <1>8, <1>9, <1>10 DEF Workers

(* The relay task's end empties the queue. *)
LEMMA RelayEndsStep ==
    ASSUME TypeOK, NEW r \in Runs, NEW from \in Places \ {"ended"},
           At(r, "relay", from), RelayEnds(r)
    PROVE  Moves(r) /\ queue' \in [Runs -> 0 .. QueueSize]
<1>1. Moves(r)
  BY GoesMoves DEF RelayEnds, Places, AllTasks
<1>2. 0 \in 0 .. QueueSize
  BY DaemonAssumption
<1> QED
  BY <1>1, <1>2 DEF RelayEnds, TypeOK

(* The steps of the relay task. *)
LEMMA RelayStep ==
    ASSUME TypeOK, NEW r \in Runs, Relay(r)
    PROVE  Moves(r) /\ Stays /\ queue' \in [Runs -> 0 .. QueueSize] /\ UNCHANGED statuses
<1> USE DEF Places, AllTasks
<1>1. queue \in [Runs -> 0 .. QueueSize]
  BY DEF TypeOK
<1>2. CASE RelayConnects(r)
  BY <1>1, <1>2, GoesMoves DEF RelayConnects
<1>3. CASE RelayRefused(r)
  BY <1>1, <1>3, GoesMoves DEF RelayRefused
<1>4. CASE RelayRetries(r)
  BY <1>1, <1>4, GoesMoves, RelayEndsStep DEF RelayRetries
<1>5. CASE RelayTakes(r)
  <2>1. QueueSize \in Nat /\ queue[r] \in 0 .. QueueSize /\ queue[r] > 0
    BY <1>1, <1>5, DaemonAssumption DEF RelayTakes
  <2>2. queue[r] - 1 \in 0 .. QueueSize
    BY <2>1
  <2> QED
    BY <1>1, <1>5, <2>2 DEF RelayTakes, Moves
<1>6. CASE RelayIsAsked(r)
  BY <1>1, <1>6, GoesMoves DEF RelayIsAsked
<1>7. CASE RelayAnswers(r)
  BY <1>1, <1>7, GoesMoves, SendsFit DEF RelayAnswers
<1>8. CASE RelayCut(r)
  BY <1>1, <1>8, GoesMoves DEF RelayCut, Connected
<1>9. CASE RelayStops(r)
  BY <1>9, RelayEndsStep DEF RelayStops, Connected
<1> QED
  BY <1>2, <1>3, <1>4, <1>5, <1>6, <1>7, <1>8, <1>9 DEF Relay

-----------------------------------------------------------------------------

(* A step that leaves the application and run_with_settings alone keeps    *)
(* the invariant, if it keeps queue and channel in shape.                  *)
LEMMA TasksKeepInv ==
    ASSUME Inv, NEW r \in Runs, Moves(r), Stays,
           queue' \in [Runs -> 0 .. QueueSize], ChannelOK
    PROVE  Inv'
<1>1. TypeOK'
  <2>1. task' \in [Runs -> [AllTasks -> Places]]
    BY MovesType DEF Inv
  <2> QED
    BY <2>1 DEF Inv, TypeOK, Stays, app, ChannelOK
<1>2. AppKnowsRun'
  BY DEF Inv, AppKnowsRun, Stays, app
<1> QED
  BY <1>1, <1>2 DEF Inv

LEMMA StartInv ==
    ASSUME Inv, NEW r \in Runs, Start(r)
    PROVE  Inv'
<1>1. TypeOK'
  BY DEF Inv, TypeOK, Start, Statuses
<1>2. AppKnowsRun'
  <2>1. \A q \in Runs : phase[q] = "idle"
    BY DEF Inv, AppKnowsRun, Start
  <2>2. running' = TRUE /\ shutdown' = r /\ phase'[r] # "idle"
    BY DEF Inv, TypeOK, Start
  <2>3. \A q \in Runs \ {r} : phase'[q] = "idle"
    BY <2>1 DEF Inv, TypeOK, Start
  <2> QED
    BY <2>2, <2>3 DEF AppKnowsRun
<1> QED
  BY <1>1, <1>2 DEF Inv

LEMMA StopInv ==
    ASSUME Inv, Stop
    PROVE  Inv'
<1>1. shutdown \in Runs
  BY DEF Inv, TypeOK, Stop
<1>2. TypeOK'
  BY <1>1 DEF Inv, TypeOK, Stop, Statuses
<1>3. AppKnowsRun'
  <2>1. \A r \in Runs : shutdown = r \/ signal[r] => signal'[r]
    BY <1>1 DEF Inv, TypeOK, Stop
  <2> QED
    BY <2>1 DEF Inv, AppKnowsRun, Stop
<1> QED
  BY <1>2, <1>3 DEF Inv

LEMMA OverInv ==
    ASSUME Inv, NEW r \in Runs, Over(r)
    PROVE  Inv'
<1>1. TypeOK'
  BY DaemonAssumption DEF Inv, TypeOK, Over, Statuses
<1>2. AppKnowsRun'
  <2>1. phase[r] # "idle"
    BY DEF Over
  <2>2. \A q \in Runs : phase'[q] = "idle"
    BY <2>1 DEF Inv, TypeOK, AppKnowsRun, Over
  <2> QED
    BY <2>2 DEF AppKnowsRun, Over
<1> QED
  BY <1>1, <1>2 DEF Inv

LEMMA ReaderStoresInv ==
    ASSUME Inv, NEW r \in Runs, ReaderStores(r)
    PROVE  Inv'
<1>1. TypeOK'
  <2>1. statuses \in [Runs -> Seq(Reports)] /\ statuses[r] \in Seq(Reports) /\ statuses[r] # <<>>
    BY DEF Inv, TypeOK, ReaderStores
  <2>2. /\ Head(statuses[r]) \in Reports /\ Tail(statuses[r]) \in Seq(Reports)
        /\ Len(Tail(statuses[r])) <= Len(statuses[r])
    BY <2>1
  <2>3. status' \in Statuses
    BY <2>2, DaemonAssumption DEF ReaderStores, Statuses
  <2>4. Len(Tail(statuses[r])) <= StatusSize
    <3>1. StatusSize \in Nat /\ Len(statuses[r]) \in Nat /\ Len(Tail(statuses[r])) \in Nat
      BY <2>1, <2>2, DaemonAssumption
    <3>2. Len(statuses[r]) <= StatusSize
      BY DEF Inv, TypeOK
    <3> QED
      BY <2>2, <3>1, <3>2
  <2>5. statuses' = [statuses EXCEPT ![r] = Tail(@)]
    BY DEF ReaderStores
  <2>6. \A q \in Runs : Len(statuses'[q]) <= StatusSize
    BY <2>1, <2>4, <2>5 DEF Inv, TypeOK
  <2> QED
    BY <2>1, <2>2, <2>3, <2>5, <2>6 DEF Inv, TypeOK, ReaderStores, run
<1>2. AppKnowsRun'
  BY DEF Inv, AppKnowsRun, ReaderStores, run
<1> QED
  BY <1>1, <1>2 DEF Inv

LEMMA LaunchInv ==
    ASSUME Inv, NEW r \in Runs, Launch(r)
    PROVE  Inv'
<1>1. phase' = [phase EXCEPT ![r] = "running"] /\ phase[r] = "starting"
  BY DEF Launch
<1>2. TypeOK'
  <2>1. [t \in AllTasks |-> IF Has(r, t) THEN FirstPlace(t) ELSE "ended"] \in [AllTasks -> Places]
    BY DEF Places, FirstPlace
  <2>2. task' \in [Runs -> [AllTasks -> Places]]
    BY <2>1 DEF Inv, TypeOK, Launch
  <2> QED
    BY <1>1, <2>2 DEF Inv, TypeOK, Launch, app
<1>3. AppKnowsRun'
  BY <1>1 DEF Inv, TypeOK, AppKnowsRun, Launch, app
<1> QED
  BY <1>2, <1>3 DEF Inv

(* The other steps of run_with_settings. *)
LEMMA MainInv ==
    ASSUME Inv, NEW r \in Runs,
           \/ Registered(r) \/ RegistrationFails(r) \/ StartFails(r)
           \/ ReturnsOnEnd(r) \/ ReturnsOnSignal(r)
    PROVE  Inv'
<1> USE DEF Registered, RegistrationFails, StartFails, ReturnsOnEnd, ReturnsOnSignal
<1>1. /\ phase[r] # "idle" /\ UNCHANGED <<app, settings, signal, task, queue, statuses>>
      /\ \E p \in {"starting", "failed", "returned"} : phase' = [phase EXCEPT ![r] = p]
      /\ cancelled' \in {cancelled, [cancelled EXCEPT ![r] = TRUE]}
  OBVIOUS
<1>2. TypeOK'
  BY <1>1 DEF Inv, TypeOK, app
<1>3. AppKnowsRun'
  BY <1>1 DEF Inv, TypeOK, AppKnowsRun, app
<1> QED
  BY <1>2, <1>3 DEF Inv

-----------------------------------------------------------------------------

(* The invariant holds in every state of every behaviour. *)
LEMMA Invariant == Spec => []Inv
<1>1. Init => Inv
  <2> SUFFICES ASSUME Init PROVE Inv
    OBVIOUS
  <2>1. TypeOK
    <3>1. QueueSize \in Nat /\ StatusSize \in Nat
      BY DaemonAssumption
    <3>2. statuses \in [Runs -> Seq(Reports)] /\ \A r \in Runs : Len(statuses[r]) <= StatusSize
      <4>1. <<>> \in Seq(Reports) /\ Len(<<>>) = 0
        OBVIOUS
      <4>2. \A r \in Runs : statuses[r] = <<>>
        BY DEF Init
      <4>3. statuses \in [Runs -> Seq(Reports)]
        BY <4>1 DEF Init
      <4> QED
        BY <3>1, <4>1, <4>2, <4>3
    <3>3. task \in [Runs -> [AllTasks -> Places]]
      BY DEF Init, Places
    <3>4. queue \in [Runs -> 0 .. QueueSize]
      BY <3>1 DEF Init
    <3> QED
      BY <3>2, <3>3, <3>4 DEF Init, TypeOK
  <2>2. AppKnowsRun
    BY DEF Init, AppKnowsRun
  <2> QED
    BY <2>1, <2>2 DEF Inv
<1>2. Inv /\ [Next]_vars => Inv'
  <2> SUFFICES ASSUME Inv, [Next]_vars PROVE Inv'
    OBVIOUS
  <2>1. CASE Stop
    BY <2>1, StopInv
  <2>2. ASSUME NEW r \in Runs, Application(r) PROVE Inv'
    BY <2>2, StartInv, OverInv, ReaderStoresInv DEF Application
  <2>3. ASSUME NEW r \in Runs, Main(r) PROVE Inv'
    BY <2>3, LaunchInv, MainInv DEF Main
  <2>4. ASSUME NEW r \in Runs, Workers(r) PROVE Inv'
    BY <2>4, WorkersStep, TasksKeepInv DEF Inv
  <2>5. ASSUME NEW r \in Runs, Relay(r) PROVE Inv'
    <3>1. ChannelOK
      BY <2>5, RelayStep DEF Inv, TypeOK, ChannelOK
    <3> QED
      BY <2>5, <3>1, RelayStep, TasksKeepInv DEF Inv
  <2>6. CASE UNCHANGED vars
    BY <2>6 DEF Inv, TypeOK, AppKnowsRun, vars, app, run
  <2> QED
    BY <2>1, <2>2, <2>3, <2>4, <2>5, <2>6 DEF Next
<1> QED
  BY <1>1, <1>2, PTL DEF Spec

(* Every task waits where a task can wait, and neither the queue to the    *)
(* relay task nor the status channel exceeds its capacity.                 *)
THEOREM DaemonTypeCorrect == Spec => []TypeOK
<1>1. Inv => TypeOK
  BY DEF Inv
<1> QED
  BY <1>1, Invariant, PTL

(* The application always knows whether there is a run, and can stop it.   *)
THEOREM ApplicationKnowsRun == Spec => []AppKnowsRun
<1>1. Inv => AppKnowsRun
  BY DEF Inv
<1> QED
  BY <1>1, Invariant, PTL
=============================================================================
