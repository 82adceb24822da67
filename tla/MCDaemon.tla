------------------------------ MODULE MCDaemon ------------------------------
(* An application whose daemon may leave tasks behind.  Either every run   *)
(* has all five tasks, and all have the same device and port; or runs with *)
(* fewer tasks share both, one or none of them.                            *)
EXTENDS Daemon

Local == {"timer", "tun", "udp"}

Full == [device |-> "arax0", port |-> 50001, tasks |-> AllTasks]
Polling == [device |-> "arax0", port |-> 50001, tasks |-> Local \cup {"poll"}]
SamePort == [device |-> "arax1", port |-> 50001, tasks |-> Local]
Apart == [device |-> "arax1", port |-> 50002, tasks |-> Local]

MCSettings == {Full, Polling, SamePort, Apart}

(* Bound: what the user chooses from in one behaviour. *)
Menus == {{Full}, {Polling, SamePort, Apart}}

VARIABLE menu

MCInit == Init /\ menu \in Menus
MCNext == Next /\ UNCHANGED menu /\ \A r \in Runs : settings'[r] \in menu \cup {None}
MCSpec == MCInit /\ [][MCNext]_<<vars, menu>> /\ \A r \in Watched : Fairness(r)
MCReadingSpec == MCSpec /\ \A r \in Watched : RelayReads(r)
=============================================================================
