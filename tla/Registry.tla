------------------------------ MODULE Registry ------------------------------
(***************************************************************************)
(* The coordinator's registry (src/coordinator.rs, struct Registry, behind *)
(* the handlers register and poll of src/bin/coordinatord.rs) with its     *)
(* state file, the crashes of the coordinator, and the daemons that keep   *)
(* the overlay address they were given until they restart.                 *)
(*                                                                         *)
(* A handler holds the registry's lock until its reply, so one is at work  *)
(* at a time; what can come between its steps is a crash.  Endpoints and   *)
(* host names are left out: no decision depends on them.                   *)
(***************************************************************************)
EXTENDS Naturals

CONSTANTS
    Nodes,       \* public keys that register (all on the whitelist)
    None,        \* Rust's None
    Torn,        \* the content of a state file cut off in the middle
    PoolSize,    \* addresses in the pool
    StateFile,   \* whether the coordinator was given --state-file
    FaultKinds,  \* which faults happen
    MaxFaults    \* bound: how many of them

ASSUME RegistryAssumption ==
    /\ PoolSize \in Nat /\ MaxFaults \in Nat
    /\ StateFile \in BOOLEAN
    /\ None \notin 1 .. PoolSize
    /\ Torn \notin [Nodes -> 1 .. PoolSize \cup {None}]
    /\ FaultKinds \subseteq {"crash", "crash in write", "open error", "write error"}

VARIABLES
    up,       \* whether the coordinator is running
    nodes,    \* its table: the allowed_ip of each registered node
    file,     \* the table in the state file, or Torn
    job,      \* the request whose handler is writing the state file
    limited,  \* nodes that registered less than 5 s ago
    address,  \* the overlay address each running daemon uses
    first,    \* history: the one each node was given first
    faults

vars == <<up, nodes, file, job, limited, address, first, faults>>

Pool == 1 .. PoolSize
Table == [Nodes -> Pool \cup {None}]
Empty == [n \in Nodes |-> None]

TypeOK ==
    /\ up \in BOOLEAN
    /\ nodes \in Table
    /\ file \in Table \cup {Torn}
    /\ job \in [kind : {"register", "poll"}, node : Nodes, text : Table] \cup {None}
    /\ limited \subseteq Nodes
    /\ address \in Table
    /\ first \in Table
    /\ faults \in 0 .. MaxFaults

Init ==
    /\ up = TRUE
    /\ nodes = Empty
    /\ file = Empty
    /\ job = None
    /\ limited = {}
    /\ address = Empty
    /\ first = Empty
    /\ faults = 0

-----------------------------------------------------------------------------

Fault(kind) ==
    /\ kind \in FaultKinds
    /\ faults < MaxFaults
    /\ faults' = faults + 1

(* next_free: the lowest address nobody has; None if there is none left.   *)
Used(table) == {table[n] : n \in Nodes} \ {None}

Lowest(free) == CHOOSE ip \in free : \A other \in free : ip <= other

(* Faulty variant of NextFree: only addresses in use are taken.            *)
NextFreeOfRunning(table) ==
    LET free == Pool \ Used(address) IN IF free = {} THEN None ELSE Lowest(free)

(* Faulty variant of NextFree: the network address is given out, too.      *)
NextFreeFromZero(table) ==
    LET free == 0 .. PoolSize \ Used(table) IN IF free = {} THEN None ELSE Lowest(free)

NextFree(table) ==
    LET free == Pool \ Used(table) IN IF free = {} THEN None ELSE Lowest(free)

(* Faulty variant of Assigned: a known node is treated as a new one.       *)
AssignedAnew(n) == NextFree(nodes)

(* register gives a known node its address again. *)
Assigned(n) == IF nodes[n] # None THEN nodes[n] ELSE NextFree(nodes)

(* persist begins: the state file is opened and thereby truncated, to be   *)
(* written next.  If it cannot be opened it stays as it was; the handler   *)
(* replies with an error, and what it changed stays in memory.             *)
Truncated == IF StateFile THEN Torn ELSE file

PersistBegins(request) ==
    \/ job' = request /\ file' = Truncated /\ UNCHANGED faults
    \/ StateFile /\ Fault("open error") /\ UNCHANGED <<job, file>>

(* Faulty variant of Register: the file is written before the insertion.   *)
RegisterPersistFirst(n) ==
    /\ up /\ job = None
    /\ address[n] = None
    /\ n \notin limited
    /\ limited' = limited \cup {n}
    /\ IF Assigned(n) = None
       THEN UNCHANGED <<nodes, file, job, faults>>
       ELSE /\ nodes' = [nodes EXCEPT ![n] = Assigned(n)]
            /\ PersistBegins([kind |-> "register", node |-> n, text |-> nodes])
    /\ UNCHANGED <<up, address, first>>

(* A daemon that starts registers.  A full pool is an error, and so is     *)
(* registering again within 5 s (no step: nothing changes).                *)
Register(n) ==
    /\ up /\ job = None
    /\ address[n] = None
    /\ n \notin limited
    /\ limited' = limited \cup {n}
    /\ IF Assigned(n) = None
       THEN UNCHANGED <<nodes, file, job, faults>>
       ELSE /\ nodes' = [nodes EXCEPT ![n] = Assigned(n)]
            /\ PersistBegins([kind |-> "register", node |-> n, text |-> nodes'])
    /\ UNCHANGED <<up, address, first>>

(* A running daemon polls.  An unknown one is refused, which it ignores.   *)
Poll(n) ==
    /\ up /\ job = None
    /\ address[n] # None /\ nodes[n] # None
    /\ PersistBegins([kind |-> "poll", node |-> n, text |-> nodes])
    /\ UNCHANGED <<up, nodes, limited, address, first>>

(* The file is written and the handler replies. *)
Reply ==
    /\ job # None
    /\ file' = IF StateFile THEN job.text ELSE file
    /\ IF job.kind = "register"
       THEN LET given(table) == [table EXCEPT ![job.node] = nodes[job.node]] IN
            /\ address' = given(address)
            /\ first' = IF first[job.node] = None THEN given(first) ELSE first
       ELSE UNCHANGED <<address, first>>
    /\ job' = None
    /\ UNCHANGED <<up, nodes, limited, faults>>

(* Five seconds have passed since n registered. *)
LimitOver(n) ==
    /\ n \in limited
    /\ limited' = limited \ {n}
    /\ UNCHANGED <<up, nodes, file, job, address, first, faults>>

(* A daemon stops; it will start again.  What it was given is forgotten.   *)
DaemonStops(n) ==
    /\ address[n] # None
    /\ address' = [address EXCEPT ![n] = None]
    /\ UNCHANGED <<up, nodes, file, job, limited, first, faults>>

-----------------------------------------------------------------------------

(* Writing to the open file fails (the disk is full): it stays torn, the   *)
(* handler replies with an error, and what it changed stays in memory.     *)
WriteError ==
    /\ StateFile /\ job # None
    /\ Fault("write error")
    /\ job' = None
    /\ UNCHANGED <<up, nodes, file, limited, address, first>>

(* The coordinator goes down, with what it had in memory. *)
Crash ==
    /\ up
    /\ IF StateFile /\ job # None THEN Fault("crash in write") ELSE Fault("crash")
    /\ up' = FALSE
    /\ nodes' = Empty
    /\ job' = None
    /\ limited' = {}
    /\ UNCHANGED <<file, address, first>>

(* load_or_new: the state file is read if there is one.  One that cannot   *)
(* be parsed is an error, and main returns (no step: nothing changes).     *)
Start ==
    /\ ~up
    /\ file # Torn
    /\ up' = TRUE
    /\ nodes' = IF StateFile THEN file ELSE Empty
    /\ UNCHANGED <<file, job, limited, address, first, faults>>

Next ==
    \/ \E n \in Nodes : Register(n) \/ Poll(n) \/ LimitOver(n) \/ DaemonStops(n)
    \/ Reply \/ WriteError \/ Crash \/ Start

Spec == Init /\ [][Next]_vars

(* The coordinator is started again when it goes down (Restart=always,     *)
(* SETUP.md:77) and its handlers run to their end.                         *)
FairSpec == Spec /\ WF_vars(Reply) /\ WF_vars(Start)

-----------------------------------------------------------------------------

(***************************************************************************)
(* The address a daemon uses is its own in the registry, also after the    *)
(* coordinator has crashed and read its file again: otherwise its polls    *)
(* are refused for as long as it runs (coordinator.rs:180-183) and its     *)
(* address may be given to another node.                                   *)
(***************************************************************************)
AddressRegistered == \A n \in Nodes : up /\ address[n] # None => nodes[n] = address[n]

(***************************************************************************)
(* No two daemons have the same overlay address, whatever crashes and      *)
(* restarts (coordinator.rs:149-157 looks at its own table only).          *)
(***************************************************************************)
NoSharedAddress ==
    \A n, m \in Nodes : n # m /\ address[n] # None => address[n] # address[m]

(***************************************************************************)
(* "The overlay IP is allocated once and stays stable for that public key  *)
(* across re-registration" (coordinator.rs:118-119).                       *)
(***************************************************************************)
OverlayIpStable == \A n \in Nodes : address[n] \in {None, first[n]}

(***************************************************************************)
(* "To ensure the coordinator runs in the background and restarts on boot" *)
(* (SETUP.md:59): whenever it goes down it comes back.                     *)
(***************************************************************************)
ServesAgain == []<>up
=============================================================================
