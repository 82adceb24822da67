--------------------------- MODULE RegistryProofs ---------------------------
(***************************************************************************)
(* With a state file the registry keeps its promises, for every set of     *)
(* nodes, pool size and number of faults.                                  *)
(*                                                                         *)
(* None of the three invariants is inductive: what a running coordinator   *)
(* knows after a crash is what the file said, and what the file says is    *)
(* what the last handler wrote before it replied.  The inductive invariant *)
(* therefore says of both tables that they record every address that was   *)
(* ever handed out; a torn file records nothing and is never read.         *)
(***************************************************************************)
EXTENDS Registry, WellFoundedInduction, TLAPS

(* The table gives no address twice, and each node the one it was given    *)
(* first.                                                                  *)
Recorded(table) ==
    /\ \A n, m \in Nodes : n # m /\ table[n] # None => table[n] # table[m]
    /\ \A n \in Nodes : first[n] # None => table[n] = first[n]

HandedOut ==
    /\ OverlayIpStable
    /\ \A n, m \in Nodes : n # m /\ first[n] # None => first[n] # first[m]

JobConsistent == job # None => up /\ job.text = nodes /\ nodes[job.node] # None

Inv ==
    /\ TypeOK
    /\ HandedOut
    /\ JobConsistent
    /\ up => Recorded(nodes)
    /\ file # Torn => Recorded(file)

(* A set of addresses that is not empty has a lowest one.                  *)
LEMMA LowestOf ==
    ASSUME NEW free \in SUBSET Nat, free # {}
    PROVE  Lowest(free) \in free
<1>1. PICK ip \in free : \A other \in free : ~(<<other, ip>> \in OpToRel(<, Nat))
  BY WFMin, NatLessThanWellFounded
<1>2. \A other \in free : ~(other < ip)
  BY <1>1, Zenon DEF OpToRel
<1>3. \A other \in free : ip <= other
  BY <1>2
<1> QED
  BY <1>3 DEF Lowest

(* next_free gives an address of the pool that nobody has.                 *)
LEMMA NextFreeIsFree ==
    ASSUME NEW table \in Table
    PROVE  /\ NextFree(table) \in Pool \cup {None}
           /\ NextFree(table) # None => \A n \in Nodes : table[n] # NextFree(table)
<1> DEFINE free == Pool \ Used(table)
<1>1. CASE free = {}
  BY <1>1 DEF NextFree
<1>2. CASE free # {}
  <2>1. free \in SUBSET Nat
    BY DEF Pool
  <2>2. Lowest(free) \in free
    BY <1>2, <2>1, LowestOf
  <2>3. NextFree(table) = Lowest(free)
    BY <1>2 DEF NextFree
  <2>4. NextFree(table) \in Pool /\ NextFree(table) \notin Used(table)
    BY <2>2, <2>3
  <2> QED
    BY <2>4 DEF Used
<1> QED
  BY <1>1, <1>2

(* The address register gives is in the pool, and nobody else's.           *)
LEMMA AssignedIsOwn ==
    ASSUME TypeOK, up, Recorded(nodes), NEW n \in Nodes, Assigned(n) # None,
           NEW table, table = [nodes EXCEPT ![n] = Assigned(n)]
    PROVE  table \in Table /\ table[n] # None /\ Recorded(table)
<1>1. nodes \in Table
  BY DEF TypeOK
<1>2. /\ Assigned(n) \in Pool
      /\ \A m \in Nodes \ {n} : nodes[m] # Assigned(n)
      /\ nodes[n] # None => Assigned(n) = nodes[n]
  <2>1. CASE nodes[n] # None
    BY <1>1, <2>1 DEF Assigned, Table, Recorded
  <2>2. CASE nodes[n] = None
    BY <1>1, <2>2, NextFreeIsFree DEF Assigned
  <2> QED
    BY <2>1, <2>2
<1>3. table \in Table /\ table[n] = Assigned(n) /\ \A m \in Nodes \ {n} : table[m] = nodes[m]
  BY <1>1, <1>2 DEF Table
<1>4. \A m \in Nodes : first[m] # None => nodes[m] # None
  BY DEF Recorded
<1>5. \A m \in Nodes : first[m] # None => table[m] = first[m]
  BY <1>2, <1>3, <1>4 DEF Recorded
<1>6. \A m, k \in Nodes : m # k /\ table[m] # None => table[m] # table[k]
  BY <1>2, <1>3 DEF Recorded
<1> QED
  BY <1>3, <1>5, <1>6 DEF Recorded

-----------------------------------------------------------------------------

(* A coordinator with an empty table and file starts in the invariant.     *)
LEMMA InitInv == Init => Inv
<1> SUFFICES ASSUME Init PROVE Inv
  OBVIOUS
<1>1. Empty \in Table
  BY DEF Empty, Table
<1>2. TypeOK
  <2>1. MaxFaults \in Nat
    BY RegistryAssumption
  <2>2. faults \in 0 .. MaxFaults
    BY <2>1 DEF Init
  <2> QED
    BY <1>1, <2>2 DEF Init, TypeOK
<1>3. HandedOut
  BY DEF Init, HandedOut, OverlayIpStable, Empty
<1>4. Recorded(Empty)
  BY DEF Init, Recorded, Empty
<1> QED
  BY <1>2, <1>3, <1>4 DEF Init, Inv, JobConsistent

(* A fault is counted within its bound. *)
LEMMA FaultType ==
    ASSUME Inv, NEW kind, Fault(kind)
    PROVE  faults' \in 0 .. MaxFaults
<1>1. faults \in 0 .. MaxFaults /\ faults < MaxFaults /\ faults' = faults + 1
  BY DEF Inv, TypeOK, Fault
<1>2. MaxFaults \in Nat
  BY RegistryAssumption
<1> QED
  BY <1>1, <1>2

(* The file is opened and torn, or stays as it was.                        *)
LEMMA PersistStep ==
    ASSUME Inv, StateFile, NEW request, PersistBegins(request)
    PROVE  /\ faults' \in 0 .. MaxFaults
           /\ (job' = request /\ file' = Torn) \/ UNCHANGED <<job, file>>
<1>1. faults \in 0 .. MaxFaults
  BY DEF Inv, TypeOK
<1> QED
  BY <1>1, FaultType DEF PersistBegins, Truncated

(* A daemon registers. *)
LEMMA RegisterInv ==
    ASSUME Inv, StateFile, NEW n \in Nodes, Register(n)
    PROVE  Inv'
<1>1. UNCHANGED <<up, address, first>> /\ up /\ job = None /\ limited' \subseteq Nodes
  BY DEF Register, Inv, TypeOK
<1>2. HandedOut'
  BY <1>1 DEF Inv, HandedOut, OverlayIpStable
<1>3. CASE Assigned(n) = None
  <2>1. UNCHANGED <<nodes, file, job, faults>>
    BY <1>3 DEF Register
  <2> QED
    BY <1>1, <1>2, <2>1 DEF Inv, TypeOK, JobConsistent, Recorded
<1>4. CASE Assigned(n) # None
  <2> DEFINE request == [kind |-> "register", node |-> n, text |-> nodes']
  <2>1. /\ nodes' = [nodes EXCEPT ![n] = Assigned(n)]
        /\ faults' \in 0 .. MaxFaults
        /\ (job' = request /\ file' = Torn) \/ UNCHANGED <<job, file>>
    <3>1. nodes' = [nodes EXCEPT ![n] = Assigned(n)] /\ PersistBegins(request)
      BY <1>4 DEF Register
    <3> HIDE DEF request
    <3> QED
      BY <3>1, PersistStep
  <2>2. nodes' \in Table /\ nodes'[n] # None /\ Recorded(nodes')
    BY <1>1, <1>4, <2>1, AssignedIsOwn DEF Inv
  <2>3. TypeOK'
    <3>1. request \in [kind : {"register", "poll"}, node : Nodes, text : Table]
      BY <2>2
    <3> HIDE DEF request
    <3>2. CASE job' = request /\ file' = Torn
      BY <1>1, <2>1, <2>2, <3>1, <3>2 DEF Inv, TypeOK
    <3>3. CASE UNCHANGED <<job, file>>
      BY <1>1, <2>1, <2>2, <3>3 DEF Inv, TypeOK
    <3> QED
      BY <2>1, <3>2, <3>3
  <2>4. CASE job' = request /\ file' = Torn
    <3>1. job'.text = nodes' /\ job'.node = n
      BY <2>4
    <3>2. JobConsistent'
      BY <1>1, <2>2, <3>1 DEF JobConsistent
    <3> QED
      BY <1>1, <1>2, <2>1, <2>2, <2>3, <2>4, <3>2 DEF Inv, Recorded
  <2>5. CASE UNCHANGED <<job, file>>
    <3>1. JobConsistent'
      BY <1>1, <2>5 DEF JobConsistent
    <3> QED
      BY <1>1, <1>2, <2>2, <2>3, <2>5, <3>1 DEF Inv, Recorded
  <2> QED
    BY <2>1, <2>4, <2>5
<1> QED
  BY <1>3, <1>4

(* A daemon polls. *)
LEMMA PollInv ==
    ASSUME Inv, StateFile, NEW n \in Nodes, Poll(n)
    PROVE  Inv'
<1> DEFINE request == [kind |-> "poll", node |-> n, text |-> nodes]
<1>1. /\ UNCHANGED <<up, nodes, limited, address, first>>
      /\ up /\ job = None /\ nodes[n] # None
      /\ faults' \in 0 .. MaxFaults
      /\ (job' = request /\ file' = Torn) \/ UNCHANGED <<job, file>>
  BY PersistStep DEF Poll
<1>2. TypeOK'
  BY <1>1 DEF Inv, TypeOK
<1>3. HandedOut' /\ JobConsistent'
  BY <1>1 DEF Inv, HandedOut, OverlayIpStable, JobConsistent
<1> QED
  BY <1>1, <1>2, <1>3 DEF Inv, Recorded

(* A handler has written the file and replies: an address may be handed    *)
(* out now, and both tables have it.                                       *)
LEMMA ReplyInv ==
    ASSUME Inv, StateFile, Reply
    PROVE  Inv'
<1>1. /\ UNCHANGED <<up, nodes, limited, faults>>
      /\ job # None /\ job' = None
      /\ file' = nodes
      /\ up /\ Recorded(nodes) /\ nodes[job.node] # None
  BY DEF Reply, Inv, JobConsistent
<1>2. nodes \in Table /\ job.node \in Nodes /\ job.kind \in {"register", "poll"}
  BY <1>1 DEF Inv, TypeOK
<1>3. CASE job.kind # "register"
  <2>1. UNCHANGED <<address, first>>
    BY <1>3 DEF Reply
  <2> QED
    BY <1>1, <1>2, <2>1
       DEF Inv, TypeOK, HandedOut, OverlayIpStable, JobConsistent, Recorded
<1>4. CASE job.kind = "register"
  <2> DEFINE n == job.node
  <2>1. /\ address' = [address EXCEPT ![n] = nodes[n]]
        /\ first' = IF first[n] = None THEN [first EXCEPT ![n] = nodes[n]] ELSE first
    BY <1>4 DEF Reply
  <2>2. address' \in Table /\ first' \in Table
    BY <1>2, <2>1 DEF Inv, TypeOK, Table
  <2>3. TypeOK'
    BY <1>1, <1>2, <2>2 DEF Inv, TypeOK
  <2>4. \A m \in Nodes :
           /\ first'[m] = IF m = n THEN nodes[n] ELSE first[m]
           /\ address'[m] = IF m = n THEN nodes[n] ELSE address[m]
    BY <1>1, <1>2, <2>1 DEF Inv, TypeOK, Table, Recorded
  <2>5. Recorded(nodes)'
    BY <1>1, <2>4 DEF Recorded
  <2>6. OverlayIpStable'
    BY <2>4 DEF Inv, HandedOut, OverlayIpStable
  <2>7. \A m, k \in Nodes : m # k /\ first'[m] # None => first'[m] # first'[k]
    <3> SUFFICES ASSUME NEW m \in Nodes, NEW k \in Nodes, m # k, first'[m] # None
                 PROVE  first'[m] # first'[k]
      OBVIOUS
    <3>1. first'[m] = nodes[m]
      BY <2>5, <1>1 DEF Recorded
    <3>2. first'[k] = nodes[k] \/ first'[k] = None
      BY <2>5, <1>1 DEF Recorded
    <3> QED
      BY <3>1, <3>2, <1>1 DEF Recorded
  <2> QED
    BY <1>1, <2>3, <2>5, <2>6, <2>7 DEF Inv, HandedOut, JobConsistent, Recorded
<1> QED
  BY <1>3, <1>4

-----------------------------------------------------------------------------

(* Time passes for the rate limit. *)
LEMMA LimitOverInv ==
    ASSUME Inv, NEW n \in Nodes, LimitOver(n)
    PROVE  Inv'
BY DEF LimitOver, Inv, TypeOK, HandedOut, OverlayIpStable, JobConsistent, Recorded

(* A daemon stops and forgets its address. *)
LEMMA DaemonStopsInv ==
    ASSUME Inv, NEW n \in Nodes, DaemonStops(n)
    PROVE  Inv'
<1>1. /\ UNCHANGED <<up, nodes, file, job, limited, first, faults>>
      /\ address' = [address EXCEPT ![n] = None]
  BY DEF DaemonStops
<1>2. address' \in Table
  BY <1>1 DEF Inv, TypeOK, Table
<1>3. OverlayIpStable'
  BY <1>1 DEF Inv, TypeOK, Table, HandedOut, OverlayIpStable
<1> QED
  BY <1>1, <1>2, <1>3 DEF Inv, TypeOK, HandedOut, JobConsistent, Recorded

(* Writing fails: the file stays torn. *)
LEMMA WriteErrorInv ==
    ASSUME Inv, WriteError
    PROVE  Inv'
<1>1. /\ UNCHANGED <<up, nodes, file, limited, address, first>>
      /\ job' = None /\ faults' \in 0 .. MaxFaults
  BY FaultType DEF WriteError
<1> QED
  BY <1>1 DEF Inv, TypeOK, HandedOut, OverlayIpStable, JobConsistent, Recorded

(* The coordinator crashes; the file is what is left. *)
LEMMA CrashInv ==
    ASSUME Inv, Crash
    PROVE  Inv'
<1>1. /\ UNCHANGED <<file, address, first>>
      /\ up' = FALSE /\ nodes' = Empty /\ job' = None /\ limited' = {}
  BY DEF Crash
<1>2. Empty \in Table
  BY DEF Empty, Table
<1>3. faults' \in 0 .. MaxFaults
  BY FaultType DEF Crash
<1> QED
  BY <1>1, <1>2, <1>3 DEF Inv, TypeOK, HandedOut, OverlayIpStable, JobConsistent, Recorded

(* It starts again from a file that is not torn. *)
LEMMA StartInv ==
    ASSUME Inv, StateFile, Start
    PROVE  Inv'
<1>1. /\ UNCHANGED <<file, job, limited, address, first, faults>>
      /\ file # Torn /\ nodes' = file /\ up' = TRUE /\ ~up
  BY DEF Start
<1>2. job' = None /\ nodes' \in Table
  BY <1>1 DEF Inv, TypeOK, JobConsistent
<1> QED
  BY <1>1, <1>2 DEF Inv, TypeOK, HandedOut, OverlayIpStable, JobConsistent, Recorded

(* Every step keeps the invariant: one lemma for each action. *)
LEMMA NextInv ==
    ASSUME Inv, StateFile, [Next]_vars
    PROVE  Inv'
<1>1. ASSUME NEW n \in Nodes, Register(n) \/ Poll(n) \/ LimitOver(n) \/ DaemonStops(n)
      PROVE  Inv'
  BY <1>1, RegisterInv, PollInv, LimitOverInv, DaemonStopsInv
<1>2. CASE Reply \/ WriteError \/ Crash \/ Start
  BY <1>2, ReplyInv, WriteErrorInv, CrashInv, StartInv
<1>3. CASE UNCHANGED vars
  BY <1>3 DEF vars, Inv, TypeOK, HandedOut, OverlayIpStable, JobConsistent, Recorded
<1> QED
  BY <1>1, <1>2, <1>3 DEF Next

(* With a state file the invariant holds for good. *)
LEMMA Invariant ==
    ASSUME StateFile
    PROVE  Spec => []Inv
<1>1. Init => Inv
  BY InitInv
<1>2. Inv /\ [Next]_vars => Inv'
  BY NextInv
<1> QED
  BY <1>1, <1>2, PTL DEF Spec

(***************************************************************************)
(* With a state file the tables of the coordinator, in memory, on disk and *)
(* in a handler's hands, keep their shape: no address outside the pool is  *)
(* ever given out (coordinator.rs:149-157).                                *)
(***************************************************************************)
THEOREM TablesWellFormed ==
    ASSUME StateFile
    PROVE  Spec => []TypeOK
<1>1. Inv => TypeOK
  BY DEF Inv
<1> QED
  BY <1>1, Invariant, PTL

(***************************************************************************)
(* With a state file a node is given one address for good, whatever        *)
(* crashes, fails or restarts (register, persist and load_or_new).         *)
(***************************************************************************)
THEOREM AddressesStable ==
    ASSUME StateFile
    PROVE  Spec => []OverlayIpStable
<1>1. Inv => OverlayIpStable
  BY DEF Inv, HandedOut
<1> QED
  BY <1>1, Invariant, PTL

(***************************************************************************)
(* With a state file the daemon of every address in use is known to the    *)
(* running coordinator under that address, so its polls are answered.      *)
(***************************************************************************)
THEOREM AddressesRegistered ==
    ASSUME StateFile
    PROVE  Spec => []AddressRegistered
<1>1. Inv => AddressRegistered
  BY DEF Inv, HandedOut, Recorded, AddressRegistered, OverlayIpStable
<1> QED
  BY <1>1, Invariant, PTL

(***************************************************************************)
(* With a state file no two daemons ever have the same overlay address.    *)
(***************************************************************************)
THEOREM AddressesUnique ==
    ASSUME StateFile
    PROVE  Spec => []NoSharedAddress
<1>1. Inv => NoSharedAddress
  BY DEF Inv, HandedOut, NoSharedAddress, OverlayIpStable
<1> QED
  BY <1>1, Invariant, PTL
=============================================================================
