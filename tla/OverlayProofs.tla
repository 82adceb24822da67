---------------------------- MODULE OverlayProofs ----------------------------
(***************************************************************************)
(* With a state file the mesh implements the address book, for every set   *)
(* of nodes, pool and number of faults.                                    *)
(*                                                                         *)
(* A daemon may act on an old answer, so what it believes has to be        *)
(* compared with something that survives the coordinator: book, the table  *)
(* it last answered from.  The invariant adds to the registry's own that   *)
(* the book is contained in whatever the coordinator will next know (its   *)
(* table, or its file unless that is torn), and all beliefs in the book.   *)
(* From it follows that packets are encrypted for the owner of an address. *)
(*                                                                         *)
(* The second part is about the calls of PeerManager: what the loops of    *)
(* find_best_peer_idx and sync_peers return.                               *)
(***************************************************************************)
EXTENDS Overlay, PeerManager, RegistryProofs

Beliefs ==
    \A n \in Nodes :
        /\ Book!Within(peers[n], book)
        /\ answer[n] # NoAnswer => Book!Within(answer[n], book)
        /\ address[n] \in {None, book[n]}

BookKept ==
    /\ Book!Injective(book)
    /\ up => Book!Within(book, nodes)
    /\ file # Torn => Book!Within(book, file)

MeshInv == Inv /\ MeshTypeOK /\ Beliefs /\ BookKept

(* The mesh starts in the invariant. *)
LEMMA MeshInitInv == MeshInit => MeshInv
<1> SUFFICES ASSUME MeshInit PROVE MeshInv
  OBVIOUS
<1>1. Inv
  BY InitInv DEF MeshInit
<1>2. Empty \in Table
  BY DEF Empty, Table
<1>3. MeshTypeOK
  BY <1>1, <1>2 DEF MeshInit, MeshTypeOK, Inv
<1>4. Beliefs /\ BookKept
  BY DEF MeshInit, Init, Beliefs, BookKept, Empty, Book!Within, Book!Injective
<1> QED
  BY <1>1, <1>3, <1>4 DEF MeshInv

(* A step of the mesh is one of the registry, or leaves it alone.          *)
LEMMA MeshNextIsNext == [MeshNext]_meshVars => [Next]_vars
BY DEF MeshNext, meshVars, vars, Next, MeshRegister, MeshPoll, Sync, MeshLimitOver,
       MeshDaemonStops, MeshReply, Coordinator

(* What a step does to the registry's tables: memory keeps what it has     *)
(* unless the coordinator crashes, and what it starts with is the file.    *)
LEMMA TablesKept ==
    ASSUME MeshInv, StateFile, Next
    PROVE  /\ up /\ up' => Book!Within(nodes, nodes')
           /\ ~up /\ up' => file # Torn /\ nodes' = file
           /\ file' # Torn => file' = file \/ (up /\ file' = nodes)
<1> USE DEF MeshInv, Inv, TypeOK, Table, Book!Within
<1>1. ASSUME NEW n \in Nodes, Register(n)
      PROVE  up /\ up' /\ Book!Within(nodes, nodes') /\ (file' = Torn \/ file' = file)
  <2>1. CASE Assigned(n) = None
    BY <1>1, <2>1 DEF Register
  <2>2. CASE Assigned(n) # None
    <3>1. nodes[n] # None => Assigned(n) = nodes[n]
      BY DEF Assigned
    <3>2. nodes' = [nodes EXCEPT ![n] = Assigned(n)] /\ up' = up /\ up
      BY <1>1, <2>2 DEF Register
    <3>3. file' = Torn \/ file' = file
      BY <1>1, <2>2, PersistStep DEF Register
    <3> QED
      BY <3>1, <3>2, <3>3
  <2> QED
    BY <2>1, <2>2
<1>2. ASSUME NEW n \in Nodes, Poll(n)
      PROVE  nodes' = nodes /\ up' = up /\ (file' = Torn \/ file' = file)
  BY <1>2, PersistStep DEF Poll
<1>3. ASSUME NEW n \in Nodes, LimitOver(n) \/ DaemonStops(n)
      PROVE  UNCHANGED <<up, nodes, file>>
  BY <1>3 DEF LimitOver, DaemonStops
<1>4. CASE Reply
  BY <1>4 DEF Reply, JobConsistent
<1>5. CASE WriteError
  BY <1>5 DEF WriteError
<1>6. CASE Crash
  BY <1>6 DEF Crash
<1>7. CASE Start
  BY <1>7 DEF Start
<1> QED
  BY <1>1, <1>2, <1>3, <1>4, <1>5, <1>6, <1>7 DEF Next

-----------------------------------------------------------------------------

(* As long as the book stays, so does what is known of it.                 *)
LEMMA BookStays ==
    ASSUME MeshInv, StateFile, [Next]_vars, book' = book
    PROVE  BookKept'
<1>1. CASE Next
  <2>1. /\ up /\ up' => Book!Within(nodes, nodes')
        /\ ~up /\ up' => file # Torn /\ nodes' = file
        /\ file' # Torn => file' = file \/ (up /\ file' = nodes)
    BY <1>1, TablesKept
  <2>2. BookKept
    BY DEF MeshInv
  <2>3. up' => Book!Within(book, nodes')
    BY <2>1, <2>2 DEF BookKept, Book!Within
  <2>4. file' # Torn => Book!Within(book, file')
    BY <2>1, <2>2 DEF BookKept
  <2> QED
    BY <2>2, <2>3, <2>4 DEF BookKept, Book!Within, Book!Injective
<1>2. CASE UNCHANGED vars
  BY <1>2 DEF vars, MeshInv, BookKept, Book!Within, Book!Injective
<1> QED
  BY <1>1, <1>2

(* A reply publishes the registry's table; all that was in the book stays  *)
(* in it.                                                                  *)
LEMMA ReplyPublishes ==
    ASSUME MeshInv, StateFile, MeshReply
    PROVE  /\ job.node \in Nodes /\ up /\ nodes' = nodes /\ nodes \in Table
           /\ Book!Within(book, book') /\ Book!Injective(book')
           /\ PeersFor(job.node) \in Table /\ Book!Within(PeersFor(job.node), book')
<1>1. job # None /\ book' = nodes /\ UNCHANGED <<up, nodes>>
  BY DEF MeshReply, Reply
<1>2. job.node \in Nodes /\ up /\ nodes \in Table
  BY <1>1 DEF MeshInv, Inv, TypeOK, JobConsistent
<1>3. Book!Within(book, nodes) /\ Recorded(nodes)
  BY <1>2 DEF MeshInv, BookKept, Inv
<1>4. Book!Injective(nodes)
  BY <1>3 DEF Recorded, Book!Injective
<1>5. PeersFor(job.node) \in Table /\ Book!Within(PeersFor(job.node), nodes)
  BY <1>2 DEF PeersFor, Table, Book!Within
<1> QED
  BY <1>1, <1>2, <1>3, <1>4, <1>5 DEF Book!Within, Book!Injective

(* A reply keeps the invariant. *)
LEMMA MeshReplyInv ==
    ASSUME MeshInv, StateFile, MeshReply
    PROVE  MeshInv'
<1> DEFINE n == job.node
<1>1. /\ n \in Nodes /\ up /\ nodes' = nodes /\ nodes \in Table
      /\ Book!Within(book, book') /\ Book!Injective(book')
      /\ PeersFor(n) \in Table /\ Book!Within(PeersFor(n), book')
  BY ReplyPublishes
<1>2. Reply /\ book' = nodes /\ up' = up /\ job # None
  BY DEF MeshReply, Reply
<1>3. Inv'
  BY <1>2, NextInv DEF MeshInv, Next
<1>4. /\ peers' = peers \/ peers' = [peers EXCEPT ![n] = PeersFor(n)]
      /\ answer' = answer \/ answer' = [answer EXCEPT ![n] = PeersFor(n)]
      /\ address' = address \/ address' = [address EXCEPT ![n] = nodes[n]]
  BY DEF MeshReply, Reply
<1>5. MeshTypeOK'
  BY <1>1, <1>2, <1>3, <1>4 DEF MeshInv, MeshTypeOK, Inv
<1>6. BookKept'
  <2>1. Book!Within(nodes, nodes)
    BY DEF Book!Within
  <2>2. file' = job.text /\ job.text = nodes
    BY <1>2 DEF Reply, MeshInv, Inv, JobConsistent
  <2> QED
    BY <1>1, <1>2, <2>1, <2>2 DEF BookKept, Book!Within, Book!Injective
<1>7. Beliefs'
  <2> SUFFICES ASSUME NEW k \in Nodes
               PROVE  /\ Book!Within(peers'[k], book')
                      /\ answer'[k] # NoAnswer => Book!Within(answer'[k], book')
                      /\ address'[k] \in {None, book'[k]}
    BY DEF Beliefs, Book!Within
  <2>1. /\ peers'[k] = peers[k] \/ peers'[k] = PeersFor(n)
        /\ answer'[k] = answer[k] \/ answer'[k] = PeersFor(n)
        /\ address'[k] = address[k] \/ address'[k] = nodes[k]
    BY <1>1, <1>4 DEF MeshInv, MeshTypeOK, Inv, TypeOK, Table
  <2>2. /\ Book!Within(peers[k], book')
        /\ answer[k] # NoAnswer => Book!Within(answer[k], book')
        /\ address[k] \in {None, book'[k]}
    BY <1>1 DEF MeshInv, Beliefs, Book!Within
  <2> QED
    BY <1>1, <1>2, <2>1, <2>2
<1> QED
  BY <1>3, <1>5, <1>6, <1>7 DEF MeshInv

(* A daemon reads an answer. *)
LEMMA SyncInv ==
    ASSUME MeshInv, StateFile, NEW n \in Nodes, Sync(n)
    PROVE  MeshInv'
<1>1. /\ answer[n] # NoAnswer /\ peers' = [peers EXCEPT ![n] = answer[n]]
      /\ answer' = [answer EXCEPT ![n] = NoAnswer] /\ UNCHANGED vars /\ book' = book
  BY DEF Sync
<1>2. Inv' /\ BookKept'
  BY <1>1, NextInv, BookStays DEF MeshInv
<1>3. answer[n] \in Table
  BY <1>1 DEF MeshInv, MeshTypeOK
<1>4. MeshTypeOK'
  BY <1>1, <1>2, <1>3 DEF MeshInv, MeshTypeOK, Inv
<1>5. Beliefs'
  BY <1>1 DEF MeshInv, MeshTypeOK, Beliefs, vars, Book!Within
<1> QED
  BY <1>2, <1>4, <1>5 DEF MeshInv

(* A daemon stops and forgets. *)
LEMMA MeshDaemonStopsInv ==
    ASSUME MeshInv, StateFile, NEW n \in Nodes, MeshDaemonStops(n)
    PROVE  MeshInv'
<1>1. /\ DaemonStops(n) /\ peers' = [peers EXCEPT ![n] = Empty]
      /\ answer' = [answer EXCEPT ![n] = NoAnswer] /\ book' = book
      /\ address' = [address EXCEPT ![n] = None]
  BY DEF MeshDaemonStops, DaemonStops
<1>2. Inv' /\ BookKept'
  BY <1>1, NextInv, BookStays DEF MeshInv, Next
<1>3. Empty \in Table /\ Book!Within(Empty, book)
  BY DEF Empty, Table, Book!Within
<1>4. MeshTypeOK'
  BY <1>1, <1>2, <1>3 DEF MeshInv, MeshTypeOK, Inv
<1>5. Beliefs'
  BY <1>1, <1>3 DEF MeshInv, MeshTypeOK, Inv, TypeOK, Table, Beliefs, Book!Within
<1> QED
  BY <1>2, <1>4, <1>5 DEF MeshInv

(* The other steps leave book, tables and addresses alone.                 *)
LEMMA OtherInv ==
    ASSUME MeshInv, StateFile, [Next]_vars, UNCHANGED <<peers, answer, book, address>>
    PROVE  MeshInv'
<1>1. Inv' /\ BookKept'
  BY NextInv, BookStays DEF MeshInv
<1>2. MeshTypeOK' /\ Beliefs'
  BY <1>1 DEF MeshInv, MeshTypeOK, Inv, Beliefs, Book!Within
<1> QED
  BY <1>1, <1>2 DEF MeshInv

(* They are these. *)
LEMMA Others ==
    ASSUME NEW n \in Nodes,
           MeshRegister(n) \/ MeshPoll(n) \/ MeshLimitOver(n) \/ Coordinator
                \/ UNCHANGED meshVars
    PROVE  [Next]_vars /\ UNCHANGED <<peers, answer, book, address>>
<1>1. CASE MeshRegister(n)
  BY <1>1 DEF MeshRegister, Register, Next
<1>2. CASE MeshPoll(n) \/ MeshLimitOver(n)
  BY <1>2 DEF MeshPoll, Poll, MeshLimitOver, LimitOver, Next
<1>3. CASE Coordinator
  BY <1>3 DEF Coordinator, WriteError, Crash, Start, Next
<1>4. CASE UNCHANGED meshVars
  BY <1>4 DEF meshVars, vars
<1> QED
  BY <1>1, <1>2, <1>3, <1>4

(* Every step keeps the invariant. *)
LEMMA MeshNextInv ==
    ASSUME MeshInv, StateFile, [MeshNext]_meshVars
    PROVE  MeshInv'
<1>1. ASSUME NEW n \in Nodes, MeshRegister(n) \/ MeshPoll(n) \/ MeshLimitOver(n)
      PROVE  MeshInv'
  BY <1>1, Others, OtherInv
<1>2. ASSUME NEW n \in Nodes, Sync(n) \/ MeshDaemonStops(n)
      PROVE  MeshInv'
  BY <1>2, SyncInv, MeshDaemonStopsInv
<1>3. CASE MeshReply
  BY <1>3, MeshReplyInv
<1>4. CASE Coordinator
  <2>1. [Next]_vars /\ UNCHANGED <<peers, answer, book, address>>
    BY <1>4 DEF Coordinator, WriteError, Crash, Start, Next
  <2> QED
    BY <2>1, OtherInv
<1>5. CASE UNCHANGED meshVars
  <2>1. [Next]_vars /\ UNCHANGED <<peers, answer, book, address>>
    BY <1>5 DEF meshVars, vars
  <2> QED
    BY <2>1, OtherInv
<1> QED
  BY <1>1, <1>2, <1>3, <1>4, <1>5 DEF MeshNext

(* With a state file the invariant holds for good. *)
LEMMA MeshInvariant ==
    ASSUME StateFile
    PROVE  MeshSpec => []MeshInv
<1>1. MeshInit => MeshInv
  BY MeshInitInv
<1>2. MeshInv /\ [MeshNext]_meshVars => MeshInv'
  BY MeshNextInv
<1> QED
  BY <1>1, <1>2, PTL DEF MeshSpec

-----------------------------------------------------------------------------

(* A view is a table whose entries are in the book.                        *)
LEMMA ViewInBook ==
    ASSUME MeshInv, NEW n \in Nodes
    PROVE  View(n) \in Table /\ Book!Within(View(n), book)
BY DEF MeshInv, MeshTypeOK, Inv, TypeOK, Table, Beliefs, View, Book!Within

(* A step that changes at most what n believes, and only adds to the book, *)
(* is a look of n at the book.                                             *)
LEMMA LookOf ==
    ASSUME MeshInv, MeshInv', NEW n \in Nodes, Book!Within(book, book'),
           \A k \in Nodes \ {n} : peers'[k] = peers[k] /\ address'[k] = address[k]
    PROVE  Book!Look(n)
<1> DEFINE view == [k \in Nodes |-> View(k)]
<1>1. View(n)' \in Table /\ Book!Within(View(n)', book')
  <2>1. peers'[n] \in Table /\ Book!Within(peers'[n], book')
    BY DEF MeshInv, MeshTypeOK, Beliefs, Book!Within
  <2>2. address'[n] \in Pool \cup {None} /\ address'[n] \in {None, book'[n]}
    BY DEF MeshInv, Inv, TypeOK, Table, Beliefs
  <2> QED
    BY <2>1, <2>2 DEF View, Table, Book!Within
<1>2. \A k \in Nodes \ {n} : View(k)' = View(k)
  BY DEF View
<1>3. view' = [view EXCEPT ![n] = view'[n]]
  BY <1>2
<1>4. view'[n] = View(n)'
  OBVIOUS
<1>5. book' \in Table /\ Book!Injective(book')
  BY DEF MeshInv, MeshTypeOK, BookKept, Book!Injective
<1>6. view'[n] \in Table /\ Book!Within(view'[n], book')
  BY <1>1, <1>4
<1> HIDE DEF view
<1> QED
  BY <1>3, <1>5, <1>6 DEF view, Book!Look, Table, Book!Table

(* Every step of the mesh is a look at the book, or does not show in it.   *)
LEMMA MeshStepLooks ==
    ASSUME MeshInv, MeshInv', StateFile, [MeshNext]_meshVars
    PROVE  [Book!Next]_(Book!vars)
<1>1. ASSUME UNCHANGED <<peers, address, book>>
      PROVE  UNCHANGED Book!vars
  BY <1>1 DEF Book!vars, View
<1>2. ASSUME NEW n \in Nodes, MeshRegister(n) \/ MeshPoll(n) \/ MeshLimitOver(n)
      PROVE  UNCHANGED Book!vars
  BY <1>1, <1>2, Others
<1>3. CASE Coordinator \/ UNCHANGED meshVars
  BY <1>1, <1>3 DEF Coordinator, WriteError, Crash, Start, meshVars, vars
<1>4. Book!Within(book, book)
  BY DEF Book!Within
<1>5. ASSUME NEW n \in Nodes, Sync(n)
      PROVE  Book!Look(n)
  <2>1. book' = book /\ address' = address /\ peers' = [peers EXCEPT ![n] = answer[n]]
    BY <1>5 DEF Sync, vars
  <2> QED
    BY <1>4, <2>1, LookOf DEF MeshInv, MeshTypeOK
<1>6. ASSUME NEW n \in Nodes, MeshDaemonStops(n)
      PROVE  Book!Look(n)
  <2>1. /\ book' = book /\ address' = [address EXCEPT ![n] = None]
        /\ peers' = [peers EXCEPT ![n] = Empty]
    BY <1>6 DEF MeshDaemonStops, DaemonStops
  <2> QED
    BY <1>4, <2>1, LookOf DEF MeshInv, MeshTypeOK, Inv, TypeOK, Table
<1>7. CASE MeshReply
  <2>1. job.node \in Nodes /\ Book!Within(book, book')
    BY <1>7, ReplyPublishes
  <2>2. /\ peers' = peers \/ peers' = [peers EXCEPT ![job.node] = PeersFor(job.node)]
        /\ address' = address \/ address' = [address EXCEPT ![job.node] = nodes[job.node]]
    BY <1>7 DEF MeshReply, Reply
  <2>3. \A k \in Nodes \ {job.node} : peers'[k] = peers[k] /\ address'[k] = address[k]
    BY <2>1, <2>2 DEF MeshInv, MeshTypeOK, Inv, TypeOK, Table
  <2>4. Book!Look(job.node)
    BY <2>1, <2>3, LookOf
  <2> QED
    BY <2>1, <2>4 DEF Book!Next
<1> QED
  BY <1>2, <1>3, <1>5, <1>6, <1>7 DEF MeshNext, Book!Next

(***************************************************************************)
(* Registry, state file, polls and peer tables implement the address book: *)
(* whatever a daemon has been told, however long ago and whatever has      *)
(* crashed since, is never contradicted (register, poll, peers_for,        *)
(* persist, load_or_new and sync_peers).                                   *)
(***************************************************************************)
THEOREM MeshRefinesAddressBook ==
    ASSUME StateFile
    PROVE  MeshSpec => ImplementsAddressBook
<1>1. MeshInit => Book!Init
  BY DEF MeshInit, Init, Empty, View, Book!Init, Book!Empty
<1>2. MeshInv /\ MeshInv' /\ [MeshNext]_meshVars => [Book!Next]_(Book!vars)
  BY MeshStepLooks
<1> QED
  BY <1>1, <1>2, MeshInvariant, PTL DEF MeshSpec, ImplementsAddressBook, Book!Spec

(***************************************************************************)
(* The mesh is a registry to which daemons' tables have been added: every  *)
(* behaviour of the one is a behaviour of the other, so that what is       *)
(* proved of the registry holds of the mesh (AddressRegistered and the     *)
(* other invariants of RegistryProofs).                                    *)
(***************************************************************************)
THEOREM MeshRefinesRegistry == MeshSpec => Spec
<1>1. MeshInit => Init
  BY DEF MeshInit
<1>2. [MeshNext]_meshVars => [Next]_vars
  BY MeshNextIsNext
<1> QED
  BY <1>1, <1>2, PTL DEF MeshSpec, Spec

-----------------------------------------------------------------------------

(* A host route contains its own address only. *)
LEMMA HostContains ==
    ASSUME NEW key, NEW own \in Nat, NEW ip \in Nat, Allows(Host(key, own), ip)
    PROVE  ip = own
<1>1. PICK k \in DOMAIN Host(key, own).allowed_ips : Contains(Host(key, own).allowed_ips[k], ip)
  BY DEF Allows
<1>2. Host(key, own).allowed_ips[k] = [addr |-> own, prefix_len |-> AddressBits]
  BY <1>1 DEF Host
<1>3. AddressBits = 0 \/ Masked(own, AddressBits) = Masked(ip, AddressBits)
  BY <1>1, <1>2 DEF Contains
<1>4. 2^(AddressBits - AddressBits) = 1
  BY RoutingAssumption
<1>5. \A x \in Nat : x \div 1 = x
  OBVIOUS
<1>6. Masked(own, AddressBits) = own /\ Masked(ip, AddressBits) = ip
  BY <1>4, <1>5 DEF Masked
<1> QED
  BY <1>3, <1>6, RoutingAssumption

(* An entry of a daemon's table is a host route to the address of a node.  *)
LEMMA TableEntries ==
    ASSUME MeshInv, NEW n \in Nodes, NEW list \in Tables(n), NEW i \in DOMAIN list
    PROVE  \E m \in Nodes : peers[n][m] \in Pool /\ list[i] = Host(m, peers[n][m])
<1>1. PICK order \in SeqExt!SetToSeqs({m \in Nodes : peers[n][m] # None}) :
        list = [j \in DOMAIN order |-> Host(order[j], peers[n][order[j]])]
  BY DEF Tables
<1>2. order[i] \in {m \in Nodes : peers[n][m] # None}
  BY <1>1 DEF SeqExt!SetToSeqs
<1>3. peers[n][order[i]] \in Pool
  BY <1>2 DEF MeshInv, MeshTypeOK, Table
<1> QED
  BY <1>1, <1>2, <1>3

(***************************************************************************)
(* With a state file a packet for the address of a running daemon is       *)
(* encrypted for it or for nobody, and nobody else may use that address as *)
(* a source, in every daemon's table and whatever its order, for any       *)
(* nodes, pool and faults: tables and addresses are both in the book, which*)
(* gives no address twice.                                                 *)
(***************************************************************************)
THEOREM PacketsReachOwner ==
    ASSUME StateFile
    PROVE  MeshSpec => []CryptokeyRouting
<1>1. ASSUME MeshInv, NEW n \in Nodes, NEW m \in Nodes, Running(m),
             NEW list \in Tables(n), NEW i \in DOMAIN list, Allows(list[i], address[m])
      PROVE  list[i].key = m
  <2>1. PICK k \in Nodes : peers[n][k] \in Pool /\ list[i] = Host(k, peers[n][k])
    BY <1>1, TableEntries
  <2>2. address[m] \in Pool
    BY <1>1 DEF MeshInv, Inv, TypeOK, Table, Running
  <2>3. address[m] = peers[n][k]
    BY <1>1, <2>1, <2>2, HostContains DEF Pool
  <2>4. peers[n][k] = book[k] /\ address[m] = book[m]
    BY <1>1, <2>1, <2>2, RegistryAssumption
    DEF MeshInv, Beliefs, Running, Book!Within, Pool
  <2>5. k = m
    BY <1>1, <2>2, <2>3, <2>4, RegistryAssumption DEF MeshInv, BookKept, Book!Injective, Pool
  <2> QED
    BY <2>1, <2>5 DEF Host
<1>2. MeshInv => CryptokeyRouting
  <2> SUFFICES ASSUME MeshInv, NEW n \in Nodes, NEW m \in Nodes, Running(m),
                      NEW list \in Tables(n)
               PROVE  /\ \A found \in DOMAIN list :
                            LongestMatch(list, address[m], found) => list[found].key = m
                      /\ \A i \in DOMAIN list :
                            Allows(list[i], address[m]) => list[i].key = m
    BY DEF CryptokeyRouting
  <2>1. ASSUME NEW found \in DOMAIN list, LongestMatch(list, address[m], found)
        PROVE  Allows(list[found], address[m])
    <3>1. found # 0
      <4>1. PICK order \in SeqExt!SetToSeqs({k \in Nodes : peers[n][k] # None}) :
              list = [j \in DOMAIN order |-> Host(order[j], peers[n][order[j]])]
        BY DEF Tables
      <4> DEFINE size == SeqExt!Cardinality({k \in Nodes : peers[n][k] # None})
      <4>2. DOMAIN order = 1 .. size
        BY <4>1 DEF SeqExt!SetToSeqs
      <4> HIDE DEF size
      <4>3. found \in 1 .. size
        BY <4>1, <4>2
      <4> QED
        BY <4>3
    <3>2. Routes(list[found], address[m]) # {}
      BY <2>1, <3>1 DEF LongestMatch
    <3> QED
      BY <3>2 DEF Routes, Allows
  <2> QED
    BY <1>1, <2>1
<1> QED
  BY <1>2, MeshInvariant, PTL

-----------------------------------------------------------------------------

(***************************************************************************)
(* The loops of find_best_peer_idx and sync_peers, for every table and     *)
(* list.  Of each loop the invariant says what has been achieved for the   *)
(* part of the list that it has gone through.                              *)
(***************************************************************************)
ManagerTypeOK ==
    /\ phase \in {"find", "found", "retain", "merge", "synced"}
    /\ before \in Seq(PeerEntry)
    /\ wanted \in Seq(Descriptor)
    /\ idx \in Nat \ {0} /\ sub \in Nat \ {0}
    /\ best_prefix_len \in -1 .. AddressBits
    /\ matched_peer_idx \in Nat
    /\ after \in Seq(PeerEntry)
    /\ new_endpoints \subseteq Endpoints

(* Whether the search has looked at subnet k of peer i.                    *)
Visited(i, k) == i < idx \/ (i = idx /\ k < sub)

(* Of the routes looked at, the longest is known, and the first peer that  *)
(* has one as long.                                                        *)
FindInv ==
    phase \in {"find", "found"} =>
        /\ idx \in 1 .. Len(before) + 1
        /\ phase = "found" => idx = Len(before) + 1
        /\ \A i \in DOMAIN before : \A k \in Routes(before[i], dst_ip) :
            LET len == before[i].allowed_ips[k].prefix_len IN
            Visited(i, k) =>
                /\ len <= best_prefix_len
                /\ i < matched_peer_idx => len < best_prefix_len
        /\ \/ matched_peer_idx = 0 /\ best_prefix_len = -1
           \/ /\ matched_peer_idx \in DOMAIN before /\ matched_peer_idx <= idx
              /\ \E best \in Routes(before[matched_peer_idx], dst_ip) :
                    before[matched_peer_idx].allowed_ips[best].prefix_len = best_prefix_len

(* The table holds those of the first peers that are listed, as they were. *)
RetainInv ==
    phase = "retain" =>
        /\ idx \in 1 .. Len(before) + 1
        /\ Distinct(before) /\ Distinct(after)
        /\ \A p \in DOMAIN before :
                p < idx /\ before[p].key \in Keys(wanted) => before[p].key \in Keys(after)
        /\ \A i \in DOMAIN after :
                /\ after[i].key \in Keys(wanted)
                /\ \E p \in 1 .. idx - 1 : p \in DOMAIN before /\ after[i] = before[p]
        /\ OrderKept
        /\ new_endpoints = {}

(* The table holds the retained peers and those of the first descriptors,  *)
(* with what these say.                                                    *)
MergeInv ==
    phase \in {"merge", "synced"} =>
        /\ idx \in 1 .. Len(wanted) + 1
        /\ phase = "synced" => idx = Len(wanted) + 1
        /\ Distinct(before) /\ Distinct(after)
        /\ Keys(after) = (Keys(before) \cap Keys(wanted)) \cup {wanted[d].key : d \in 1 .. idx - 1}
        /\ \A i \in DOMAIN after :
            /\ KeepsSession(after[i])
            /\ \/ \E d \in DOMAIN wanted : Says(idx - 1, d, after[i])
               \/ \A d \in 1 .. idx - 1 : wanted[d].key # after[i].key
        /\ OrderKept
        /\ new_endpoints = {wanted[d].endpoint : d \in Adding(idx - 1)} \ {NoEndpoint}

ManagerInv == ManagerTypeOK /\ FindInv /\ RetainInv /\ MergeInv

(* A prefix has at most as many bits as an address. *)
LEMMA PrefixLength ==
    ASSUME NEW list \in Seq(PeerEntry), NEW i \in DOMAIN list,
           NEW k \in DOMAIN list[i].allowed_ips
    PROVE  list[i].allowed_ips[k].prefix_len \in 0 .. AddressBits
<1>1. list[i] \in PeerEntry
  OBVIOUS
<1>2. list[i].allowed_ips \in Seq(Subnet)
  BY <1>1 DEF PeerEntry, RouteList
<1>3. list[i].allowed_ips[k] \in Subnet
  BY <1>2
<1> QED
  BY <1>3 DEF Subnet

(* Each call starts in the invariant. *)
LEMMA ManagerInitInv == ManagerInit => ManagerInv
<1> SUFFICES ASSUME ManagerInit PROVE ManagerInv
  OBVIOUS
<1> USE DEF ManagerInit
<1>1. ManagerTypeOK
  <2>1. ASSUME NEW call \in Lookups, before = call[1], wanted = <<>>
        PROVE  before \in Seq(PeerEntry) /\ wanted \in Seq(Descriptor)
    BY <2>1, PeerManagerAssumption
  <2>2. ASSUME NEW call \in Syncs, before = call[1], wanted = call[2]
        PROVE  before \in Seq(PeerEntry) /\ wanted \in Seq(Descriptor)
    BY <2>2, PeerManagerAssumption
  <2>3. -1 \in -1 .. AddressBits
    BY RoutingAssumption
  <2> QED
    BY <2>1, <2>2, <2>3 DEF ManagerTypeOK
<1>2. FindInv
  <2>1. CASE phase = "find"
    <3>1. ASSUME NEW i \in DOMAIN before, NEW k \in Routes(before[i], dst_ip)
          PROVE  ~Visited(i, k)
      <4>1. before[i] \in PeerEntry /\ i >= 1
        BY <1>1 DEF ManagerTypeOK
      <4>2. k \in Nat \ {0}
        BY <4>1 DEF PeerEntry, RouteList, Routes
      <4> QED
        BY <4>1, <4>2 DEF Visited
    <3>2. idx \in 1 .. Len(before) + 1
      BY <1>1 DEF ManagerTypeOK
    <3> QED
      BY <2>1, <3>1, <3>2 DEF FindInv
  <2> QED
    BY <2>1 DEF FindInv
<1>3. RetainInv /\ MergeInv
  BY <1>1, PeerManagerAssumption DEF RetainInv, MergeInv, Distinct, OrderKept, ManagerTypeOK
<1> QED
  BY <1>1, <1>2, <1>3 DEF ManagerInv

(* What the table is after a known peer has been updated: the same but for *)
(* that peer's endpoint and subnets.                                       *)
LEMMA UpdateAt ==
    ASSUME after \in Seq(PeerEntry), NEW w \in Descriptor, Update(w)
    PROVE  /\ after' \in Seq(PeerEntry) /\ DOMAIN after' = DOMAIN after
           /\ new_endpoints' = new_endpoints
           /\ \E i \in DOMAIN after :
                /\ after[i].key = w.key
                /\ after'[i].key = w.key /\ after'[i].session = after[i].session
                /\ after'[i].endpoint = w.endpoint /\ after'[i].allowed_ips = w.allowed_ips
                /\ \A j \in DOMAIN after : j # i => after'[j] = after[j]
<1>1. PICK i \in DOMAIN after :
        /\ after[i].key = w.key
        /\ after' = [after EXCEPT ![i].endpoint = w.endpoint, ![i].allowed_ips = w.allowed_ips]
  BY DEF Update
<1>2. after[i] \in PeerEntry
  OBVIOUS
<1> DEFINE entry == [after[i] EXCEPT !.endpoint = w.endpoint, !.allowed_ips = w.allowed_ips]
<1>3. /\ entry \in PeerEntry /\ entry.key = w.key /\ entry.session = after[i].session
      /\ entry.endpoint = w.endpoint /\ entry.allowed_ips = w.allowed_ips
  BY <1>1, <1>2 DEF PeerEntry, Descriptor
<1>4. after' = [after EXCEPT ![i] = entry]
  BY <1>1
<1> HIDE DEF entry
<1>5. new_endpoints' = new_endpoints
  BY DEF Update
<1>6. /\ after' \in Seq(PeerEntry) /\ DOMAIN after' = DOMAIN after
      /\ after'[i] = entry /\ \A j \in DOMAIN after : j # i => after'[j] = after[j]
  BY <1>3, <1>4
<1> QED
  BY <1>1, <1>3, <1>5, <1>6

(* What appending an entry does to a table.                                *)
LEMMA AppendAt ==
    ASSUME after \in Seq(PeerEntry), NEW entry \in PeerEntry, after' = Append(after, entry)
    PROVE  /\ after' \in Seq(PeerEntry)
           /\ DOMAIN after' = DOMAIN after \cup {Len(after) + 1}
           /\ DOMAIN after = 1 .. Len(after)
           /\ after'[Len(after) + 1] = entry
           /\ \A j \in DOMAIN after : after'[j] = after[j]
OBVIOUS

(* Nothing gets a wrong type. *)
LEMMA ManagerTypeStep ==
    ASSUME ManagerTypeOK, [ManagerNext]_managerVars
    PROVE  ManagerTypeOK'
<1> USE DEF ManagerTypeOK, callVars, findVars, syncVars
<1>1. CASE Compare
  <2>1. before[idx].allowed_ips[sub].prefix_len \in 0 .. AddressBits
    BY <1>1, PrefixLength DEF Compare, InPeers
  <2>2. best_prefix_len' \in -1 .. AddressBits /\ matched_peer_idx' \in Nat
    BY <1>1, <2>1, RoutingAssumption DEF Compare, InPeers
  <2> QED
    BY <1>1, <2>2 DEF Compare, InPeers
<1>2. CASE NextPeer \/ Found \/ Retained \/ Synced \/ UNCHANGED managerVars
  BY <1>2 DEF NextPeer, InPeers, Found, Retained, Synced, managerVars
<1>3. CASE Retain
  BY <1>3 DEF Retain
<1>4. CASE Merge
  <2>1. wanted[idx] \in Descriptor
    BY <1>4 DEF Merge
  <2>2. CASE Update(wanted[idx])
    BY <1>4, <2>1, <2>2, UpdateAt DEF Merge
  <2>3. CASE Add(wanted[idx])
    <3>1. NewPeer(wanted[idx]) \in PeerEntry
      BY <2>1 DEF NewPeer, Descriptor, PeerEntry
    <3>2. {wanted[idx].endpoint} \ {NoEndpoint} \subseteq Endpoints
      BY <2>1 DEF Descriptor
    <3> QED
      BY <1>4, <2>3, <3>1, <3>2 DEF Merge, Add
  <2> QED
    BY <1>4, <2>2, <2>3 DEF Merge
<1> QED
  BY <1>1, <1>2, <1>3, <1>4 DEF ManagerNext

(* A round of the search keeps its invariant.                              *)
LEMMA CompareFind ==
    ASSUME ManagerTypeOK, FindInv, Compare
    PROVE  FindInv'
<1> DEFINE subnet == before[idx].allowed_ips[sub]
           routes(i) == Routes(before[i], dst_ip)
           len(i, k) == before[i].allowed_ips[k].prefix_len
<1>1. /\ phase = "find" /\ idx \in DOMAIN before /\ sub \in DOMAIN before[idx].allowed_ips
      /\ phase' = phase /\ before' = before /\ dst_ip' = dst_ip /\ idx' = idx
      /\ sub' = sub + 1
  BY DEF Compare, InPeers, callVars
<1>2. /\ \A i \in DOMAIN before : \A k \in routes(i) :
            Visited(i, k) => /\ len(i, k) <= best_prefix_len
                             /\ i < matched_peer_idx => len(i, k) < best_prefix_len
      /\ \/ matched_peer_idx = 0 /\ best_prefix_len = -1
         \/ /\ matched_peer_idx \in DOMAIN before /\ matched_peer_idx <= idx
            /\ \E best \in routes(matched_peer_idx) :
                    len(matched_peer_idx, best) = best_prefix_len
  BY <1>1 DEF FindInv
<1>3. ASSUME NEW i \in DOMAIN before, NEW k \in routes(i)
      PROVE  /\ len(i, k) \in Int /\ i \in Nat /\ k \in Nat
             /\ Visited(i, k)' => Visited(i, k) \/ (i = idx /\ k = sub)
  <2>1. k \in DOMAIN before[i].allowed_ips
    BY DEF Routes
  <2>2. before[i] \in PeerEntry /\ i \in Nat
    BY DEF ManagerTypeOK
  <2>3. k \in Nat
    BY <2>1, <2>2 DEF PeerEntry, RouteList
  <2>4. len(i, k) \in 0 .. AddressBits
    BY <2>1, PrefixLength DEF ManagerTypeOK
  <2> QED
    BY <1>1, <2>2, <2>3, <2>4 DEF Visited, ManagerTypeOK
<1>4. sub \in routes(idx) <=> Contains(subnet, dst_ip)
  BY <1>1 DEF Routes
<1>5. \/ /\ sub \in routes(idx) /\ len(idx, sub) > best_prefix_len
         /\ best_prefix_len' = len(idx, sub) /\ matched_peer_idx' = idx
      \/ /\ sub \in routes(idx) => ~(len(idx, sub) > best_prefix_len)
         /\ best_prefix_len' = best_prefix_len /\ matched_peer_idx' = matched_peer_idx
  BY <1>1, <1>4 DEF Compare, findVars
<1> HIDE DEF len, routes
<1>6. \A i \in DOMAIN before : \A k \in routes(i) :
            Visited(i, k)' => /\ len(i, k) <= best_prefix_len'
                              /\ i < matched_peer_idx' => len(i, k) < best_prefix_len'
  BY <1>1, <1>2, <1>3, <1>5 DEF ManagerTypeOK
<1>7. \/ matched_peer_idx' = 0 /\ best_prefix_len' = -1
      \/ /\ matched_peer_idx' \in DOMAIN before /\ matched_peer_idx' <= idx
         /\ \E best \in routes(matched_peer_idx') :
                    len(matched_peer_idx', best) = best_prefix_len'
  BY <1>1, <1>2, <1>5 DEF ManagerTypeOK
<1> USE DEF len, routes
<1>8. idx \in 1 .. Len(before) + 1
  BY <1>1 DEF FindInv
<1> QED
  BY <1>1, <1>6, <1>7, <1>8 DEF FindInv

LEMMA NextPeerFind ==
    ASSUME ManagerTypeOK, FindInv, NextPeer
    PROVE  FindInv'
<1>1. /\ phase = "find" /\ idx \in DOMAIN before /\ sub \notin DOMAIN before[idx].allowed_ips
      /\ UNCHANGED <<phase, before, dst_ip, best_prefix_len, matched_peer_idx>>
      /\ idx' = idx + 1 /\ sub' = 1
  BY DEF NextPeer, InPeers, callVars, findVars
<1>2. ASSUME NEW i \in DOMAIN before, NEW k \in Routes(before[i], dst_ip), Visited(i, k)'
      PROVE  Visited(i, k)
  <2>1. before[i].allowed_ips \in Seq(Subnet) /\ i \in Nat /\ idx \in Nat /\ sub \in Nat \ {0}
    <3>1. before[i] \in PeerEntry /\ i \in Nat
      BY DEF ManagerTypeOK
    <3> QED
      BY <3>1 DEF PeerEntry, RouteList, ManagerTypeOK
  <2>2. k \in 1 .. Len(before[i].allowed_ips)
    BY <2>1 DEF Routes
  <2>3. i = idx => k < sub
    BY <1>1, <2>1, <2>2
  <2> QED
    BY <1>1, <1>2, <2>1, <2>2, <2>3 DEF Visited
<1>3. idx' \in 1 .. Len(before) + 1
  BY <1>1 DEF ManagerTypeOK
<1>4. matched_peer_idx <= idx => matched_peer_idx <= idx'
  BY <1>1 DEF ManagerTypeOK
<1> QED
  BY <1>1, <1>2, <1>3, <1>4 DEF FindInv

LEMMA FindStep ==
    ASSUME ManagerTypeOK, FindInv, [ManagerNext]_managerVars
    PROVE  FindInv'
<1>1. CASE Found
  <2>1. /\ phase = "find" /\ idx \notin DOMAIN before
        /\ UNCHANGED <<before, dst_ip, idx, sub, best_prefix_len, matched_peer_idx>>
    BY <1>1 DEF Found, callVars, findVars
  <2>2. idx = Len(before) + 1
    BY <2>1 DEF FindInv, ManagerTypeOK
  <2> QED
    BY <2>1, <2>2 DEF FindInv, Visited
<1>2. CASE Retain \/ Retained \/ Merge \/ Synced
  BY <1>2 DEF Retain, Retained, Merge, Synced, FindInv
<1>3. CASE UNCHANGED managerVars
  BY <1>3 DEF managerVars, callVars, findVars, FindInv, Visited
<1> QED
  BY <1>1, <1>2, <1>3, CompareFind, NextPeerFind DEF ManagerNext

-----------------------------------------------------------------------------

(* Dropping the peers that are not listed.                                 *)
LEMMA RetainRetain ==
    ASSUME ManagerTypeOK, RetainInv, Retain
    PROVE  RetainInv'
<1>1. /\ phase = "retain" /\ idx \in DOMAIN before /\ idx' = idx + 1
      /\ UNCHANGED <<phase, before, wanted, new_endpoints>>
      /\ after' = IF before[idx].key \in Keys(wanted) THEN Append(after, before[idx]) ELSE after
  BY DEF Retain, callVars
<1>2. /\ Distinct(before) /\ Distinct(after) /\ OrderKept /\ new_endpoints = {}
      /\ \A p \in DOMAIN before :
            p < idx /\ before[p].key \in Keys(wanted) => before[p].key \in Keys(after)
      /\ \A i \in DOMAIN after :
            /\ after[i].key \in Keys(wanted)
            /\ \E p \in 1 .. idx - 1 : p \in DOMAIN before /\ after[i] = before[p]
  BY <1>1 DEF RetainInv
<1>3. idx \in Nat /\ idx' \in 1 .. Len(before) + 1 /\ DOMAIN before \subseteq Nat \ {0}
  BY <1>1 DEF ManagerTypeOK
<1>4. Keys(wanted)' = Keys(wanted) /\ Distinct(before)'
  BY <1>1, <1>2 DEF Keys, Distinct
<1>5. CASE before[idx].key \notin Keys(wanted)
  <2>1. after' = after
    BY <1>1, <1>5
  <2>2. OrderKept' /\ Distinct(after)' /\ Keys(after)' = Keys(after)
    BY <1>1, <1>2, <2>1 DEF OrderKept, Distinct, Keys
  <2>3. \A i \in DOMAIN after' :
            /\ after'[i].key \in Keys(wanted)
            /\ \E p \in 1 .. idx' - 1 : p \in DOMAIN before /\ after'[i] = before[p]
    BY <1>1, <1>2, <1>3, <2>1
  <2>4. \A p \in DOMAIN before :
            p < idx' /\ before[p].key \in Keys(wanted) => before[p].key \in Keys(after)
    BY <1>1, <1>2, <1>3, <1>5
  <2> QED
    BY <1>1, <1>2, <1>3, <1>4, <2>2, <2>3, <2>4 DEF RetainInv
<1>6. CASE before[idx].key \in Keys(wanted)
  <2> DEFINE last == Len(after) + 1
  <2>1. /\ after' \in Seq(PeerEntry) /\ DOMAIN after' = DOMAIN after \cup {last}
        /\ \A i \in DOMAIN after : i \in Nat /\ i < last
        /\ last \in Nat
        /\ after'[last] = before[idx] /\ \A j \in DOMAIN after : after'[j] = after[j]
    <3>1. before[idx] \in PeerEntry /\ after \in Seq(PeerEntry)
      BY <1>1 DEF ManagerTypeOK
    <3>2. after' = Append(after, before[idx])
      BY <1>1, <1>6
    <3>3. Len(after) + 1 \in Nat /\ \A i \in DOMAIN after : i \in Nat /\ i < Len(after) + 1
      BY <3>1
    <3> QED
      BY <3>1, <3>2, <3>3, AppendAt
  <2> HIDE DEF last
  <2>2. \A i \in DOMAIN after' :
            /\ after'[i].key \in Keys(wanted)
            /\ \E p \in 1 .. idx' - 1 : p \in DOMAIN before /\ after'[i] = before[p]
    BY <1>1, <1>2, <1>3, <1>6, <2>1
  <2>3. ASSUME NEW i \in DOMAIN after
        PROVE  after[i].key # before[idx].key
    <3>1. PICK p \in 1 .. idx - 1 : p \in DOMAIN before /\ after[i] = before[p]
      BY <1>2
    <3>2. p # idx
      BY <1>3, <3>1
    <3> QED
      BY <1>1, <1>2, <3>1, <3>2 DEF Distinct
  <2>4. Distinct(after)'
    BY <1>2, <2>1, <2>3 DEF Distinct
  <2>5. Keys(after)' = Keys(after) \cup {before[idx].key}
    BY <2>1 DEF Keys
  <2>6. \A p \in DOMAIN before :
            p < idx' /\ before[p].key \in Keys(wanted) => before[p].key \in Keys(after)'
    BY <1>1, <1>2, <1>3, <2>5
  <2>7. OrderKept'
    <3> SUFFICES ASSUME NEW i \in DOMAIN after', NEW j \in DOMAIN after',
                        NEW p \in DOMAIN before, i < j, after'[j].key = before[p].key
                 PROVE  \E q \in 1 .. p - 1 : after'[i].key = before[q].key
      BY <1>1 DEF OrderKept
    <3>1. i \in DOMAIN after
      BY <2>1
    <3>2. CASE j \in DOMAIN after
      BY <1>2, <2>1, <3>1, <3>2 DEF OrderKept
    <3>3. CASE j = last
      <4>1. p = idx
        BY <1>1, <1>2, <2>1, <3>3 DEF Distinct
      <4> QED
        BY <1>2, <2>1, <3>1, <4>1
    <3> QED
      BY <2>1, <3>2, <3>3
  <2> QED
    BY <1>1, <1>2, <1>3, <1>4, <2>2, <2>4, <2>6, <2>7 DEF RetainInv
<1> QED
  BY <1>5, <1>6

(* Those that stay are a table with nothing merged yet.                    *)
LEMMA RetainedMerge ==
    ASSUME ManagerTypeOK, RetainInv, Retained
    PROVE  MergeInv'
<1>1. /\ phase = "retain" /\ idx \notin DOMAIN before /\ phase' = "merge" /\ idx' = 1
      /\ UNCHANGED <<before, wanted, after, new_endpoints>>
  BY DEF Retained, callVars, syncVars
<1>2. /\ Distinct(before) /\ Distinct(after) /\ OrderKept /\ new_endpoints = {}
      /\ \A p \in DOMAIN before :
            p < idx /\ before[p].key \in Keys(wanted) => before[p].key \in Keys(after)
      /\ \A i \in DOMAIN after :
            /\ after[i].key \in Keys(wanted)
            /\ \E p \in 1 .. idx - 1 : p \in DOMAIN before /\ after[i] = before[p]
  BY <1>1 DEF RetainInv
<1>3. \A p \in DOMAIN before : p < idx
  BY <1>1 DEF RetainInv, ManagerTypeOK
<1>4. Keys(after) = Keys(before) \cap Keys(wanted)
  <2>1. Keys(after) \subseteq Keys(before) \cap Keys(wanted)
    BY <1>2 DEF Keys
  <2>2. Keys(before) \cap Keys(wanted) \subseteq Keys(after)
    BY <1>2, <1>3 DEF Keys
  <2> QED
    BY <2>1, <2>2
<1>5. \A i \in DOMAIN after : KeepsSession(after[i])
  BY <1>2 DEF KeepsSession
<1>6. 1 .. idx' - 1 = {} /\ idx' \in 1 .. Len(wanted) + 1
  BY <1>1 DEF ManagerTypeOK
<1>7. Adding(idx' - 1) = {} /\ {wanted[d].key : d \in 1 .. idx' - 1} = {}
  BY <1>6 DEF Adding
<1>8. Distinct(before)' /\ Distinct(after)' /\ OrderKept'
  BY <1>1, <1>2 DEF Distinct, OrderKept
<1>9. /\ Keys(after)' = Keys(after) /\ Keys(before)' = Keys(before)
      /\ Keys(wanted)' = Keys(wanted) /\ Adding(idx - 1)' = {}
  BY <1>1, <1>6 DEF Keys, Adding
<1>10. \A i \in DOMAIN after : KeepsSession(after[i])'
  BY <1>1, <1>5 DEF KeepsSession, Keys
<1> QED
  BY <1>1, <1>2, <1>4, <1>6, <1>7, <1>8, <1>9, <1>10 DEF MergeInv

(* What a round of the merge does not change, and the descriptor it is     *)
(* about.                                                                  *)
LEMMA MergeRound ==
    ASSUME ManagerTypeOK, MergeInv, Merge
    PROVE  /\ idx \in DOMAIN wanted /\ wanted[idx] \in Descriptor
           /\ idx \in Nat \ {0} /\ idx' = idx + 1 /\ idx' - 1 = idx
           /\ 1 .. idx' - 1 = (1 .. idx - 1) \cup {idx}
           /\ 1 .. idx' - 1 \subseteq DOMAIN wanted
           /\ UNCHANGED <<phase, before, wanted>> /\ phase = "merge"
           /\ Distinct(before)' /\ Keys(before)' = Keys(before) /\ Keys(wanted)' = Keys(wanted)
           /\ idx' \in 1 .. Len(wanted) + 1
           /\ wanted[idx].key \in Keys(wanted)
<1>1. idx \in DOMAIN wanted /\ idx' = idx + 1 /\ UNCHANGED <<phase, before, wanted>> /\ phase = "merge"
  BY DEF Merge, callVars
<1>2. wanted[idx] \in Descriptor /\ idx \in Nat \ {0} /\ idx \in 1 .. Len(wanted) /\ Len(wanted) \in Nat
  BY <1>1 DEF ManagerTypeOK
<1>3. /\ 1 .. idx' - 1 = (1 .. idx - 1) \cup {idx} /\ idx' - 1 = idx
      /\ idx' \in 1 .. Len(wanted) + 1 /\ 1 .. idx \subseteq 1 .. Len(wanted)
  BY <1>1, <1>2
<1>4. DOMAIN wanted = 1 .. Len(wanted)
  BY DEF ManagerTypeOK
<1>5. Distinct(before)' /\ Keys(before)' = Keys(before) /\ Keys(wanted)' = Keys(wanted)
  BY <1>1 DEF MergeInv, Distinct, Keys
<1> QED
  BY <1>1, <1>2, <1>3, <1>4, <1>5 DEF Keys

(* The descriptors that add a peer, one more looked at.                    *)
LEMMA AddingNext ==
    ASSUME ManagerTypeOK, MergeInv, Merge
    PROVE  /\ wanted[idx].key \in Keys(after) => Adding(idx) = Adding(idx - 1)
           /\ wanted[idx].key \notin Keys(after) => Adding(idx) = Adding(idx - 1) \cup {idx}
<1>1. /\ idx \in DOMAIN wanted /\ idx \in Nat \ {0}
      /\ 1 .. idx = (1 .. idx - 1) \cup {idx} /\ wanted[idx].key \in Keys(wanted)
  BY MergeRound
<1>2. Keys(after) = (Keys(before) \cap Keys(wanted)) \cup {wanted[d].key : d \in 1 .. idx - 1}
  BY MergeRound DEF MergeInv
<1>3. wanted[idx].key \in Keys(after)
        <=> \/ wanted[idx].key \in Keys(before)
            \/ \E d \in 1 .. idx - 1 : wanted[d].key = wanted[idx].key
  BY <1>1, <1>2
<1>4. \A d \in 1 .. idx - 1 : d \in Adding(idx) <=> d \in Adding(idx - 1)
  BY <1>1 DEF Adding
<1>5. idx \in Adding(idx) <=> wanted[idx].key \notin Keys(after)
  BY <1>1, <1>3 DEF Adding
<1>6. idx \notin Adding(idx - 1) /\ Adding(idx) \subseteq 1 .. idx /\ Adding(idx - 1) \subseteq 1 .. idx - 1
  BY <1>1 DEF Adding
<1> QED
  BY <1>1, <1>4, <1>5, <1>6

(* What is said of a peer is still said if the next descriptor is about    *)
(* another one.                                                            *)
LEMMA SaysStill ==
    ASSUME ManagerTypeOK, MergeInv, Merge, NEW j \in DOMAIN after,
           after'[j] = after[j], after[j].key # wanted[idx].key,
           NEW d \in DOMAIN wanted, Says(idx - 1, d, after[j])
    PROVE  Says(idx - 1, d, after[j])'
<1>1. idx \in Nat \ {0} /\ idx' = idx + 1 /\ wanted' = wanted
  BY MergeRound
<1>2. /\ d \in 1 .. idx - 1 /\ wanted[d].key = after[j].key
      /\ \A e \in d + 1 .. idx - 1 : wanted[e].key # after[j].key
      /\ after[j].endpoint = wanted[d].endpoint
      /\ after[j].allowed_ips = wanted[d].allowed_ips
  BY DEF Says
<1>3. d \in 1 .. idx' - 1 /\ \A e \in d + 1 .. idx' - 1 : e \in d + 1 .. idx - 1 \/ e = idx
  BY <1>1, <1>2
<1>4. \A e \in d + 1 .. idx' - 1 : wanted[e].key # after[j].key
  BY <1>2, <1>3
<1> QED
  BY <1>1, <1>2, <1>3, <1>4 DEF Says

(* A descriptor of a peer in the table.                                    *)
LEMMA MergeUpdate ==
    ASSUME ManagerTypeOK, MergeInv, Merge, Update(wanted[idx])
    PROVE  MergeInv'
<1> DEFINE w == wanted[idx]
<1>1. /\ idx \in DOMAIN wanted /\ w \in Descriptor
      /\ idx \in Nat \ {0} /\ idx' = idx + 1 /\ idx' - 1 = idx
      /\ 1 .. idx' - 1 = (1 .. idx - 1) \cup {idx}
      /\ UNCHANGED <<phase, before, wanted>> /\ phase = "merge"
      /\ Distinct(before)' /\ Keys(before)' = Keys(before) /\ Keys(wanted)' = Keys(wanted)
      /\ idx' \in 1 .. Len(wanted) + 1
  BY MergeRound
<1>2. /\ Distinct(after) /\ OrderKept
      /\ Keys(after) = (Keys(before) \cap Keys(wanted)) \cup {wanted[d].key : d \in 1 .. idx - 1}
      /\ \A j \in DOMAIN after :
            /\ KeepsSession(after[j])
            /\ \/ \E d \in DOMAIN wanted : Says(idx - 1, d, after[j])
               \/ \A d \in 1 .. idx - 1 : wanted[d].key # after[j].key
      /\ new_endpoints = {wanted[d].endpoint : d \in Adding(idx - 1)} \ {NoEndpoint}
  BY <1>1 DEF MergeInv
<1>3. /\ DOMAIN after' = DOMAIN after /\ new_endpoints' = new_endpoints
      /\ \E i \in DOMAIN after :
            /\ after[i].key = w.key
            /\ after'[i].key = w.key /\ after'[i].session = after[i].session
            /\ after'[i].endpoint = w.endpoint /\ after'[i].allowed_ips = w.allowed_ips
            /\ \A j \in DOMAIN after : j # i => after'[j] = after[j]
  BY <1>1, UpdateAt DEF ManagerTypeOK
<1>4. PICK i \in DOMAIN after :
        /\ after[i].key = w.key
        /\ after'[i].key = w.key /\ after'[i].session = after[i].session
        /\ after'[i].endpoint = w.endpoint /\ after'[i].allowed_ips = w.allowed_ips
        /\ \A j \in DOMAIN after : j # i => after'[j] = after[j]
  BY <1>3
<1>5. \A j \in DOMAIN after : after'[j].key = after[j].key /\ after'[j].session = after[j].session
  BY <1>4
<1>6. Distinct(after)' /\ Keys(after)' = Keys(after)
  BY <1>2, <1>3, <1>5 DEF Distinct, Keys
<1>7. OrderKept'
  BY <1>1, <1>2, <1>3, <1>5 DEF OrderKept
<1>8. w.key \in Keys(after)
  BY <1>4 DEF Keys
<1>9. Keys(after)' = (Keys(before) \cap Keys(wanted)) \cup {wanted[d].key : d \in 1 .. idx' - 1}
  BY <1>1, <1>2, <1>6, <1>8
<1>10. new_endpoints' = {wanted[d].endpoint : d \in Adding(idx)} \ {NoEndpoint}
  BY <1>2, <1>3, <1>8, AddingNext
<1>11. ASSUME NEW j \in DOMAIN after
       PROVE  /\ KeepsSession(after[j])'
              /\ \/ \E d \in DOMAIN wanted : Says(idx - 1, d, after[j])'
                 \/ \A d \in 1 .. idx' - 1 : wanted[d].key # after'[j].key
  <2>1. KeepsSession(after[j])'
    BY <1>1, <1>2, <1>5 DEF KeepsSession
  <2>2. CASE j = i
    <3>1. /\ idx \in 1 .. idx' - 1 /\ idx + 1 .. idx' - 1 = {}
          /\ wanted'[idx].key = after'[j].key
          /\ after'[j].endpoint = wanted'[idx].endpoint
          /\ after'[j].allowed_ips = wanted'[idx].allowed_ips
      BY <1>1, <1>4, <2>2
    <3>2. \E d \in DOMAIN wanted : Says(idx - 1, d, after[j])'
      BY <1>1, <3>1 DEF Says
    <3> QED
      BY <2>1, <3>2
  <2>3. CASE j # i
    <3>1. after'[j] = after[j] /\ after[j].key # w.key
      BY <1>2, <1>4, <2>3 DEF Distinct
    <3>2. ASSUME NEW d \in DOMAIN wanted, Says(idx - 1, d, after[j])
          PROVE  Says(idx - 1, d, after[j])'
      BY <3>1, <3>2, SaysStill
    <3>3. (\A d \in 1 .. idx - 1 : wanted[d].key # after[j].key)
            => \A d \in 1 .. idx' - 1 : wanted[d].key # after'[j].key
      BY <1>1, <3>1
    <3> QED
      BY <1>2, <2>1, <3>2, <3>3
  <2> QED
    BY <2>2, <2>3
<1>12. Adding(idx - 1)' = Adding(idx)
  BY <1>1 DEF Adding
<1>13. Keys(after)' = (Keys(before)' \cap Keys(wanted)') \cup {wanted'[d].key : d \in 1 .. idx' - 1}
  BY <1>1, <1>9
<1>14. new_endpoints' = {wanted'[d].endpoint : d \in Adding(idx - 1)'} \ {NoEndpoint}
  BY <1>1, <1>10, <1>12
<1>15. \A j \in DOMAIN after' :
        /\ KeepsSession(after[j])'
        /\ \/ \E d \in DOMAIN wanted' : Says(idx - 1, d, after[j])'
           \/ \A d \in 1 .. idx' - 1 : wanted'[d].key # after'[j].key
  BY <1>1, <1>3, <1>11
<1>16. phase' = "merge" /\ idx' \in 1 .. Len(wanted') + 1
  BY <1>1
<1> QED
  BY <1>1, <1>6, <1>7, <1>13, <1>14, <1>15, <1>16 DEF MergeInv

(* A descriptor of a peer that is not in the table. *)
LEMMA MergeAdd ==
    ASSUME ManagerTypeOK, MergeInv, Merge, Add(wanted[idx])
    PROVE  MergeInv'
<1> DEFINE w == wanted[idx]
           last == Len(after) + 1
<1>1. /\ idx \in DOMAIN wanted /\ w \in Descriptor
      /\ idx \in Nat \ {0} /\ idx' = idx + 1 /\ idx' - 1 = idx
      /\ 1 .. idx' - 1 = (1 .. idx - 1) \cup {idx}
      /\ UNCHANGED <<phase, before, wanted>> /\ phase = "merge"
      /\ Distinct(before)' /\ Keys(before)' = Keys(before) /\ Keys(wanted)' = Keys(wanted)
      /\ idx' \in 1 .. Len(wanted) + 1 /\ w.key \in Keys(wanted)
  BY MergeRound
<1>2. /\ Distinct(after) /\ OrderKept
      /\ Keys(after) = (Keys(before) \cap Keys(wanted)) \cup {wanted[d].key : d \in 1 .. idx - 1}
      /\ \A j \in DOMAIN after :
            /\ KeepsSession(after[j])
            /\ \/ \E d \in DOMAIN wanted : Says(idx - 1, d, after[j])
               \/ \A d \in 1 .. idx - 1 : wanted[d].key # after[j].key
      /\ new_endpoints = {wanted[d].endpoint : d \in Adding(idx - 1)} \ {NoEndpoint}
  BY <1>1 DEF MergeInv
<1>3. w.key \notin Keys(after) /\ w.key \notin Keys(before)
  BY <1>1, <1>2 DEF Add
<1>4. /\ DOMAIN after' = DOMAIN after \cup {last}
      /\ \A j \in DOMAIN after : j \in Nat /\ j < last /\ after'[j] = after[j]
      /\ after'[last] = NewPeer(w) /\ last \in Nat
  <2>1. NewPeer(w) \in PeerEntry /\ after \in Seq(PeerEntry)
    BY <1>1 DEF NewPeer, Descriptor, PeerEntry, ManagerTypeOK
  <2>2. after' = Append(after, NewPeer(w))
    BY DEF Add
  <2>3. Len(after) + 1 \in Nat /\ \A j \in DOMAIN after : j \in Nat /\ j < Len(after) + 1
    BY <2>1
  <2> QED
    BY <2>1, <2>2, <2>3, AppendAt
<1> HIDE DEF last
<1>5. /\ NewPeer(w).key = w.key /\ NewPeer(w).session = NoSession
      /\ NewPeer(w).endpoint = w.endpoint /\ NewPeer(w).allowed_ips = w.allowed_ips
  BY DEF NewPeer
<1>6. Keys(after)' = Keys(after) \cup {w.key}
  BY <1>4, <1>5 DEF Keys
<1>7. Distinct(after)'
  BY <1>2, <1>3, <1>4, <1>5 DEF Distinct, Keys
<1>8. OrderKept'
  <2> SUFFICES ASSUME NEW i \in DOMAIN after', NEW j \in DOMAIN after',
                      NEW p \in DOMAIN before, i < j, after'[j].key = before[p].key
               PROVE  \E q \in 1 .. p - 1 : after'[i].key = before[q].key
    BY <1>1 DEF OrderKept
  <2>1. j \in DOMAIN after
    BY <1>3, <1>4, <1>5 DEF Keys
  <2>2. i \in DOMAIN after
    BY <1>4, <2>1
  <2> QED
    BY <1>2, <1>4, <2>1, <2>2 DEF OrderKept
<1>9. Keys(after)' = (Keys(before) \cap Keys(wanted)) \cup {wanted[d].key : d \in 1 .. idx' - 1}
  BY <1>1, <1>2, <1>6
<1>10. new_endpoints' = {wanted[d].endpoint : d \in Adding(idx)} \ {NoEndpoint}
  <2>1. new_endpoints' = new_endpoints \cup ({w.endpoint} \ {NoEndpoint})
    BY DEF Add
  <2>2. Adding(idx) = Adding(idx - 1) \cup {idx}
    BY <1>3, AddingNext
  <2> QED
    BY <1>2, <2>1, <2>2
<1>11. ASSUME NEW j \in DOMAIN after'
       PROVE  /\ KeepsSession(after[j])'
              /\ \/ \E d \in DOMAIN wanted : Says(idx - 1, d, after[j])'
                 \/ \A d \in 1 .. idx' - 1 : wanted[d].key # after'[j].key
  <2>1. CASE j = last
    <3>1. KeepsSession(after[j])'
      BY <1>1, <1>3, <1>4, <1>5, <2>1 DEF KeepsSession
    <3>2. /\ idx \in 1 .. idx' - 1 /\ idx + 1 .. idx' - 1 = {}
          /\ wanted'[idx].key = after'[j].key
          /\ after'[j].endpoint = wanted'[idx].endpoint
          /\ after'[j].allowed_ips = wanted'[idx].allowed_ips
      BY <1>1, <1>4, <1>5, <2>1
    <3>3. \E d \in DOMAIN wanted : Says(idx - 1, d, after[j])'
      BY <1>1, <3>2 DEF Says
    <3> QED
      BY <3>1, <3>3
  <2>2. CASE j \in DOMAIN after
    <3>1. after'[j] = after[j] /\ after[j].key # w.key
      BY <1>3, <1>4, <2>2 DEF Keys
    <3>2. KeepsSession(after[j])'
      BY <1>1, <1>2, <2>2, <3>1 DEF KeepsSession
    <3>3. ASSUME NEW d \in DOMAIN wanted, Says(idx - 1, d, after[j])
          PROVE  Says(idx - 1, d, after[j])'
      BY <1>4, <2>2, <3>1, <3>3, SaysStill
    <3>4. (\A d \in 1 .. idx - 1 : wanted[d].key # after[j].key)
            => \A d \in 1 .. idx' - 1 : wanted[d].key # after'[j].key
      BY <1>1, <3>1
    <3> QED
      BY <1>1, <1>2, <2>2, <3>2, <3>3, <3>4
  <2> QED
    BY <1>4, <2>1, <2>2
<1>12. Adding(idx - 1)' = Adding(idx)
  BY <1>1 DEF Adding
<1>13. Keys(after)' = (Keys(before)' \cap Keys(wanted)') \cup {wanted'[d].key : d \in 1 .. idx' - 1}
  BY <1>1, <1>9
<1>14. new_endpoints' = {wanted'[d].endpoint : d \in Adding(idx - 1)'} \ {NoEndpoint}
  BY <1>1, <1>10, <1>12
<1>15. \A j \in DOMAIN after' :
        /\ KeepsSession(after[j])'
        /\ \/ \E d \in DOMAIN wanted' : Says(idx - 1, d, after[j])'
           \/ \A d \in 1 .. idx' - 1 : wanted'[d].key # after'[j].key
  BY <1>1, <1>11
<1>16. phase' = "merge" /\ idx' \in 1 .. Len(wanted') + 1
  BY <1>1
<1> QED
  BY <1>1, <1>7, <1>8, <1>13, <1>14, <1>15, <1>16 DEF MergeInv

(* A step that leaves the lists alone leaves alone what is said of them.   *)
LEMMA ListsStay ==
    ASSUME UNCHANGED <<before, wanted, idx, after, new_endpoints>>
    PROVE  /\ Distinct(before)' = Distinct(before) /\ Distinct(after)' = Distinct(after)
           /\ Keys(before)' = Keys(before) /\ Keys(after)' = Keys(after)
           /\ Keys(wanted)' = Keys(wanted) /\ OrderKept' = OrderKept
           /\ Adding(idx - 1)' = Adding(idx - 1)
           /\ \A i : KeepsSession(after[i])' = KeepsSession(after[i])
           /\ \A i, d : Says(idx - 1, d, after[i])' = Says(idx - 1, d, after[i])
<1>1. /\ Keys(before)' = Keys(before) /\ Keys(after)' = Keys(after)
      /\ Keys(wanted)' = Keys(wanted)
  BY DEF Keys
<1>2. Distinct(before)' = Distinct(before) /\ Distinct(after)' = Distinct(after)
  BY DEF Distinct
<1>3. OrderKept' = OrderKept
  BY DEF OrderKept
<1>4. Adding(idx - 1)' = Adding(idx - 1)
  BY <1>1 DEF Adding
<1>5. \A i : KeepsSession(after[i])' = KeepsSession(after[i])
  BY <1>1 DEF KeepsSession
<1>6. \A i, d : Says(idx - 1, d, after[i])' = Says(idx - 1, d, after[i])
  BY DEF Says
<1> QED
  BY <1>1, <1>2, <1>3, <1>4, <1>5, <1>6

(* Every step keeps the invariants of the loops.                           *)
LEMMA ManagerNextInv ==
    ASSUME ManagerInv, [ManagerNext]_managerVars
    PROVE  ManagerInv'
<1> USE DEF ManagerInv
<1>1. ManagerTypeOK' /\ FindInv'
  BY ManagerTypeStep, FindStep
<1>2. CASE Compare \/ NextPeer \/ Found
  <2>1. phase' \in {"find", "found"}
    BY <1>2 DEF Compare, NextPeer, InPeers, Found
  <2> QED
    BY <1>1, <2>1 DEF RetainInv, MergeInv
<1>3. CASE Retain
  <2>1. RetainInv' /\ phase' = "retain"
    BY <1>3, RetainRetain DEF Retain
  <2> QED
    BY <1>1, <2>1 DEF MergeInv
<1>4. CASE Retained
  <2>1. MergeInv' /\ phase' = "merge"
    BY <1>4, RetainedMerge DEF Retained
  <2> QED
    BY <1>1, <2>1 DEF RetainInv
<1>5. CASE Merge
  <2>1. MergeInv'
    BY <1>5, MergeUpdate, MergeAdd DEF Merge
  <2>2. phase' = "merge"
    BY <1>5 DEF Merge
  <2> QED
    BY <1>1, <2>1, <2>2 DEF RetainInv
<1>6. CASE Synced
  <2>1. /\ phase = "merge" /\ idx \notin DOMAIN wanted /\ phase' = "synced"
        /\ UNCHANGED <<before, wanted, idx, after, new_endpoints>>
    BY <1>6 DEF Synced, callVars, syncVars
  <2>2. idx = Len(wanted) + 1
    BY <2>1 DEF MergeInv, ManagerTypeOK
  <2>3. MergeInv'
    <3>1. idx' = Len(wanted') + 1 /\ idx' \in 1 .. Len(wanted') + 1
      BY <2>1, <2>2 DEF ManagerTypeOK
    <3>2. \A i \in DOMAIN after' :
            /\ KeepsSession(after[i])'
            /\ \/ \E d \in DOMAIN wanted' : Says(idx - 1, d, after[i])'
               \/ \A d \in 1 .. idx' - 1 : wanted'[d].key # after'[i].key
      BY <2>1, ListsStay DEF MergeInv
    <3>3. Keys(after)' = (Keys(before)' \cap Keys(wanted)') \cup {wanted'[d].key : d \in 1 .. idx' - 1}
      BY <2>1, ListsStay DEF MergeInv
    <3>4. new_endpoints' = {wanted'[d].endpoint : d \in Adding(idx - 1)'} \ {NoEndpoint}
      BY <2>1, ListsStay DEF MergeInv
    <3> QED
      BY <2>1, <3>1, <3>2, <3>3, <3>4, ListsStay DEF MergeInv
  <2> QED
    BY <1>1, <2>1, <2>3 DEF RetainInv
<1>7. CASE UNCHANGED managerVars
  <2>1. UNCHANGED <<phase, before, wanted, idx, after, new_endpoints>>
    BY <1>7 DEF managerVars, callVars, syncVars
  <2>2. RetainInv'
    BY <2>1, ListsStay DEF RetainInv
  <2>3. MergeInv'
    BY <2>1, ListsStay DEF MergeInv
  <2> QED
    BY <1>1, <2>2, <2>3
<1> QED
  BY <1>2, <1>3, <1>4, <1>5, <1>6, <1>7 DEF ManagerNext

LEMMA ManagerInvariant == ManagerSpec => []ManagerInv
<1>1. ManagerInit => ManagerInv
  BY ManagerInitInv
<1>2. ManagerInv /\ [ManagerNext]_managerVars => ManagerInv'
  BY ManagerNextInv
<1> QED
  BY <1>1, <1>2, PTL DEF ManagerSpec

(***************************************************************************)
(* find_best_peer_idx returns the first peer with the longest route to the *)
(* address, and none only if there is no route, for every table and every  *)
(* width of addresses.                                                     *)
(***************************************************************************)
THEOREM LookupFindsLongestMatch == ManagerSpec => []LongestMatchFound
<1>1. ManagerInv => LongestMatchFound
  <2> SUFFICES ASSUME ManagerInv, phase = "found"
               PROVE  LongestMatch(before, dst_ip, matched_peer_idx)
    BY DEF LongestMatchFound
  <2>1. idx = Len(before) + 1
    BY DEF ManagerInv, FindInv
  <2>2. \A i \in DOMAIN before : i < idx
    BY <2>1 DEF ManagerInv, ManagerTypeOK
  <2>3. \A i \in DOMAIN before : \A k \in Routes(before[i], dst_ip) :
            LET len == before[i].allowed_ips[k].prefix_len IN
            /\ len <= best_prefix_len
            /\ i < matched_peer_idx => len < best_prefix_len
    BY <2>2 DEF ManagerInv, FindInv, Visited
  <2>4. CASE matched_peer_idx = 0 /\ best_prefix_len = -1
    <3>1. ASSUME NEW i \in DOMAIN before, NEW k \in Routes(before[i], dst_ip)
          PROVE  FALSE
      <4>1. before[i].allowed_ips[k].prefix_len \in 0 .. AddressBits
        BY PrefixLength DEF ManagerInv, ManagerTypeOK, Routes
      <4> QED
        BY <2>3, <2>4, <4>1
    <3> QED
      BY <2>4, <3>1 DEF LongestMatch
  <2>5. CASE /\ matched_peer_idx \in DOMAIN before
             /\ \E best \in Routes(before[matched_peer_idx], dst_ip) :
                    before[matched_peer_idx].allowed_ips[best].prefix_len = best_prefix_len
    BY <2>3, <2>5 DEF LongestMatch
  <2> QED
    BY <2>4, <2>5 DEF ManagerInv, FindInv
<1> QED
  BY <1>1, ManagerInvariant, PTL

(***************************************************************************)
(* sync_peers leaves exactly the listed peers, each once and with what its *)
(* last descriptor says, known ones with their sessions and in their       *)
(* order, for every table and every list, also one that repeats a key.     *)
(***************************************************************************)
THEOREM SyncReconcilesTable == ManagerSpec => []SyncReconciles
<1>1. ManagerInv => SyncReconciles
  <2> SUFFICES ASSUME ManagerInv, phase = "synced"
               PROVE  SyncReconciles
    BY DEF SyncReconciles
  <2>1. /\ MergeInv /\ idx = Len(wanted) + 1 /\ wanted \in Seq(Descriptor)
    BY DEF ManagerInv, MergeInv, ManagerTypeOK
  <2>2. idx - 1 = Len(wanted) /\ DOMAIN wanted = 1 .. idx - 1
    BY <2>1
  <2>3. Keys(after) = Keys(wanted)
    BY <2>1, <2>2 DEF MergeInv, Keys
  <2>4. ASSUME NEW i \in DOMAIN after
        PROVE  \E d \in DOMAIN wanted : Says(Len(wanted), d, after[i])
    <3>1. \E d \in 1 .. idx - 1 : wanted[d].key = after[i].key
      BY <2>2, <2>3 DEF Keys
    <3> QED
      BY <2>1, <2>2, <3>1 DEF MergeInv
  <2> QED
    BY <2>1, <2>2, <2>3, <2>4 DEF MergeInv, SyncReconciles
<1> QED
  BY <1>1, ManagerInvariant, PTL

-----------------------------------------------------------------------------

(* The list stands for a table of module Mesh: it has the host routes of   *)
(* the nodes in it, each once, in some order.                              *)
Represents(list, table) ==
    /\ Distinct(list)
    /\ Keys(list) = {m \in Nodes : table[m] # None}
    /\ \A i \in DOMAIN list :
            list[i].allowed_ips = Host(list[i].key, table[list[i].key]).allowed_ips

(***************************************************************************)
(* sync_peers does to the table what Mesh's Sync says in one step: when    *)
(* the descriptors are what the coordinator made of its table, the         *)
(* daemon's table is the same, whatever it was before.                     *)
(***************************************************************************)
THEOREM SyncTakesAnswer ==
    ManagerSpec => [](phase = "synced" =>
                        \A table \in Table : Represents(wanted, table) => Represents(after, table))
<1>1. ASSUME SyncReconciles, phase = "synced", NEW table \in Table, Represents(wanted, table)
      PROVE  Represents(after, table)
  <2>1. /\ Distinct(after) /\ Keys(after) = Keys(wanted)
        /\ \A i \in DOMAIN after : \E d \in DOMAIN wanted : Says(Len(wanted), d, after[i])
    BY <1>1 DEF SyncReconciles
  <2>2. ASSUME NEW i \in DOMAIN after
        PROVE  after[i].allowed_ips = Host(after[i].key, table[after[i].key]).allowed_ips
    <3>1. PICK d \in DOMAIN wanted :
            wanted[d].key = after[i].key /\ after[i].allowed_ips = wanted[d].allowed_ips
      BY <2>1 DEF Says
    <3> QED
      BY <1>1, <3>1 DEF Represents
  <2> QED
    BY <1>1, <2>1, <2>2 DEF Represents
<1>2. SyncReconciles => (phase = "synced" =>
            \A table \in Table : Represents(wanted, table) => Represents(after, table))
  BY <1>1
<1> QED
  BY <1>2, SyncReconcilesTable, PTL
=============================================================================
