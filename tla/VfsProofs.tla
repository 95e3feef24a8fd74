----------------------------- MODULE VfsProofs -----------------------------
(***************************************************************************)
(* Theorems about the tables of devices and partitions and the calls that  *)
(* go through them, for every set of clusters, of places in a directory    *)
(* and of open nodes, and whatever is on the two drives.                   *)
(***************************************************************************)
EXTENDS Vfs, TLAPS, WellFoundedInduction, NaturalsInduction, FiniteSetTheorems

Entry == [cluster : Clusters, type : Types]

Table == [Clusters -> Homes \cup {0}]

Partition == [device : Nat, loaded : BOOLEAN, view : Table]

Node == [partition : Nat, place : Places, first : {0} \cup Clusters,
         entry : {NoEntry} \cup Entry, methods : Types]

Parts == 1 .. Len(partitions)

DiskTypes ==
    /\ answers \in SUBSET Drives
    /\ boot \in [Drives -> {"fat32", "other"}]
    /\ table \in [Drives -> Table]
    /\ entries \in [Drives -> [Places -> {NoEntry} \cup Entry]]

DeviceTypes ==
    /\ pc \in {"master", "findFirst", "slave", "findSecond", "ready", "astray"}
    /\ virtual_devices \in Seq(Drives)
    /\ device \in {Unset} \cup 1 .. Len(virtual_devices)

PartitionTypes ==
    /\ partitions \in Seq(Partition)
    /\ \A p \in Parts : partitions[p].device \in 1 .. Len(virtual_devices)

NodeTypes ==
    /\ node \in [Handles -> {NoNode} \cup Node]
    /\ \A h \in Handles : node[h] # NoNode => node[h].partition \in Parts

VfsType == DiskTypes /\ DeviceTypes /\ PartitionTypes /\ NodeTypes

LEMMA PartFacts ==
    ASSUME VfsType
    PROVE  /\ DOMAIN partitions = Parts /\ DOMAIN virtual_devices = 1 .. Len(virtual_devices)
           /\ Len(partitions) \in Nat /\ Len(virtual_devices) \in Nat
           /\ \A p \in Parts : partitions[p] \in Partition /\ DriveOf(p) \in Drives
           /\ \A p \in Parts : View(p) \in Table
  <1>1. /\ DOMAIN partitions = Parts /\ DOMAIN virtual_devices = 1 .. Len(virtual_devices)
        /\ Len(partitions) \in Nat /\ Len(virtual_devices) \in Nat
    BY DEF VfsType, DeviceTypes, PartitionTypes, Parts
  <1>2. ASSUME NEW p \in Parts PROVE partitions[p] \in Partition /\ DriveOf(p) \in Drives
    BY DEF VfsType, DeviceTypes, PartitionTypes, DriveOf, Parts
  <1>3. \A p \in Parts : View(p) \in Table
    BY <1>2 DEF View, Partition, VfsType, DiskTypes
  <1> QED
    BY <1>1, <1>2, <1>3

LEMMA PlaceFacts ==
    ASSUME VfsType, NEW p \in Parts, NEW l \in Places
    PROVE  /\ l[1] \in Homes /\ At(p, l) \in {NoEntry} \cup Entry
           /\ At(p, l) # NoEntry => At(p, l).cluster \in Clusters /\ At(p, l).type \in Types
  <1>1. DriveOf(p) \in Drives
    BY PartFacts
  <1>2. At(p, l) \in {NoEntry} \cup Entry
    BY <1>1 DEF At, VfsType, DiskTypes
  <1> QED
    BY <1>2 DEF Places, Entry

(***************************************************************************)
(* What the calls do to the tables in memory and to the disks.  A step of  *)
(* the last kind leads astray.                                             *)
(***************************************************************************)
Nothing == UNCHANGED <<table, entries, partitions>>

Extends(p, a, S) ==
    /\ MayTake(p, Owner(p, a), S)
    /\ Written(p, Taken(p, Owner(p, a), S))
    /\ UNCHANGED entries

Adds(p, l, S, c, type) ==
    /\ l[1] \in Folders(p)
    /\ c \in Free(p) \ S
    /\ Initialize(p, l, S, c, [cluster |-> c, type |-> type])

Drops(p, l) ==
    /\ At(p, l) # NoEntry /\ At(p, l).type = "file"
    /\ Written(p, [c \in Clusters |->
           IF View(p)[c] = At(p, l).cluster THEN 0 ELSE View(p)[c]])
    /\ Enter(p, l, NoEntry)

Restores(p, a, S, l, e) ==
    /\ MayTake(p, Owner(p, a), S)
    /\ Written(p, Taken(p, Owner(p, a), S))
    /\ Enter(p, l, e)
    /\ pc' = "astray"

Effect ==
    \/ Nothing
    \/ \E p \in Parts : Loaded(p)
    \/ \E p \in Parts, a \in Homes \cup {0}, S \in SUBSET Clusters : Extends(p, a, S)
    \/ \E p \in Parts, l \in Places, S \in SUBSET Clusters, c \in Clusters, type \in Types :
           Adds(p, l, S, c, type)
    \/ \E p \in Parts, l \in Places : Drops(p, l)
    \/ \E p \in Parts, a \in Homes \cup {0}, S \in SUBSET Clusters, l \in Places,
          e \in {NoEntry} \cup Entry : Restores(p, a, S, l, e)

(* what a call does to the open nodes *)
Opens ==
    \/ UNCHANGED node
    \/ \E h \in Handles, m \in Node : m.partition \in Parts /\ node' = [node EXCEPT ![h] = m]

Called == Call /\ Effect /\ pc' \in {pc, "astray"} /\ Opens

(* Least is what it says for the clusters, which are numbers.              *)
LEMMA LeastIn ==
    ASSUME NEW S \in SUBSET Nat, S # {}
    PROVE  Least(S) \in S
  <1> DEFINE R == OpToRel(<, Nat)
  <1>1. IsWellFoundedOn(R, Nat)
    BY NatLessThanWellFounded
  <1>2. \A x, y \in Nat : <<x, y>> \in R <=> x < y
    BY DEF OpToRel
  <1> HIDE DEF R
  <1>3. PICK d \in S : \A e \in S : ~(<<e, d>> \in R)
    BY <1>1, WFMin
  <1>4. \A e \in S : ~(e < d) /\ e \in Nat /\ d \in Nat
    BY <1>2, <1>3
  <1>5. \A e \in S : d <= e
    BY <1>4
  <1> QED
    BY <1>5 DEF Least

LEMMA InitializeAdds ==
    ASSUME VfsType, NEW p \in Parts, NEW l \in Reached(p), NEW S \in SUBSET Free(p),
           NEW c \in Clusters, NEW type \in Types,
           Initialize(p, l, S, c, [cluster |-> c, type |-> type])
    PROVE  l \in Places /\ Adds(p, l, S, c, type) /\ Effect
  <1>1. l \in Places /\ l[1] \in Folders(p)
    BY DEF Reached, Folders, Places, Homes
  <1>2. S \in SUBSET Clusters
    BY DEF Free
  <1>3. c \in Free(p) \ S
    <2>1. Free(p) \ S \in SUBSET Nat /\ Free(p) \ S # {} /\ c = Least(Free(p) \ S)
      BY VfsAssumption DEF Free, Initialize
    <2> QED
      BY <2>1, LeastIn
  <1>4. Adds(p, l, S, c, type)
    BY <1>1, <1>3 DEF Adds
  <1> QED
    BY <1>1, <1>2, <1>4 DEF Effect

LEMMA OpenOpens ==
    ASSUME VfsType, NEW p \in Parts, NEW h \in Handles, NEW l \in Places,
           NEW first \in {0} \cup Clusters, NEW e \in {NoEntry} \cup Entry, NEW methods \in Types,
           Open(h, p, l, first, e, methods)
    PROVE  Opens
  <1> DEFINE m == [partition |-> p, place |-> l, first |-> first, entry |-> e, methods |-> methods]
  <1>1. m \in Node /\ m.partition = p
    BY DEF Node, Parts
  <1>2. node' = [node EXCEPT ![h] = m]
    BY DEF Open
  <1> HIDE DEF m
  <1> QED
    BY <1>1, <1>2 DEF Opens

LEMMA SearchCalls ==
    ASSUME VfsType, NEW p \in Parts, SearchOnly(p) \/ ThroughFile(p)
    PROVE  Called
  BY DEF SearchOnly, ThroughFile, Called, Effect, Opens

LEMMA PathCalls ==
    ASSUME VfsType, NEW p \in Parts, OnPath(p)
    PROVE  Called
  <1>1. \A l \in Reached(p) : l \in Places
    BY DEF Reached, Folders, Places, Homes
  <1>2. ASSUME NEW l \in Reached(p), RemoveFile(p, l)
        PROVE  Called
    BY <1>1, <1>2 DEF RemoveFile, Drops, Called, Effect, Opens
  <1>3. ASSUME NEW l \in Reached(p), NEW h \in Handles, OpenFile(p, l, h) \/ OpenDir(p, l, h)
        PROVE  Called
    <2>1. l \in Places /\ At(p, l) \in {NoEntry} \cup Entry /\ At(p, l).cluster \in Clusters
      BY <1>1, <1>3, PlaceFacts DEF OpenFile, OpenDir
    <2>2. PICK methods \in Types :
            Call /\ Loaded(p) /\ Open(h, p, l, At(p, l).cluster, At(p, l), methods) /\ UNCHANGED pc
      BY <1>3 DEF OpenFile, OpenDir, Types
    <2>3. Opens
      BY <2>1, <2>2, OpenOpens
    <2> QED
      BY <2>2, <2>3 DEF Called, Effect
  <1>4. ASSUME NEW l \in Reached(p), NEW S \in SUBSET Free(p), NEW c \in Clusters, MakeDir(p, l, S, c)
        PROVE  Called
    BY <1>4, InitializeAdds DEF MakeDir, Called, Opens, Types
  <1>5. ASSUME NEW l \in Reached(p), NEW S \in SUBSET Free(p), NEW c \in Clusters,
               NEW h \in Handles, CreateFile(p, l, h, S, c)
        PROVE  Called
    <2> DEFINE e == [cluster |-> c, type |-> "file"]
    <2>1. Call /\ Initialize(p, l, S, c, e) /\ Open(h, p, l, c, e, "file") /\ UNCHANGED pc
      BY <1>5 DEF CreateFile
    <2>2. e \in Entry /\ "file" \in Types
      BY DEF Entry, Types
    <2>3. Effect
      BY <2>1, <2>2, InitializeAdds
    <2>4. Opens
      <3> HIDE DEF e
      <3> QED
        BY <1>1, <2>1, <2>2, OpenOpens
    <2> QED
      BY <2>1, <2>3, <2>4 DEF Called
  <1>6. ASSUME NEW l \in Reached(p), NEW S \in SUBSET Free(p), NEW h \in Handles,
               NEW first \in {0} \cup Clusters, CreateWithoutCluster(p, l, h, S, first)
        PROVE  Called
    <2>1. l \in Places /\ l[1] \in Homes /\ S \in SUBSET Clusters /\ "file" \in Types
      BY <1>1, PlaceFacts DEF Free, Types
    <2>2. Opens
      BY <1>6, <2>1, OpenOpens DEF CreateWithoutCluster
    <2>3. Extends(p, l[1], S)
      BY <1>6 DEF CreateWithoutCluster, Extends
    <2> QED
      BY <1>6, <2>1, <2>2, <2>3 DEF CreateWithoutCluster, Called, Effect
  <1> QED
    BY <1>2, <1>3, <1>4, <1>5, <1>6, SearchCalls DEF OnPath

(* A write through a node whose file is there writes back what is there.   *)
LEMMA NodeCalls ==
    ASSUME VfsType, NEW h \in Handles, OnNode(h)
    PROVE  Called
  <1>1. node[h] # NoNode
    BY DEF OnNode, ListDir, ListFile, ReadFile, WriteFile, WriteGone, FileNode
  <1> DEFINE p == node[h].partition
             l == node[h].place
             a == node[h].first
             e == node[h].entry
  <1>2. p \in Parts /\ l \in Places /\ a \in Homes \cup {0} /\ e \in {NoEntry} \cup Entry
    BY <1>1 DEF VfsType, NodeTypes, Node, Homes
  <1>3. CASE ListDir(h)
    BY <1>2, <1>3, SearchCalls DEF ListDir
  <1>4. CASE ListFile(h)
    BY <1>2, <1>4 DEF ListFile, Called, Effect, Nothing, Opens
  <1>5. ASSUME NEW S \in SUBSET Clusters, ReadFile(h, S) PROVE Called
    BY <1>2, <1>5 DEF ReadFile, Called, Effect, Extends, Opens
  <1>6. ASSUME NEW S \in SUBSET Clusters, WriteFile(h, S) PROVE Called
    <2>1. Enter(p, l, e) /\ At(p, l) = e
      BY <1>6 DEF WriteFile, Gone
    <2>2. UNCHANGED entries
      <3>1. entries \in [Drives -> [Places -> {NoEntry} \cup Entry]] /\ DriveOf(p) \in Drives
        BY <1>2, PartFacts DEF VfsType, DiskTypes
      <3> HIDE DEF p, l, e
      <3> QED
        BY <1>2, <2>1, <3>1 DEF Enter, At
    <2>3. Extends(p, a, S)
      BY <1>6, <2>2 DEF WriteFile, Extends
    <2>4. Call /\ UNCHANGED <<pc, node>>
      BY <1>6 DEF WriteFile
    <2> HIDE DEF p, a
    <2> QED
      BY <1>2, <2>3, <2>4 DEF Called, Effect, Opens
  <1>7. ASSUME NEW S \in SUBSET Clusters, WriteGone(h, S) PROVE Called
    <2>1. Restores(p, a, S, l, e)
      BY <1>7 DEF WriteGone, Restores
    <2>2. Call /\ UNCHANGED node /\ pc' = "astray"
      BY <1>7 DEF WriteGone
    <2> HIDE DEF p, a, l, e
    <2> QED
      BY <1>2, <2>1, <2>2 DEF Called, Effect, Opens
  <1> QED
    BY <1>2, <1>3, <1>4, <1>5, <1>6, <1>7 DEF OnNode

(* A step that is not one of ata_init leaves the devices alone and has one  *)
(* of these effects.                                                       *)
LEMMA CallEffect ==
    ASSUME VfsType, Next
    PROVE  AtaInit \/ Called
  <1>1. CASE \E letter \in Letters : BehindTable(letter)
    BY <1>1 DEF BehindTable, Called, Effect, Nothing, Opens
  <1>2. CASE \E letter \in Letters : ByPath(letter)
    BY <1>2, PathCalls, PartFacts DEF ByPath
  <1>3. CASE \E h \in Handles : Relative(h)
    BY <1>3, PathCalls, PartFacts DEF Relative, VfsType, NodeTypes
  <1>4. CASE \E h \in Handles : OnNode(h)
    BY <1>4, NodeCalls
  <1> QED
    BY <1>1, <1>2, <1>3, <1>4 DEF Next

(* The entry of one partition is replaced in memory.                       *)
LEMMA KeptFacts ==
    ASSUME VfsType, NEW p \in Parts, NEW v \in Table,
           partitions' = Kept(p, v), UNCHANGED virtual_devices
    PROVE  /\ partitions' \in Seq(Partition) /\ Len(partitions') = Len(partitions)
           /\ partitions'[p].loaded /\ partitions'[p].view = v
           /\ \A q \in Parts : partitions'[q].device = partitions[q].device
           /\ \A q \in Parts : q # p => partitions'[q] = partitions[q]
  <1> DEFINE new == [partitions[p] EXCEPT !.loaded = TRUE, !.view = v]
  <1>1. partitions[p] \in Partition
    BY PartFacts
  <1>2. new \in Partition /\ new.loaded /\ new.view = v /\ new.device = partitions[p].device
    BY <1>1 DEF Partition
  <1>3. partitions' = [partitions EXCEPT ![p] = new]
    BY DEF Kept
  <1> HIDE DEF new
  <1> QED
    BY <1>2, <1>3 DEF VfsType, PartitionTypes, Parts

-----------------------------------------------------------------------------
(***************************************************************************)
(* Types.                                                                  *)
(***************************************************************************)
LEMMA WrittenTypes ==
    ASSUME VfsType, NEW p \in Parts, NEW v \in Table, Written(p, v),
           UNCHANGED virtual_devices
    PROVE  /\ partitions' \in Seq(Partition) /\ Len(partitions') = Len(partitions)
           /\ \A q \in Parts : partitions'[q].device = partitions[q].device
           /\ table' \in [Drives -> Table]
  <1>1. partitions' = Kept(p, v) /\ table' = [table EXCEPT ![DriveOf(p)] = v]
    BY DEF Written
  <1> QED
    BY <1>1, KeptFacts DEF VfsType, DiskTypes

LEMMA EnterTypes ==
    ASSUME VfsType, NEW p \in Parts, NEW l \in Places, NEW e \in {NoEntry} \cup Entry, Enter(p, l, e)
    PROVE  /\ entries' \in [Drives -> [Places -> {NoEntry} \cup Entry]]
           /\ entries'[DriveOf(p)][l] = e
           /\ \A m \in Places : m # l => entries'[DriveOf(p)][m] = entries[DriveOf(p)][m]
           /\ \A d \in Drives : d # DriveOf(p) => entries'[d] = entries[d]
  <1> DEFINE d == DriveOf(p)
             new == [entries[d] EXCEPT ![l] = e]
  <1>1. d \in Drives /\ entries[d] \in [Places -> {NoEntry} \cup Entry]
    BY PartFacts DEF VfsType, DiskTypes
  <1>2. /\ new \in [Places -> {NoEntry} \cup Entry]
        /\ new[l] = e
        /\ \A m \in Places : m # l => new[m] = entries[d][m]
    BY <1>1
  <1>3. entries' = [entries EXCEPT ![d] = new]
    BY DEF Enter
  <1> HIDE DEF new, d
  <1>4. /\ entries' \in [Drives -> [Places -> {NoEntry} \cup Entry]]
        /\ entries'[d][l] = e
        /\ \A m \in Places : m # l => entries'[d][m] = entries[d][m]
        /\ \A b \in Drives : b # d => entries'[b] = entries[b]
    BY <1>1, <1>2, <1>3 DEF VfsType, DiskTypes
  <1> QED
    BY <1>4 DEF d

(* what allocation makes of the table *)
LEMMA TakenTypes ==
    ASSUME VfsType, NEW p \in Parts, NEW a \in Homes \cup {0}, NEW S \in SUBSET Clusters
    PROVE  Owner(p, a) \in Homes \cup {0} /\ Taken(p, Owner(p, a), S) \in Table
  <1>1. View(p) \in Table
    BY PartFacts
  <1>2. Owner(p, a) \in Homes \cup {0}
    BY <1>1 DEF Owner, Table, Homes
  <1> QED
    BY <1>1, <1>2 DEF Taken, Table

LEMMA AddsTable ==
    ASSUME VfsType,
           NEW p \in Parts, NEW l \in Places, NEW S \in SUBSET Clusters, NEW c \in Clusters,
           NEW type \in Types, Adds(p, l, S, c, type)
    PROVE  /\ Written(p, [Taken(p, Owner(p, l[1]), S) EXCEPT ![c] = c])
           /\ [Taken(p, Owner(p, l[1]), S) EXCEPT ![c] = c] \in Table
  <1>1. Written(p, [Taken(p, Owner(p, l[1]), S) EXCEPT ![c] = c])
    BY DEF Adds, Initialize
  <1>2. Taken(p, Owner(p, l[1]), S) \in Table
    BY TakenTypes, PlaceFacts
  <1> QED
    BY <1>1, <1>2 DEF Table, Homes

LEMMA AddsEntries ==
    ASSUME VfsType,
           NEW p \in Parts, NEW l \in Places, NEW S \in SUBSET Clusters, NEW c \in Clusters,
           NEW type \in Types, Adds(p, l, S, c, type),
           NEW d \in Drives, d = DriveOf(p), NEW e, e = [cluster |-> c, type |-> type]
    PROVE  /\ entries' \in [Drives -> [Places -> {NoEntry} \cup Entry]]
           /\ entries'[d][l] = e
           /\ \A m \in Places : m # l => entries'[d][m] = IF m[1] = c THEN NoEntry ELSE entries[d][m]
           /\ \A b \in Drives : b # d => entries'[b] = entries[b]
  <1> DEFINE new == [m \in Places |-> IF m = l THEN e ELSE IF m[1] = c THEN NoEntry ELSE entries[d][m]]
  <1>1. entries[d] \in [Places -> {NoEntry} \cup Entry]
    BY DEF VfsType, DiskTypes
  <1>2. e \in Entry
    BY DEF Entry
  <1>3. entries' = [entries EXCEPT ![d] = new]
    BY DEF Adds, Initialize
  <1>4. /\ new \in [Places -> {NoEntry} \cup Entry]
        /\ new[l] = e
        /\ \A m \in Places : m # l => new[m] = IF m[1] = c THEN NoEntry ELSE entries[d][m]
    BY <1>1, <1>2
  <1> HIDE DEF new
  <1>5. /\ entries' \in [Drives -> [Places -> {NoEntry} \cup Entry]]
        /\ entries'[d] = new
        /\ \A b \in Drives : b # d => entries'[b] = entries[b]
    BY <1>3, <1>4 DEF VfsType, DiskTypes
  <1> QED
    BY <1>4, <1>5

LEMMA DropsTypes ==
    ASSUME VfsType, NEW p \in Parts, NEW l \in Places, Drops(p, l)
    PROVE  [c \in Clusters |-> IF View(p)[c] = At(p, l).cluster THEN 0 ELSE View(p)[c]] \in Table
  BY PartFacts DEF Table

(* the shape that every effect leaves as it is *)
LEMMA EffectTypes ==
    ASSUME VfsType, Effect, UNCHANGED virtual_devices
    PROVE  /\ partitions' \in Seq(Partition) /\ Len(partitions') = Len(partitions)
           /\ \A q \in Parts : partitions'[q].device = partitions[q].device
           /\ table' \in [Drives -> Table]
           /\ entries' \in [Drives -> [Places -> {NoEntry} \cup Entry]]
  <1>1. CASE Nothing
    BY <1>1 DEF Nothing, VfsType, DiskTypes, PartitionTypes
  <1>2. ASSUME NEW p \in Parts, Loaded(p)
        PROVE  /\ partitions' \in Seq(Partition) /\ Len(partitions') = Len(partitions)
               /\ \A q \in Parts : partitions'[q].device = partitions[q].device
               /\ UNCHANGED <<table, entries>>
    BY <1>2, KeptFacts, PartFacts DEF Loaded
  <1>3. ASSUME NEW p \in Parts, NEW a \in Homes \cup {0}, NEW S \in SUBSET Clusters, Extends(p, a, S)
        PROVE  \E v \in Table : Written(p, v) /\ UNCHANGED entries
    BY <1>3, TakenTypes DEF Extends
  <1>4. ASSUME NEW p \in Parts, NEW l \in Places, NEW S \in SUBSET Clusters, NEW c \in Clusters,
               NEW type \in Types, Adds(p, l, S, c, type)
        PROVE  /\ \E v \in Table : Written(p, v)
               /\ entries' \in [Drives -> [Places -> {NoEntry} \cup Entry]]
    <2>1. DriveOf(p) \in Drives
      BY PartFacts
    <2> QED
      BY <1>4, <2>1, AddsTable, AddsEntries
  <1>5. ASSUME NEW p \in Parts, NEW l \in Places, Drops(p, l)
        PROVE  /\ \E v \in Table : Written(p, v)
               /\ entries' \in [Drives -> [Places -> {NoEntry} \cup Entry]]
    BY <1>5, DropsTypes, EnterTypes DEF Drops
  <1>6. ASSUME NEW p \in Parts, NEW a \in Homes \cup {0}, NEW S \in SUBSET Clusters, NEW l \in Places,
               NEW e \in {NoEntry} \cup Entry, Restores(p, a, S, l, e)
        PROVE  /\ \E v \in Table : Written(p, v)
               /\ entries' \in [Drives -> [Places -> {NoEntry} \cup Entry]]
    BY <1>6, TakenTypes, EnterTypes DEF Restores
  <1> QED
    BY <1>1, <1>2, <1>3, <1>4, <1>5, <1>6, WrittenTypes DEF Effect, VfsType, DiskTypes

(* the same for the nodes and for all of it *)
LEMMA CalledTypes ==
    ASSUME VfsType, Called
    PROVE  VfsType'
  <1>1. UNCHANGED <<answers, boot, device, virtual_devices>>
    BY DEF Called, Call
  <1>2. /\ partitions' \in Seq(Partition) /\ Len(partitions') = Len(partitions)
        /\ \A q \in Parts : partitions'[q].device = partitions[q].device
        /\ table' \in [Drives -> Table]
        /\ entries' \in [Drives -> [Places -> {NoEntry} \cup Entry]]
    BY <1>1, EffectTypes DEF Called
  <1>3. Parts' = Parts
    BY <1>2 DEF Parts
  <1>4. NodeTypes'
    <2>1. CASE UNCHANGED node
      BY <1>3, <2>1 DEF VfsType, NodeTypes
    <2>2. ASSUME NEW h \in Handles, NEW m \in Node, m.partition \in Parts,
                 node' = [node EXCEPT ![h] = m]
          PROVE  NodeTypes'
      BY <1>3, <2>2 DEF VfsType, NodeTypes
    <2> QED
      BY <2>1, <2>2 DEF Called, Opens
  <1> QED
    BY <1>1, <1>2, <1>3, <1>4 DEF Called, VfsType, DiskTypes, DeviceTypes, PartitionTypes

LEMMA InitTypes == Init => VfsType
  BY DEF Init, VfsType, DiskTypes, DeviceTypes, PartitionTypes, NodeTypes, Parts, AllFree, Table

LEMMA ProbeTypes ==
    ASSUME VfsType, NEW d \in Drives, NEW from, NEW to \in {"findFirst", "findSecond"},
           Probe(d, from, to)
    PROVE  /\ VfsType'
           /\ Len(virtual_devices') = Len(virtual_devices) + (IF d \in answers THEN 1 ELSE 0)
           /\ \A i \in 1 .. Len(virtual_devices) : virtual_devices'[i] = virtual_devices[i]
           /\ d \in answers => virtual_devices'[device'] = d /\ device' = Len(virtual_devices) + 1
           /\ d \notin answers => device' = device
  <1>1. UNCHANGED <<answers, boot, table, entries, partitions, node>> /\ pc' = to
    BY DEF Probe, disks
  <1>2. /\ virtual_devices' \in Seq(Drives)
        /\ Len(virtual_devices') = Len(virtual_devices) + (IF d \in answers THEN 1 ELSE 0)
        /\ \A i \in 1 .. Len(virtual_devices) : virtual_devices'[i] = virtual_devices[i]
        /\ d \in answers => virtual_devices'[device'] = d /\ device' = Len(virtual_devices) + 1
        /\ d \notin answers => device' = device
    BY DEF Probe, Registered, VfsType, DeviceTypes
  <1>3. DeviceTypes'
    BY <1>1, <1>2 DEF VfsType, DeviceTypes
  <1>4. PartitionTypes'
    BY <1>1, <1>2, PartFacts DEF VfsType, DeviceTypes, PartitionTypes, Parts
  <1>5. DiskTypes'
    BY <1>1 DEF VfsType, DiskTypes
  <1> QED
    BY <1>1, <1>2, <1>3, <1>4, <1>5 DEF VfsType, NodeTypes, Parts

LEMMA FindVolumeTypes ==
    ASSUME VfsType, NEW from, NEW to \in {"slave", "ready"}, FindVolume(from, to)
    PROVE  /\ VfsType'
           /\ Len(partitions') = Len(partitions) + 1
           /\ \A p \in Parts : partitions'[p] = partitions[p]
           /\ partitions'[Len(partitions) + 1].device = device
           /\ ~partitions'[Len(partitions) + 1].loaded
           /\ device \in 1 .. Len(virtual_devices)
  <1>1. /\ UNCHANGED <<answers, boot, table, entries, device, virtual_devices, node>> /\ pc' = to
        /\ partitions' = Append(partitions, [device |-> device, loaded |-> FALSE, view |-> AllFree])
        /\ device \in 1 .. Len(virtual_devices)
    BY PartFacts DEF FindVolume, disks
  <1>2. [device |-> device, loaded |-> FALSE, view |-> AllFree] \in Partition
    BY <1>1, PartFacts DEF Partition, Table, AllFree
  <1>3. /\ partitions' \in Seq(Partition)
        /\ Len(partitions') = Len(partitions) + 1
        /\ \A p \in Parts : partitions'[p] = partitions[p]
        /\ partitions'[Len(partitions) + 1] = [device |-> device, loaded |-> FALSE, view |-> AllFree]
    BY <1>1, <1>2 DEF VfsType, PartitionTypes, Parts
  <1>4. /\ partitions'[Len(partitions) + 1].device = device
        /\ ~partitions'[Len(partitions) + 1].loaded
    BY <1>3
  <1>5. PartitionTypes'
    <2>1. Parts' = Parts \cup {Len(partitions) + 1}
      BY <1>3, PartFacts DEF Parts
    <2>2. \A p \in Parts' : partitions'[p].device \in 1 .. Len(virtual_devices')
      BY <1>1, <1>3, <1>4, <2>1 DEF VfsType, PartitionTypes
    <2> QED
      BY <1>1, <1>3, <2>1, <2>2 DEF VfsType, PartitionTypes
  <1>6. DiskTypes' /\ DeviceTypes'
    BY <1>1 DEF VfsType, DiskTypes, DeviceTypes
  <1>7. NodeTypes'
    BY <1>1, <1>3, PartFacts DEF VfsType, NodeTypes, Parts
  <1> QED
    BY <1>1, <1>3, <1>4, <1>5, <1>6, <1>7 DEF VfsType

LEMMA FindNothingTypes ==
    ASSUME VfsType, NEW from, NEW to \in {"slave", "ready"}, FindNothing(from, to)
    PROVE  VfsType'
  BY DEF FindNothing, disks, VfsType, DiskTypes, DeviceTypes, PartitionTypes, NodeTypes, Parts

LEMMA StepTypes == VfsType /\ [Next]_vars => VfsType'
  <1> SUFFICES ASSUME VfsType, [Next]_vars PROVE VfsType'
    OBVIOUS
  <1>1. CASE UNCHANGED vars
    BY <1>1 DEF vars, disks, VfsType, DiskTypes, DeviceTypes, PartitionTypes, NodeTypes, Parts
  <1>2. CASE AtaInit
    BY <1>2, ProbeTypes, FindVolumeTypes, FindNothingTypes DEF AtaInit, Drives
  <1> QED
    BY <1>1, <1>2, CallEffect, CalledTypes

LEMMA TypesHold == Spec => []VfsType
  BY InitTypes, StepTypes, PTL DEF Spec

-----------------------------------------------------------------------------
(***************************************************************************)
(* ata_init.  What each of its steps has filled in, by what the drives     *)
(* answer and what is in their boot sectors.                               *)
(***************************************************************************)
Volume(d) == d \in answers /\ boot[d] = "fat32"

(* the device of the first drive, if there is one *)
FirstProbed == 0 \in answers => Len(virtual_devices) >= 1 /\ virtual_devices[1] = 0

FirstFound ==
    IF Volume(0) THEN Len(partitions) = 1 /\ partitions[1].device = 1
    ELSE Len(partitions) = 0

SecondProbed ==
    /\ 1 \in answers =>
           /\ device = Len(virtual_devices)
           /\ virtual_devices[device] = 1
           /\ 0 \in answers => Len(virtual_devices) = 2
    /\ 1 \notin answers => device = IF 0 \in answers THEN 1 ELSE Unset

Booted ==
    /\ pc = "master" => Len(virtual_devices) = 0 /\ Len(partitions) = 0 /\ device = Unset
    /\ pc \in {"findFirst", "slave"} =>
           /\ FirstProbed
           /\ Len(virtual_devices) = IF 0 \in answers THEN 1 ELSE 0
           /\ device = IF 0 \in answers THEN 1 ELSE Unset
    /\ pc = "findFirst" => Len(partitions) = 0
    /\ pc \in {"slave", "findSecond"} => FirstFound
    /\ pc = "findSecond" => FirstProbed /\ SecondProbed
    /\ LettersAreVolumes

LEMMA InitBooted == Init => Booted
  BY DEF Init, Booted, LettersAreVolumes

LEMMA ProbeBooted ==
    ASSUME VfsType, Booted,
           Probe(0, "master", "findFirst") \/ Probe(1, "slave", "findSecond")
    PROVE  Booted'
  <1>1. UNCHANGED <<answers, boot, partitions>> /\ pc' # "ready"
    BY DEF Probe, disks
  <1>2. CASE Probe(0, "master", "findFirst")
    <2>1. pc = "master" /\ pc' = "findFirst"
      BY <1>2 DEF Probe
    <2> QED
      BY <1>1, <1>2, <2>1, ProbeTypes DEF Booted, FirstProbed, LettersAreVolumes, Drives
  <1>3. CASE Probe(1, "slave", "findSecond")
    <2>1. pc = "slave" /\ pc' = "findSecond"
      BY <1>3 DEF Probe
    <2>2. FirstFound'
      BY <1>1, <2>1 DEF Booted, FirstFound, Volume
    <2>3. FirstProbed'
      BY <1>1, <1>3, <2>1, ProbeTypes DEF Booted, FirstProbed, Drives
    <2>4. SecondProbed'
      <3>1. /\ Len(virtual_devices) = IF 0 \in answers THEN 1 ELSE 0
            /\ device = IF 0 \in answers THEN 1 ELSE Unset
        BY <2>1 DEF Booted
      <3>2. CASE 1 \in answers
        <4>1. /\ Len(virtual_devices') = Len(virtual_devices) + 1
              /\ device' = Len(virtual_devices) + 1
              /\ virtual_devices'[device'] = 1
          BY <1>3, <3>2, ProbeTypes DEF Drives
        <4>2. 0 \in answers => Len(virtual_devices') = 2
          BY <3>1, <4>1
        <4>3. device' = Len(virtual_devices')
          BY <4>1
        <4> QED
          BY <1>1, <3>2, <4>1, <4>2, <4>3 DEF SecondProbed
      <3>3. CASE 1 \notin answers
        <4>1. device' = device
          BY <1>3, <3>3, ProbeTypes DEF Drives
        <4> QED
          BY <1>1, <3>1, <3>3, <4>1 DEF SecondProbed
      <3> QED
        BY <3>2, <3>3
    <2> QED
      BY <1>1, <2>1, <2>2, <2>3, <2>4 DEF Booted, LettersAreVolumes
  <1> QED
    BY <1>2, <1>3

LEMMA FindFirstBooted ==
    ASSUME VfsType, Booted,
           FindNothing("findFirst", "slave") \/ FindVolume("findFirst", "slave")
    PROVE  Booted'
  <1>1. /\ pc = "findFirst" /\ pc' \in {"slave", "astray"}
        /\ UNCHANGED <<answers, boot, device, virtual_devices>>
    BY DEF FindNothing, FindVolume, disks
  <1>2. /\ FirstProbed
        /\ Len(virtual_devices) = IF 0 \in answers THEN 1 ELSE 0
        /\ device = IF 0 \in answers THEN 1 ELSE Unset
        /\ Len(partitions) = 0
    BY <1>1 DEF Booted
  <1>3. pc' = "slave" => FirstFound'
    <2>1. CASE FindNothing("findFirst", "slave")
      <3>1. partitions' = partitions
        BY <2>1 DEF FindNothing
      <3>2. 0 \in answers => boot[0] # "fat32"
        BY <1>2, <2>1, PartFacts DEF FindNothing, FirstProbed
      <3> QED
        BY <1>1, <1>2, <3>1, <3>2 DEF FirstFound, Volume
    <2>2. CASE FindVolume("findFirst", "slave")
      <3>1. device = 1 /\ 0 \in answers
        BY <1>2, <2>2, FindVolumeTypes, PartFacts, VfsAssumption
      <3>2. boot[0] = "fat32"
        BY <1>2, <2>2, <3>1 DEF FindVolume, FirstProbed
      <3> QED
        BY <1>1, <1>2, <2>2, <3>1, <3>2, FindVolumeTypes DEF FirstFound, Volume
    <2> QED
      BY <2>1, <2>2
  <1> QED
    BY <1>1, <1>2, <1>3 DEF Booted, FirstProbed, LettersAreVolumes

(* The letters a drive has, when the second search is over. *)
LEMMA FindSecondBooted ==
    ASSUME VfsType, Booted,
           FindNothing("findSecond", "ready") \/ FindVolume("findSecond", "ready")
    PROVE  LettersAreVolumes'
  <1>1. /\ pc = "findSecond"
        /\ UNCHANGED <<answers, boot, device, virtual_devices>>
        /\ FirstProbed /\ SecondProbed /\ FirstFound
        /\ answers \in SUBSET Drives
    BY DEF FindNothing, FindVolume, disks, Booted, VfsType, DiskTypes
  <1>2. DOMAIN partitions' = 1 .. Len(partitions')
    BY FindNothingTypes, FindVolumeTypes DEF VfsType, PartitionTypes
  <1>3. Volume(0) => Len(partitions) = 1 /\ DriveOf(1) = 0
    BY <1>1 DEF FirstFound, FirstProbed, DriveOf, Volume
  <1>4. CASE FindNothing("findSecond", "ready")
    <2>1. UNCHANGED <<partitions, virtual_devices>>
      BY <1>4 DEF FindNothing
    <2>2. ~Volume(1)
      <3>1. ASSUME 1 \in answers PROVE device \in 1 .. Len(virtual_devices) /\ virtual_devices[device] = 1
        BY <1>1, <3>1, PartFacts, VfsAssumption DEF SecondProbed, VfsType, DeviceTypes
      <3> QED
        BY <1>4, <3>1, PartFacts DEF FindNothing, Volume
    <2>3. {d \in answers : boot[d] = "fat32"} = IF Volume(0) THEN {0} ELSE {}
      BY <1>1, <2>2 DEF Volume, Drives
    <2>4. \A p : p \in DOMAIN partitions <=> (Volume(0) /\ p = 1)
      BY <1>1, PartFacts DEF FirstFound, Parts
    <2> QED
      BY <1>1, <1>3, <2>1, <2>3, <2>4 DEF LettersAreVolumes, DriveOf
  <1>5. CASE FindVolume("findSecond", "ready")
    <2>1. /\ Len(partitions') = Len(partitions) + 1
          /\ \A p \in Parts : partitions'[p] = partitions[p]
          /\ partitions'[Len(partitions) + 1].device = device
      BY <1>5, FindVolumeTypes
    <2>2. boot[virtual_devices[device]] = "fat32" /\ device \in 1 .. Len(virtual_devices)
      BY <1>5, PartFacts DEF FindVolume
    <2>3. CASE 1 \in answers
      <3>1. virtual_devices[device] = 1 /\ boot[1] = "fat32"
        BY <1>1, <2>2, <2>3 DEF SecondProbed
      <3>2. CASE Volume(0)
        <4>1. {d \in answers : boot[d] = "fat32"} = {0, 1}
          BY <1>1, <2>3, <3>1, <3>2 DEF Volume, Drives
        <4>2. Len(partitions') = 2 /\ (DriveOf(1) = 0)' /\ (DriveOf(2) = 1)'
          <5>1. Len(partitions) = 1 /\ partitions[1].device = 1 /\ virtual_devices[1] = 0
            BY <1>1, <3>2 DEF FirstFound, FirstProbed, Volume
          <5>2. 1 \in Parts
            BY <5>1 DEF Parts
          <5>3. partitions'[1].device = 1 /\ partitions'[2].device = device
            BY <2>1, <5>1, <5>2
          <5> QED
            BY <1>1, <2>1, <3>1, <5>1, <5>3 DEF DriveOf
        <4>3. \A p : p \in DOMAIN partitions' <=> p \in {1, 2}
          BY <1>2, <4>2
        <4> QED
          BY <1>1, <4>1, <4>2, <4>3 DEF LettersAreVolumes
      <3>3. CASE ~Volume(0)
        <4>1. {d \in answers : boot[d] = "fat32"} = {1}
          BY <1>1, <2>3, <3>1, <3>3 DEF Volume, Drives
        <4>2. Len(partitions') = 1 /\ (DriveOf(1) = 1)'
          BY <1>1, <2>1, <3>1, <3>3 DEF DriveOf, FirstFound
        <4>3. \A p : p \in DOMAIN partitions' <=> p = 1
          BY <1>2, <4>2
        <4> QED
          BY <1>1, <4>1, <4>2, <4>3 DEF LettersAreVolumes
      <3> QED
        BY <3>2, <3>3
    <2>4. CASE 1 \notin answers
      <3>1. 0 \in answers /\ device = 1 /\ boot[0] = "fat32"
        <4>1. device = IF 0 \in answers THEN 1 ELSE Unset
          BY <1>1, <2>4 DEF SecondProbed
        <4>2. device # Unset
          BY <2>2, PartFacts, VfsAssumption
        <4> QED
          BY <1>1, <2>2, <4>1, <4>2 DEF FirstProbed
      <3>2. {d \in answers : boot[d] = "fat32"} = {0}
        BY <1>1, <2>4, <3>1 DEF Drives
      <3>3. Len(partitions') = 2 /\ (DriveOf(1) = 0)' /\ (DriveOf(2) = 0)'
        <4>1. Len(partitions) = 1 /\ partitions[1].device = 1 /\ virtual_devices[1] = 0
          BY <1>1, <3>1 DEF FirstFound, FirstProbed, Volume
        <4>2. 1 \in Parts
          BY <4>1 DEF Parts
        <4>3. partitions'[1].device = 1 /\ partitions'[2].device = device
          BY <2>1, <4>1, <4>2
        <4> QED
          BY <1>1, <2>1, <3>1, <4>1, <4>3 DEF DriveOf
      <3>4. \A p : p \in DOMAIN partitions' <=> p \in {1, 2}
        BY <1>2, <3>3
      <3> QED
        BY <1>1, <2>4, <3>2, <3>3, <3>4 DEF LettersAreVolumes, Drives
    <2> QED
      BY <2>3, <2>4
  <1> QED
    BY <1>4, <1>5

LEMMA StepBooted == VfsType /\ Booted /\ [Next]_vars => Booted'
  <1> SUFFICES ASSUME VfsType, Booted, [Next]_vars PROVE Booted'
    OBVIOUS
  <1>1. CASE UNCHANGED vars
    BY <1>1 DEF vars, disks, Booted, FirstProbed, FirstFound, SecondProbed, Volume,
                LettersAreVolumes, DriveOf
  <1>2. CASE Probe(0, "master", "findFirst") \/ Probe(1, "slave", "findSecond")
    BY <1>2, ProbeBooted
  <1>3. CASE FindNothing("findFirst", "slave") \/ FindVolume("findFirst", "slave")
    BY <1>3, FindFirstBooted
  <1>4. CASE FindNothing("findSecond", "ready") \/ FindVolume("findSecond", "ready")
    <2>1. pc' \in {"ready", "astray"}
      BY <1>4 DEF FindNothing, FindVolume
    <2> QED
      BY <1>4, <2>1, FindSecondBooted DEF Booted
  <1>5. CASE Called
    <2>1. pc = "ready" /\ UNCHANGED <<answers, boot, device, virtual_devices>>
      BY <1>5 DEF Called, Call
    <2>2. /\ DOMAIN partitions' = DOMAIN partitions
          /\ \A p \in Parts : (DriveOf(p))' = DriveOf(p)
          /\ DOMAIN partitions = Parts
      BY <1>5, <2>1, EffectTypes, PartFacts DEF Called, Parts, DriveOf
    <2>3. LettersAreVolumes
      BY DEF Booted
    <2>4. LettersAreVolumes'
      BY <2>1, <2>2, <2>3 DEF LettersAreVolumes
    <2> QED
      BY <1>5, <2>1, <2>4 DEF Called, Booted
  <1> QED
    BY <1>1, <1>2, <1>3, <1>4, <1>5, CallEffect DEF AtaInit

(* When ata_init is through, the letters are the volumes: every FAT32      *)
(* volume on a drive that answers has one, and no letter leads anywhere    *)
(* else; when both drives answer, no two lead to the same.  And no call    *)
(* changes that.                                                           *)
THEOREM LettersTheorem == Spec => []LettersAreVolumes
  <1>1. Spec => []Booted
    BY InitBooted, StepBooted, TypesHold, PTL DEF Spec
  <1>2. Booted => LettersAreVolumes
    BY DEF Booted
  <1> QED
    BY <1>1, <1>2, PTL

-----------------------------------------------------------------------------
(***************************************************************************)
(* Calls.  A disk with one letter has one copy of its table in memory,     *)
(* which is the table, once the partition has been used; the entries of a  *)
(* disk lead one by one to the clusters in use.                            *)
(***************************************************************************)
CopiesCurrent ==
    \A p \in Parts : partitions[p].loaded => partitions[p].view = table[DriveOf(p)]

Named(d) == {l \in Places : entries[d][l] # NoEntry}

OneByOne(d) ==
    /\ \A l \in Named(d) : table[d][entries[d][l].cluster] = entries[d][l].cluster
    /\ \A c \in Clusters : table[d][c] \notin {0, Root} =>
          \E l \in Named(d) : entries[d][l].cluster = table[d][c]
    /\ \A l, m \in Named(d) : entries[d][l].cluster = entries[d][m].cluster => l = m

(* what is in a directory is in one that an entry leads to *)
Rooted(d) ==
    \A l \in Named(d) :
        \/ l[1] = Root
        \/ \E m \in Named(d) : entries[d][m] = [cluster |-> l[1], type |-> "dir"]

DiskMatched(d) == OneByOne(d) /\ Rooted(d)

Matched ==
    OneLetterEach /\ pc # "astray" => CopiesCurrent /\ \A d \in Drives : DiskMatched(d)

LEMMA OneLetterBefore ==
    ASSUME VfsType, VfsType', OneLetterEach',
           Len(partitions) <= Len(partitions'),
           \A p \in Parts : (DriveOf(p))' = DriveOf(p)
    PROVE  /\ OneLetterEach
           /\ \A p, q \in Parts : DriveOf(p) = DriveOf(q) => p = q
  <1>1. DOMAIN partitions = Parts /\ Parts \subseteq DOMAIN partitions'
    BY PartFacts DEF VfsType, PartitionTypes, Parts
  <1> QED
    BY <1>1 DEF OneLetterEach

(* A step of ata_init, before any call. *)
LEMMA BootMatched ==
    ASSUME VfsType, VfsType', Matched, AtaInit, OneLetterEach', pc' # "astray"
    PROVE  CopiesCurrent' /\ \A d \in Drives : DiskMatched(d)'
  <1>1. UNCHANGED <<table, entries>>
    BY DEF AtaInit, Probe, FindNothing, FindVolume, disks
  <1>2. /\ Len(partitions) <= Len(partitions')
        /\ \A p \in Parts : partitions'[p] = partitions[p]
        /\ \A p \in Parts' \ Parts : ~partitions'[p].loaded
        /\ \A i \in 1 .. Len(virtual_devices) : virtual_devices'[i] = virtual_devices[i]
    <2>1. ASSUME NEW from, NEW to \in {"slave", "ready"}, FindVolume(from, to)
          PROVE  /\ Len(partitions) <= Len(partitions')
                 /\ \A p \in Parts : partitions'[p] = partitions[p]
                 /\ \A p \in Parts' \ Parts : ~partitions'[p].loaded
                 /\ virtual_devices' = virtual_devices
      <3>1. Parts' \ Parts = {Len(partitions) + 1} /\ Len(partitions) <= Len(partitions')
        BY <2>1, FindVolumeTypes, PartFacts DEF Parts
      <3> QED
        BY <2>1, <3>1, FindVolumeTypes DEF FindVolume
    <2>2. ASSUME NEW d \in Drives, NEW from, NEW to \in {"findFirst", "findSecond"}, Probe(d, from, to)
          PROVE  /\ partitions' = partitions
                 /\ \A i \in 1 .. Len(virtual_devices) : virtual_devices'[i] = virtual_devices[i]
      BY <2>2, ProbeTypes DEF Probe
    <2>3. ASSUME NEW from, NEW to, FindNothing(from, to)
          PROVE  UNCHANGED <<partitions, virtual_devices>>
      BY <2>3 DEF FindNothing
    <2>4. partitions' = partitions => /\ Len(partitions) <= Len(partitions')
                                      /\ Parts' = Parts
      BY PartFacts DEF Parts
    <2> QED
      BY <2>1, <2>2, <2>3, <2>4 DEF AtaInit, Drives
  <1>3. \A p \in Parts : (DriveOf(p))' = DriveOf(p)
    BY <1>2 DEF DriveOf, VfsType, PartitionTypes
  <1>4. OneLetterEach
    BY <1>2, <1>3, OneLetterBefore
  <1>0. pc # "astray"
    BY DEF AtaInit, Probe, FindNothing, FindVolume
  <1>5. CopiesCurrent'
    <2>1. ASSUME NEW p \in Parts', partitions'[p].loaded
          PROVE  partitions'[p].view = table'[(DriveOf(p))']
      <3>1. p \in Parts
        BY <1>2, <2>1
      <3> QED
        BY <1>0, <1>1, <1>2, <1>3, <1>4, <2>1, <3>1 DEF Matched, CopiesCurrent
    <2> QED
      BY <2>1 DEF CopiesCurrent
  <1> QED
    BY <1>0, <1>1, <1>4, <1>5 DEF Matched, DiskMatched, OneByOne, Rooted, Named

(* A partition's view of its table is the table. *)
LEMMA ViewIsTable ==
    ASSUME CopiesCurrent, NEW p \in Parts
    PROVE  View(p) = table[DriveOf(p)]
  BY DEF CopiesCurrent, View

(* after a call that writes, the copy of its partition is the table still *)
LEMMA CopyWritten ==
    ASSUME VfsType, CopiesCurrent, UNCHANGED virtual_devices,
           \A p, q \in Parts : DriveOf(p) = DriveOf(q) => p = q,
           NEW p \in Parts, NEW v \in Table, Written(p, v)
    PROVE  /\ CopiesCurrent'
           /\ table'[DriveOf(p)] = v
           /\ \A d \in Drives : d # DriveOf(p) => table'[d] = table[d]
  <1>1. /\ table' = [table EXCEPT ![DriveOf(p)] = v] /\ partitions' = Kept(p, v)
        /\ DriveOf(p) \in Drives /\ table \in [Drives -> Table]
        /\ \A q \in Parts : DriveOf(q) \in Drives
    BY PartFacts DEF Written, VfsType, DiskTypes
  <1>2. /\ table'[DriveOf(p)] = v
        /\ \A d \in Drives : d # DriveOf(p) => table'[d] = table[d]
    BY <1>1
  <1>3. /\ Len(partitions') = Len(partitions)
        /\ partitions'[p].view = v
        /\ \A q \in Parts : partitions'[q].device = partitions[q].device
        /\ \A q \in Parts : q # p => partitions'[q] = partitions[q]
    BY <1>1, KeptFacts
  <1>4. Parts' = Parts /\ \A q \in Parts : (DriveOf(q))' = DriveOf(q)
    BY <1>3 DEF Parts, DriveOf
  <1>5. ASSUME NEW q \in Parts, partitions'[q].loaded
        PROVE  partitions'[q].view = table'[DriveOf(q)]
    <2>1. CASE q = p
      BY <1>2, <1>3, <2>1
    <2>2. CASE q # p
      BY <1>1, <1>2, <1>3, <1>5, <2>2 DEF CopiesCurrent
    <2> QED
      BY <2>1, <2>2
  <1>6. CopiesCurrent'
    BY <1>4, <1>5 DEF CopiesCurrent
  <1> QED
    BY <1>2, <1>6

(* a cluster at the end of a chain that an entry leads to, or of the root   *)
LEMMA ExtendsMatched ==
    ASSUME VfsType, CopiesCurrent, \A d \in Drives : DiskMatched(d), UNCHANGED virtual_devices,
           \A p, q \in Parts : DriveOf(p) = DriveOf(q) => p = q,
           NEW p \in Parts, NEW a \in Homes \cup {0}, NEW S \in SUBSET Clusters, Extends(p, a, S)
    PROVE  CopiesCurrent' /\ \A d \in Drives : DiskMatched(d)'
  <1>1. PICK b \in Drives : b = DriveOf(p)
    BY PartFacts
  <1>2. PICK o : o = Owner(p, a)
    OBVIOUS
  <1>3. View(p) = table[b] /\ table[b] \in Table
    BY <1>1, ViewIsTable DEF VfsType, DiskTypes
  <1>4. /\ Taken(p, o, S) \in Table
        /\ o \in {0, Root} \/ \E x \in Clusters : o = table[b][x]
        /\ S \in SUBSET Clusters /\ \A x \in S : table[b][x] = 0
    <2>1. Taken(p, o, S) \in Table
      BY <1>2, TakenTypes
    <2>2. o \in {0, Root} \/ \E x \in Clusters : o = table[b][x]
      BY <1>2, <1>3 DEF Owner
    <2>3. \A x \in S : table[b][x] = 0
      BY <1>3 DEF Extends, MayTake, Free
    <2> QED
      BY <2>1, <2>2, <2>3
  <1>5. /\ CopiesCurrent'
        /\ table'[b] = [c \in Clusters |-> IF c \in S THEN o ELSE table[b][c]]
        /\ \A d \in Drives : d # b => table'[d] = table[d]
        /\ entries' = entries
    <2>1. Written(p, Taken(p, o, S)) /\ UNCHANGED entries
      BY <1>2 DEF Extends
    <2>2. Taken(p, o, S) = [c \in Clusters |-> IF c \in S THEN o ELSE table[b][c]]
      BY <1>3 DEF Taken
    <2> QED
      BY <1>1, <1>4, <2>1, <2>2, CopyWritten
  <1>6. ASSUME NEW d \in Drives, d # b PROVE DiskMatched(d)'
    BY <1>5, <1>6 DEF DiskMatched, OneByOne, Rooted, Named
  <1>7. DiskMatched(b)'
    <2>1. OneByOne(b) /\ Rooted(b)
      BY DEF DiskMatched
    <2>2. Named(b)' = Named(b) /\ Rooted(b)'
      BY <1>5, <2>1 DEF Named, Rooted
    <2>3. ASSUME NEW l \in Named(b)
          PROVE  table'[b][entries[b][l].cluster] = entries[b][l].cluster
      <3>1. entries[b][l].cluster \in Clusters
        BY DEF Named, VfsType, DiskTypes, Entry
      <3>2. table[b][entries[b][l].cluster] = entries[b][l].cluster
        BY <2>1 DEF OneByOne
      <3>3. entries[b][l].cluster # 0
        BY <3>1, VfsAssumption
      <3> QED
        BY <1>4, <1>5, <3>1, <3>2, <3>3
    <2>4. ASSUME NEW c \in Clusters, table'[b][c] \notin {0, Root}
          PROVE  \E l \in Named(b) : entries[b][l].cluster = table'[b][c]
      <3>1. \E x \in Clusters : table'[b][c] = table[b][x]
        BY <1>4, <1>5, <2>4
      <3> QED
        BY <2>1, <2>4, <3>1 DEF OneByOne
    <2> QED
      BY <1>5, <2>1, <2>2, <2>3, <2>4 DEF DiskMatched, OneByOne
  <1> QED
    BY <1>5, <1>6, <1>7

LEMMA AddsMatched ==
    ASSUME VfsType, CopiesCurrent, \A d \in Drives : DiskMatched(d), UNCHANGED virtual_devices,
           \A p, q \in Parts : DriveOf(p) = DriveOf(q) => p = q,
           NEW p \in Parts, NEW l \in Places, NEW S \in SUBSET Clusters, NEW c \in Clusters,
           NEW type \in Types, Adds(p, l, S, c, type)
    PROVE  CopiesCurrent' /\ \A d \in Drives : DiskMatched(d)'
  <1>1. PICK b \in Drives : b = DriveOf(p)
    BY PartFacts
  <1>2. PICK o : o = Owner(p, l[1])
    OBVIOUS
  <1>3. PICK e : e = [cluster |-> c, type |-> type]
    OBVIOUS
  <1>4. View(p) = table[b] /\ table[b] \in Table
    BY <1>1, ViewIsTable DEF VfsType, DiskTypes
  <1>5. e # NoEntry /\ e.cluster = c /\ e.type = type /\ c # 0 /\ c # Root
    BY <1>3, VfsAssumption
  <1>6. /\ o \in {0, Root} \/ \E x \in Clusters : o = table[b][x]
        /\ c \notin S /\ table[b][c] = 0
        /\ \A x \in S : table[b][x] = 0
        /\ entries[b][l] = NoEntry
        /\ l[1] = Root \/ \E m \in Places : entries[b][m] = [cluster |-> l[1], type |-> "dir"]
                                            /\ l[1] \in Clusters
    <2>1. o \in {0, Root} \/ \E x \in Clusters : o = table[b][x]
      BY <1>2, <1>4 DEF Owner
    <2>2. c \notin S /\ table[b][c] = 0 /\ \A x \in S : table[b][x] = 0
      BY <1>4 DEF Adds, Initialize, MayTake, Free
    <2>3. entries[b][l] = NoEntry
      BY <1>1 DEF Adds, Initialize, At
    <2>4. l[1] = Root \/ \E m \in Places : entries[b][m] = [cluster |-> l[1], type |-> "dir"]
                                           /\ l[1] \in Clusters
      BY <1>1 DEF Adds, Folders, At
    <2> QED
      BY <2>1, <2>2, <2>3, <2>4
  <1>7. /\ CopiesCurrent'
        /\ table'[b] = [[x \in Clusters |-> IF x \in S THEN o ELSE table[b][x]] EXCEPT ![c] = c]
        /\ \A d \in Drives : d # b => table'[d] = table[d]
    <2> DEFINE v == [Taken(p, o, S) EXCEPT ![c] = c]
    <2>1. Written(p, v) /\ v \in Table
      BY <1>2, AddsTable
    <2>2. v = [[x \in Clusters |-> IF x \in S THEN o ELSE table[b][x]] EXCEPT ![c] = c]
      BY <1>4 DEF Taken
    <2> HIDE DEF v
    <2> QED
      BY <1>1, <2>1, <2>2, CopyWritten
  <1>8. /\ entries'[b][l] = e
        /\ \A m \in Places : m # l =>
              entries'[b][m] = IF m[1] = c THEN NoEntry ELSE entries[b][m]
        /\ \A d \in Drives : d # b => entries'[d] = entries[d]
    BY <1>1, <1>3, AddsEntries
  <1>9. ASSUME NEW d \in Drives, d # b PROVE DiskMatched(d)'
    BY <1>7, <1>8, <1>9 DEF DiskMatched, OneByOne, Rooted, Named
  <1>10. DiskMatched(b)'
    <2>1. OneByOne(b) /\ Rooted(b)
      BY DEF DiskMatched
    <2>2. ASSUME NEW m \in Named(b)
          PROVE  /\ m \in Places /\ entries[b][m].cluster \in Clusters
                 /\ table[b][entries[b][m].cluster] = entries[b][m].cluster
                 /\ entries[b][m].cluster # c /\ entries[b][m].cluster \notin S
                 /\ m # l /\ m[1] # c
      <3>1. m \in Places /\ entries[b][m].cluster \in Clusters
        BY DEF Named, VfsType, DiskTypes, Entry
      <3>2. table[b][entries[b][m].cluster] = entries[b][m].cluster
        BY <2>1 DEF OneByOne
      <3>3. entries[b][m].cluster # 0
        BY <3>1, VfsAssumption
      <3>4. entries[b][m].cluster # c /\ entries[b][m].cluster \notin S
        BY <1>6, <3>2, <3>3
      <3>5. m # l
        BY <1>6 DEF Named
      <3>6. m[1] # c
        <4>1. CASE m[1] = Root
          BY <1>5, <4>1
        <4>2. CASE m[1] # Root
          <5>1. PICK n \in Named(b) : entries[b][n] = [cluster |-> m[1], type |-> "dir"]
            BY <2>1, <4>2 DEF Rooted
          <5>2. entries[b][n].cluster = m[1] /\ entries[b][n].cluster \in Clusters
            BY <5>1 DEF Named, VfsType, DiskTypes, Entry
          <5>3. table[b][entries[b][n].cluster] = entries[b][n].cluster
            BY <2>1 DEF OneByOne
          <5> QED
            BY <1>5, <1>6, <5>2, <5>3
        <4> QED
          BY <4>1, <4>2
      <3> QED
        BY <3>1, <3>2, <3>4, <3>5, <3>6
    <2>3. /\ Named(b)' = Named(b) \cup {l} /\ l \notin Named(b)
          /\ \A m \in Named(b) : entries'[b][m] = entries[b][m]
      <3>1. \A m \in Named(b) : m # l /\ m[1] # c /\ m \in Places
        BY <2>2
      <3>2. \A m \in Named(b) : entries'[b][m] = entries[b][m]
        BY <1>8, <3>1
      <3>3. Named(b)' = Named(b) \cup {l}
        BY <1>5, <1>8, <3>1, <3>2 DEF Named
      <3> QED
        BY <3>1, <3>2, <3>3
    <2>4. /\ table'[b][c] = c
          /\ \A x \in Clusters : x # c /\ x \notin S => table'[b][x] = table[b][x]
          /\ \A x \in S : x # c => table'[b][x] = o
      BY <1>7
    <2>5. ASSUME NEW m \in Named(b)'
          PROVE  table'[b][entries'[b][m].cluster] = entries'[b][m].cluster
      BY <1>5, <1>8, <2>2, <2>3, <2>4
    <2>6. ASSUME NEW x \in Clusters, table'[b][x] \notin {0, Root}
          PROVE  \E m \in Named(b)' : entries'[b][m].cluster = table'[b][x]
      <3>1. CASE x = c
        BY <1>5, <1>8, <2>3, <2>4, <3>1
      <3>2. CASE x # c
        <4>1. \E y \in Clusters : table'[b][x] = table[b][y]
          BY <1>6, <2>4, <2>6, <3>2
        <4>2. PICK m \in Named(b) : entries[b][m].cluster = table'[b][x]
          BY <2>1, <2>6, <4>1 DEF OneByOne
        <4> QED
          BY <2>3, <4>2
      <3> QED
        BY <3>1, <3>2
    <2>7. ASSUME NEW m \in Named(b)', NEW n \in Named(b)',
                 entries'[b][m].cluster = entries'[b][n].cluster
          PROVE  m = n
      <3>1. \A y \in Named(b) : entries'[b][y].cluster # c
        BY <2>2, <2>3
      <3>2. entries'[b][l].cluster = c
        BY <1>5, <1>8
      <3>3. m = l <=> n = l
        BY <2>3, <2>7, <3>1, <3>2
      <3>4. CASE m \in Named(b) /\ n \in Named(b)
        BY <2>1, <2>3, <2>7, <3>4 DEF OneByOne
      <3> QED
        BY <2>3, <3>3, <3>4
    <2>8. OneByOne(b)'
      BY <2>5, <2>6, <2>7 DEF OneByOne
    <2>9. ASSUME NEW m \in Named(b)'
          PROVE  \/ m[1] = Root
                 \/ \E n \in Named(b)' : entries'[b][n] = [cluster |-> m[1], type |-> "dir"]
      <3>1. CASE m \in Named(b)
        BY <2>1, <2>3, <3>1 DEF Rooted
      <3>2. CASE m = l /\ m[1] # Root
        <4>1. PICK n \in Places : /\ entries[b][n] = [cluster |-> l[1], type |-> "dir"]
                                  /\ l[1] \in Clusters
          BY <1>6, <3>2
        <4>2. n \in Named(b)
          <5>1. entries[b][n] \in [cluster : Clusters, type : Types]
            BY <4>1 DEF Types
          <5>2. entries[b][n] # NoEntry
            BY <5>1, VfsAssumption
          <5> QED
            BY <5>2 DEF Named
        <4> QED
          BY <2>3, <3>2, <4>1, <4>2
      <3> QED
        BY <2>3, <3>1, <3>2
    <2> QED
      BY <2>8, <2>9 DEF DiskMatched, Rooted
  <1> QED
    BY <1>7, <1>9, <1>10

LEMMA DropsMatched ==
    ASSUME VfsType, CopiesCurrent, \A d \in Drives : DiskMatched(d), UNCHANGED virtual_devices,
           \A p, q \in Parts : DriveOf(p) = DriveOf(q) => p = q,
           NEW p \in Parts, NEW l \in Places, Drops(p, l)
    PROVE  CopiesCurrent' /\ \A d \in Drives : DiskMatched(d)'
  <1>1. PICK b \in Drives : b = DriveOf(p)
    BY PartFacts
  <1>2. PICK c : c = entries[b][l].cluster
    OBVIOUS
  <1>3. /\ View(p) = table[b] /\ table[b] \in Table
        /\ entries[b][l] # NoEntry /\ entries[b][l].type = "file"
    BY <1>1, ViewIsTable DEF Drops, At, VfsType, DiskTypes
  <1>4. /\ CopiesCurrent'
        /\ table'[b] = [x \in Clusters |-> IF table[b][x] = c THEN 0 ELSE table[b][x]]
        /\ \A d \in Drives : d # b => table'[d] = table[d]
    <2> DEFINE v == [x \in Clusters |-> IF View(p)[x] = At(p, l).cluster THEN 0 ELSE View(p)[x]]
    <2>1. Written(p, v) /\ v \in Table
      BY DropsTypes DEF Drops
    <2>2. v = [x \in Clusters |-> IF table[b][x] = c THEN 0 ELSE table[b][x]]
      BY <1>1, <1>2, <1>3 DEF At
    <2> HIDE DEF v
    <2> QED
      BY <1>1, <2>1, <2>2, CopyWritten
  <1>5. /\ entries'[b][l] = NoEntry
        /\ \A m \in Places : m # l => entries'[b][m] = entries[b][m]
        /\ \A d \in Drives : d # b => entries'[d] = entries[d]
    BY <1>1, EnterTypes DEF Drops
  <1>6. ASSUME NEW d \in Drives, d # b PROVE DiskMatched(d)'
    BY <1>4, <1>5, <1>6 DEF DiskMatched, OneByOne, Rooted, Named
  <1>7. DiskMatched(b)'
    <2>1. OneByOne(b) /\ Rooted(b)
      BY DEF DiskMatched
    <2>2. Named(b)' = Named(b) \ {l} /\ l \in Named(b)
      BY <1>3, <1>5 DEF Named
    <2>3. \A m \in Named(b) \ {l} : entries'[b][m] = entries[b][m]
      BY <1>5 DEF Named
    <2>4. ASSUME NEW m \in Named(b) \ {l}
          PROVE  /\ entries[b][m].cluster # c /\ entries[b][m].cluster \in Clusters
                 /\ table[b][entries[b][m].cluster] = entries[b][m].cluster
      <3>1. entries[b][m].cluster \in Clusters
        BY DEF Named, VfsType, DiskTypes, Entry
      <3> QED
        BY <1>2, <2>1, <2>2, <3>1 DEF OneByOne
    <2>5. ASSUME NEW m \in Named(b)'
          PROVE  table'[b][entries'[b][m].cluster] = entries'[b][m].cluster
      BY <1>4, <2>2, <2>3, <2>4
    <2>6. ASSUME NEW x \in Clusters, table'[b][x] \notin {0, Root}
          PROVE  \E m \in Named(b)' : entries'[b][m].cluster = table'[b][x]
      <3>1. table'[b][x] = table[b][x] /\ table[b][x] # c
        BY <1>4, <2>6
      <3>2. PICK m \in Named(b) : entries[b][m].cluster = table[b][x]
        BY <2>1, <2>6, <3>1 DEF OneByOne
      <3>3. m # l
        BY <1>2, <3>1, <3>2
      <3> QED
        BY <2>2, <2>3, <3>1, <3>2, <3>3
    <2>7. ASSUME NEW m \in Named(b)', NEW n \in Named(b)',
                 entries'[b][m].cluster = entries'[b][n].cluster
          PROVE  m = n
      BY <2>1, <2>2, <2>3, <2>7 DEF OneByOne
    <2>8. OneByOne(b)'
      BY <2>5, <2>6, <2>7 DEF OneByOne
    <2>9. ASSUME NEW m \in Named(b)'
          PROVE  \/ m[1] = Root
                 \/ \E n \in Named(b)' : entries'[b][n] = [cluster |-> m[1], type |-> "dir"]
      <3>1. CASE m[1] # Root
        <4>1. PICK n \in Named(b) : entries[b][n] = [cluster |-> m[1], type |-> "dir"]
          BY <2>1, <2>2, <3>1 DEF Rooted
        <4>2. n # l
          BY <1>3, <4>1
        <4> QED
          BY <2>2, <2>3, <4>1, <4>2
      <3> QED
        BY <3>1
    <2> QED
      BY <2>8, <2>9 DEF DiskMatched, Rooted
  <1> QED
    BY <1>4, <1>6, <1>7

LEMMA StepMatched == VfsType /\ Matched /\ [Next]_vars => Matched'
  <1> SUFFICES ASSUME VfsType, Matched, [Next]_vars, OneLetterEach', pc' # "astray"
               PROVE  CopiesCurrent' /\ \A d \in Drives : DiskMatched(d)'
    BY DEF Matched
  <1>0. VfsType'
    BY StepTypes
  <1>1. CASE UNCHANGED vars
    BY <1>1 DEF vars, disks, Matched, OneLetterEach, CopiesCurrent, DiskMatched, OneByOne, Rooted,
                Named, DriveOf, Parts
  <1>2. CASE AtaInit
    BY <1>0, <1>2, BootMatched
  <1>3. CASE Called
    <2>1. UNCHANGED virtual_devices /\ Effect /\ pc = "ready"
      BY <1>3 DEF Called, Call
    <2>2. Len(partitions') = Len(partitions) /\ \A p \in Parts : (DriveOf(p))' = DriveOf(p)
      BY <2>1, EffectTypes DEF DriveOf
    <2>3. /\ \A p, q \in Parts : DriveOf(p) = DriveOf(q) => p = q
          /\ CopiesCurrent /\ \A d \in Drives : DiskMatched(d)
      BY <1>0, <2>1, <2>2, OneLetterBefore, PartFacts DEF Matched
    <2>4. CASE Nothing
      BY <2>1, <2>3, <2>4 DEF Nothing, CopiesCurrent, DiskMatched, OneByOne, Rooted, Named, DriveOf,
                              Parts
    <2>5. ASSUME NEW p \in Parts, Loaded(p)
          PROVE  CopiesCurrent' /\ \A d \in Drives : DiskMatched(d)'
      <3>1. UNCHANGED <<table, entries>> /\ View(p) = table[DriveOf(p)]
        BY <2>3, <2>5, ViewIsTable DEF Loaded
      <3>2. /\ partitions'[p].view = View(p)
            /\ \A q \in Parts : q # p => partitions'[q] = partitions[q]
        BY <2>1, <2>5, KeptFacts, PartFacts DEF Loaded
      <3>3. Parts' = Parts
        BY <2>2 DEF Parts
      <3>4. CopiesCurrent'
        BY <2>2, <2>3, <3>1, <3>2, <3>3 DEF CopiesCurrent
      <3> QED
        BY <2>3, <3>1, <3>4 DEF DiskMatched, OneByOne, Rooted, Named
    <2>6. ASSUME NEW p \in Parts, NEW a \in Homes \cup {0}, NEW S \in SUBSET Clusters, NEW l \in Places,
                 NEW e \in {NoEntry} \cup Entry, Restores(p, a, S, l, e)
          PROVE  FALSE
      BY <2>6 DEF Restores
    <2> QED
      BY <2>1, <2>3, <2>4, <2>5, <2>6, ExtendsMatched, AddsMatched, DropsMatched DEF Effect
  <1> QED
    BY <1>1, <1>2, <1>3, CallEffect

(* While each disk has one letter, no sequence of calls through letters    *)
(* and through nodes gives a cluster to two entries of a disk or leaves    *)
(* one marked that no entry leads to, up to the write through a node that  *)
(* brings a removed file back, or a path that leads through a file: the    *)
(* copy of the table that a partition keeps in memory is never behind the  *)
(* disk.                                                                   *)
THEOREM ClustersTheorem == Spec => []ClustersMatchNames
  <1>1. Init => Matched
    BY VfsAssumption DEF Init, AllFree, Matched, CopiesCurrent, DiskMatched, OneByOne, Rooted, Named, Parts
  <1>2. Spec => []Matched
    BY <1>1, StepMatched, TypesHold, PTL DEF Spec
  <1>3. VfsType /\ Matched => ClustersMatchNames
    <2> SUFFICES ASSUME VfsType, Matched, OneLetterEach, pc # "astray", NEW d \in Drives
                 PROVE  /\ Chains(d) = {entries[d][l].cluster : l \in Named(d)}
                        /\ Cardinality(Chains(d)) = Cardinality(Named(d))
                        /\ \A l \in Named(d) : table[d][entries[d][l].cluster] = entries[d][l].cluster
      BY DEF ClustersMatchNames, Named
    <2>1. OneByOne(d)
      BY DEF Matched, DiskMatched
    <2>2. \A l \in Named(d) : entries[d][l].cluster \in Clusters /\ entries[d][l].cluster \in Chains(d)
      <3> SUFFICES ASSUME NEW l \in Named(d)
                   PROVE  entries[d][l].cluster \in Clusters /\ entries[d][l].cluster \in Chains(d)
        OBVIOUS
      <3>1. entries[d][l].cluster \in Clusters
        BY DEF Named, VfsType, DiskTypes, Entry
      <3>2. table[d][entries[d][l].cluster] = entries[d][l].cluster
        BY <2>1 DEF OneByOne
      <3>3. entries[d][l].cluster \notin {0, Root}
        BY <3>1, VfsAssumption
      <3> QED
        BY <3>1, <3>2, <3>3 DEF Chains
    <2>3. \A c \in Chains(d) : \E l \in Named(d) : entries[d][l].cluster = c
      BY <2>1 DEF OneByOne, Chains
    <2>4. IsFiniteSet(Named(d))
      <3>1. Named(d) \subseteq Places
        BY DEF Named
      <3>2. IsFiniteSet(Homes)
        BY VfsAssumption, FS_Singleton, FS_Union DEF Homes
      <3>3. IsFiniteSet(Places)
        BY <3>2, VfsAssumption, FS_Product DEF Places
      <3> QED
        BY <3>1, <3>3, FS_Subset
    <2>5. PICK f : f = [l \in Named(d) |-> entries[d][l].cluster]
      OBVIOUS
    <2>6. f \in Bijection(Named(d), Chains(d))
      <3>1. f \in [Named(d) -> Chains(d)]
        BY <2>2, <2>5
      <3>2. \A l, m \in Named(d) : f[l] = f[m] => l = m
        BY <2>1, <2>5 DEF OneByOne
      <3>3. \A c \in Chains(d) : \E l \in Named(d) : f[l] = c
        BY <2>3, <2>5
      <3> QED
        BY <3>1, <3>2, <3>3 DEF Bijection, Injection, Surjection, IsInjective
    <2>7. Cardinality(Chains(d)) = Cardinality(Named(d))
      BY <2>4, <2>6, FS_Bijection DEF ExistsBijection
    <2> QED
      BY <2>1, <2>2, <2>3, <2>7 DEF OneByOne
  <1> QED
    BY <1>2, <1>3, TypesHold, PTL
=============================================================================
