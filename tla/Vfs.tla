-------------------------------- MODULE Vfs --------------------------------
(***************************************************************************)
(* fs/vfs.c: the tables of devices and partitions, filled by ata_init and   *)
(* fat32_find_partition, and the calls that go through a drive letter or    *)
(* through an open node to the methods of a partition.                     *)
(*                                                                         *)
(* Each partition has a FAT32_PARTITION with a copy of the table of its    *)
(* disk (buffer; the table is one sector here), written through at the end *)
(* of every call and not read again.  What the methods do to one disk is   *)
(* the subject of FatChain, Fat32Dir and Fat32File; here a call is one     *)
(* step, the table says of each cluster to which chain it belongs, and an  *)
(* entry of a directory is a first cluster and a type.  Entries are told   *)
(* apart by their place and not by name: a path leads to any place of any  *)
(* directory.  Calls that change none of this (a letter without partition, *)
(* a path without a slash, a missing method, lseek, make_file and rmv_dir, *)
(* whose methods are empty) are not steps.                                 *)
(***************************************************************************)
EXTENDS Integers, Sequences, FiniteSets

CONSTANTS
    Clusters,       \* without that of the root
    Slots,          \* the entries that a directory has room for
    Letters, Handles, NoEntry, NoNode, Unset

Drives   == {0, 1}      \* master, slave
MaxParts == 16          \* the length of partitions
Types    == {"file", "dir"}
Root     == 2           \* the cluster of the root directory

Homes  == {Root} \cup Clusters
Places == Homes \X Slots

ASSUME VfsAssumption ==
    /\ Clusters \subseteq Nat \ {0, Root}
    /\ IsFiniteSet(Clusters) /\ IsFiniteSet(Slots)
    /\ NoEntry \notin [cluster : Clusters, type : Types]
    /\ Unset \notin Nat

VARIABLES
    answers,    \* the drives identify_ata accepts
    boot,       \* whether each can be read and starts with a FAT32 boot record
    table,      \* on each disk, the first cluster of the chain a cluster is in
    entries,    \* what is at the places of its directories
    pc,         \* the next step of ata_init, "ready", or "astray"
    device,     \* the local variable of ata_init
    virtual_devices, partitions,
    node        \* the open nodes

disks == <<answers, boot, table, entries>>
vars  == <<disks, pc, device, virtual_devices, partitions, node>>

AllFree == [c \in Clusters |-> 0]

Least(S) == CHOOSE i \in S : \A j \in S : i <= j

DriveOf(p) == virtual_devices[partitions[p].device]

Init ==
    /\ answers \in SUBSET Drives
    /\ boot \in [Drives -> {"fat32", "other"}]
    /\ table = [d \in Drives |-> AllFree]
    /\ entries = [d \in Drives |-> [l \in Places |-> NoEntry]]
    /\ pc = "master"
    /\ device = Unset
    /\ virtual_devices = <<>> /\ partitions = <<>>
    /\ node = [h \in Handles |-> NoNode]

-----------------------------------------------------------------------------
(* ata_init *)

RegisteredTooFar == Len(virtual_devices) + 2

Registered == Len(virtual_devices) + 1

Probe(d, from, to) ==
    /\ pc = from
    /\ pc' = to
    /\ IF d \in answers
       THEN /\ virtual_devices' = Append(virtual_devices, d)
            /\ device' = Registered
       ELSE UNCHANGED <<virtual_devices, device>>
    /\ UNCHANGED <<disks, partitions, node>>

(* A pointer that was never set is null by chance, and the read refused,   *)
(* or leads anywhere; a device that was not filled in has no read method.  *)
FindNothing(from, to) ==
    /\ pc = from
    /\ \/ pc' = to
       \/ device = Unset /\ pc' = "astray"
    /\ device \in DOMAIN virtual_devices => boot[virtual_devices[device]] # "fat32"
    /\ UNCHANGED <<disks, device, virtual_devices, partitions, node>>

FindVolume(from, to) ==
    /\ pc = from
    /\ pc' = to
    /\ device \in DOMAIN virtual_devices
    /\ boot[virtual_devices[device]] = "fat32"
    /\ partitions' = Append(partitions,
           [device |-> device, loaded |-> FALSE, view |-> AllFree])
    /\ UNCHANGED <<disks, device, virtual_devices, node>>

AtaInit ==
    \/ Probe(0, "master", "findFirst")
    \/ FindNothing("findFirst", "slave")
    \/ FindVolume("findFirst", "slave")
    \/ Probe(1, "slave", "findSecond")
    \/ FindNothing("findSecond", "ready")
    \/ FindVolume("findSecond", "ready")

-----------------------------------------------------------------------------
(* the methods of FAT32, on partition p *)

Call == pc = "ready" /\ UNCHANGED <<answers, boot, device, virtual_devices>>

View(p) == IF partitions[p].loaded THEN partitions[p].view ELSE table[DriveOf(p)]

KeptOnDiskOnly(p, v) == [partitions EXCEPT ![p].loaded = TRUE, ![p].view = View(p)]

Kept(p, v) == [partitions EXCEPT ![p].loaded = TRUE, ![p].view = v]

Written(p, v) ==
    /\ partitions' = Kept(p, v)
    /\ table' = [table EXCEPT ![DriveOf(p)] = v]

Loaded(p) == partitions' = Kept(p, View(p)) /\ UNCHANGED <<table, entries>>

At(p, l) == entries[DriveOf(p)][l]

Enter(p, l, e) == entries' = [entries EXCEPT ![DriveOf(p)][l] = e]

(* the directories, which names and '..' lead to from each other           *)
Folders(p) ==
    {Root} \cup {c \in Clusters : \E l \in Places : At(p, l) = [cluster |-> c, type |-> "dir"]}

Reached(p) == Folders(p) \X Slots

Free(p) == {c \in Clusters : View(p)[c] = 0}

Owner(p, c) == IF c = Root THEN Root ELSE IF c \in Clusters THEN View(p)[c] ELSE 0

(* allocate_cluster, once for each cluster of S, at the end of a chain; a   *)
(* cluster marked free has no next one to go on with                       *)
MayTake(p, owner, S) ==
    /\ S \subseteq Free(p)
    /\ \A a \in S, b \in Free(p) \ S : a < b
    /\ owner = 0 => S = {}

Taken(p, owner, S) == [c \in Clusters |-> IF c \in S THEN owner ELSE View(p)[c]]

(* initialize_node at a place that is free, after the directory has grown   *)
(* by S if it was full.  The cluster has been zeroed: no entry is in it.   *)
Initialize(p, l, S, c, e) ==
    /\ At(p, l) = NoEntry
    /\ Cardinality(S) <= 1 /\ MayTake(p, Owner(p, l[1]), S)
    /\ Free(p) \ S # {} /\ c = Least(Free(p) \ S)
    /\ Written(p, [Taken(p, Owner(p, l[1]), S) EXCEPT ![c] = c])
    /\ entries' = [entries EXCEPT ![DriveOf(p)] =
           [m \in Places |-> IF m = l THEN e ELSE IF m[1] = c THEN NoEntry ELSE @[m]]]

-----------------------------------------------------------------------------
(* the calls that search a path; what they open is node h                  *)

Open(h, p, l, first, e, methods) ==
    node' = [node EXCEPT ![h] = [partition |-> p, place |-> l, first |-> first,
                                 entry |-> e, methods |-> methods]]

OpenFile(p, l, h) ==
    /\ Call
    /\ At(p, l) # NoEntry /\ At(p, l).type = "file"
    /\ Loaded(p)
    /\ Open(h, p, l, At(p, l).cluster, At(p, l), "file")
    /\ UNCHANGED pc

CreateFile(p, l, h, S, c) ==
    /\ Call
    /\ LET e == [cluster |-> c, type |-> "file"] IN
       Initialize(p, l, S, c, e) /\ Open(h, p, l, c, e, "file")
    /\ UNCHANGED pc

(* Without a cluster for it the file is not entered, yet a node is handed  *)
(* out, with what the free place held (a name that reads as deleted).      *)
CreateWithoutCluster(p, l, h, S, first) ==
    /\ Call
    /\ At(p, l) = NoEntry
    /\ Cardinality(S) <= 1 /\ MayTake(p, Owner(p, l[1]), S)
    /\ Free(p) \ S = {}
    /\ Written(p, Taken(p, Owner(p, l[1]), S))
    /\ Open(h, p, l, first, NoEntry, "file")
    /\ UNCHANGED <<pc, entries>>

(* that it is a directory is not looked at                                 *)
OpenDir(p, l, h) ==
    /\ Call
    /\ At(p, l) # NoEntry
    /\ Loaded(p)
    /\ Open(h, p, l, At(p, l).cluster, At(p, l), "dir")
    /\ UNCHANGED pc

(* Whether there was a cluster is not looked at either: what make_dir then  *)
(* does is in Fat32Dir, here it is called while there is one.              *)
MakeDir(p, l, S, c) ==
    /\ Call
    /\ Initialize(p, l, S, c, [cluster |-> c, type |-> "dir"])
    /\ UNCHANGED <<pc, node>>

RemoveFile(p, l) ==
    /\ Call
    /\ At(p, l) # NoEntry /\ At(p, l).type = "file"
    /\ Written(p, [c \in Clusters |->
           IF View(p)[c] = At(p, l).cluster THEN 0 ELSE View(p)[c]])
    /\ Enter(p, l, NoEntry)
    /\ UNCHANGED <<pc, node>>

(* nothing found, or a directory where a file is asked for; list_dir, too  *)
SearchOnly(p) ==
    /\ Call
    /\ Loaded(p)
    /\ UNCHANGED <<pc, node>>

(* resolve_path takes the bytes of a file on the path, or of the node it    *)
(* starts from, for a directory: what is found and entered there is open   *)
ThroughFile(p) ==
    /\ Call
    /\ \/ \E l \in Places : At(p, l) # NoEntry /\ At(p, l).type = "file"
       \/ \E h \in Handles : /\ node[h] # NoNode /\ node[h].partition = p
                            /\ node[h].entry # NoEntry => node[h].entry.type = "file"
    /\ pc' = "astray"
    /\ Loaded(p)
    /\ UNCHANGED node

OnPath(p) ==
    \/ SearchOnly(p) \/ ThroughFile(p)
    \/ \E l \in Reached(p) :
          \/ RemoveFile(p, l)
          \/ \E h \in Handles : OpenFile(p, l, h) \/ OpenDir(p, l, h)
          \/ \E S \in SUBSET Free(p), c \in Clusters :
                MakeDir(p, l, S, c) \/ \E h \in Handles : CreateFile(p, l, h, S, c)
          \/ \E S \in SUBSET Free(p), h \in Handles, first \in {0} \cup Clusters :
                CreateWithoutCluster(p, l, h, S, first)

(* the partition that the letter leads to                                  *)
ByPath(letter) == letter \in DOMAIN partitions /\ OnPath(letter)

(* the alphabet is longer than the table: the letter is read behind it     *)
BehindTable(letter) ==
    /\ Call
    /\ letter > MaxParts
    /\ pc' = "astray"
    /\ UNCHANGED <<table, entries, partitions, node>>

(* A call that is given a node searches its partition, from its directory  *)
(* or, with a leading slash, from the root.                                *)
Relative(h) == node[h] # NoNode /\ OnPath(node[h].partition)

-----------------------------------------------------------------------------
(* the methods of a node: a directory has none for files, and the other    *)
(* way round; list_dir does not test for it                                *)

FileNode(h) == node[h] # NoNode /\ node[h].methods = "file"

(* a read from behind the end of a chain makes it longer, fat32.c:313      *)
ReadFile(h, S) ==
    /\ Call /\ FileNode(h)
    /\ LET p == node[h].partition
           owner == Owner(p, node[h].first)
       IN MayTake(p, owner, S) /\ Written(p, Taken(p, owner, S))
    /\ UNCHANGED <<pc, entries, node>>

(* the file of node h is not there any more, or never was                  *)
Gone(h) ==
    LET p == node[h].partition IN
    \/ At(p, node[h].place) # node[h].entry
    \/ node[h].entry = NoEntry /\ Owner(p, node[h].first) # 0

WriteFile(h, S) ==
    /\ Call /\ FileNode(h)
    /\ ~Gone(h)
    /\ LET p == node[h].partition
           owner == Owner(p, node[h].first)
       IN /\ MayTake(p, owner, S)
          /\ Written(p, Taken(p, owner, S))
          /\ Enter(p, node[h].place, node[h].entry)
    /\ UNCHANGED <<pc, node>>

(* save_descriptor puts the entry back that remove_file deleted, over what  *)
(* is at its place now, and the bytes go to clusters that are free or      *)
(* another's: what the volume holds is not followed from there.            *)
WriteGone(h, S) ==
    /\ Call /\ FileNode(h)
    /\ Gone(h)
    /\ pc' = "astray"
    /\ LET p == node[h].partition
           owner == Owner(p, node[h].first)
       IN /\ MayTake(p, owner, S)
          /\ Written(p, Taken(p, owner, S))
          /\ Enter(p, node[h].place, node[h].entry)
    /\ UNCHANGED node

ListDir(h) == node[h] # NoNode /\ node[h].methods = "dir" /\ SearchOnly(node[h].partition)

ListFile(h) ==
    /\ Call /\ FileNode(h)
    /\ pc' = "astray"
    /\ UNCHANGED <<table, entries, partitions, node>>

OnNode(h) ==
    \/ ListDir(h) \/ ListFile(h)
    \/ \E S \in SUBSET Clusters : ReadFile(h, S) \/ WriteFile(h, S) \/ WriteGone(h, S)

Next == \/ AtaInit
        \/ \E letter \in Letters : ByPath(letter) \/ BehindTable(letter)
        \/ \E h \in Handles : Relative(h) \/ OnNode(h)

Spec == Init /\ [][Next]_vars

-----------------------------------------------------------------------------
(* When ata_init is through, the letters are the volumes: every FAT32      *)
(* volume on a drive that answers has one, no letter leads to a drive that *)
(* did not answer or has no such volume, and when both drives answer no    *)
(* two letters lead to the same.  (When only the master answers, device    *)
(* still points to it and its volume gets B as well, ata.c:38.)            *)
LettersAreVolumes ==
    pc = "ready" =>
        /\ {DriveOf(p) : p \in DOMAIN partitions} =
               {d \in answers : boot[d] = "fat32"}
        /\ answers = Drives =>
               \A p, q \in DOMAIN partitions : DriveOf(p) = DriveOf(q) => p = q

OneLetterEach ==
    \A p, q \in DOMAIN partitions : DriveOf(p) = DriveOf(q) => p = q

Chains(d) == {table[d][c] : c \in Clusters} \ {0, Root}

(* While each disk has one letter, and so one copy of its table in memory, *)
(* no sequence of calls through letters and through nodes, those of files  *)
(* that have been removed included, gives a cluster to two entries of a    *)
(* disk or leaves one marked that no entry leads to (fat32.c:412 trusts    *)
(* the copy): every chain is that of one entry, and its first cluster is   *)
(* marked.  Up to the write that brings a removed file back, or a path     *)
(* that leads through a file.                                              *)
ClustersMatchNames ==
    OneLetterEach /\ pc # "astray" =>
        \A d \in Drives :
            LET named == {l \in Places : entries[d][l] # NoEntry} IN
            /\ Chains(d) = {entries[d][l].cluster : l \in named}
            /\ Cardinality(Chains(d)) = Cardinality(named)
            /\ \A l \in named : table[d][entries[d][l].cluster] = entries[d][l].cluster
=============================================================================
