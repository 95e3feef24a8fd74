------------------------------ MODULE FatChain ------------------------------
(***************************************************************************)
(* Cluster chains of fs/fat32.c: creating a file, writing to it and        *)
(* removing it, down to the single accesses to the table, each of which    *)
(* may evict a dirty sector from the cache of module FatCache.             *)
(*                                                                         *)
(* The data of a cluster is reduced to whose it is, a directory to the     *)
(* first cluster of each of its files.  One call runs at a time, as in the *)
(* kernel; what a call can meet is a transfer that fails or a power cut.   *)
(***************************************************************************)
EXTENDS FatCache

CONSTANTS
    Names,          \* the files of the one directory
    LastCluster     \* the last cluster the device has a sector for

ASSUME ChainAssumption ==
    /\ LastCluster \in Nat
    /\ Stored = Values
    /\ NumSectors * EntriesPerSector >= 3
    /\ Names \cap {"zero", "junk", "nobody", "limbo"} = {}
    /\ \A d \in Disks : d[SectorOf(2)][OffsetOf(2)] # 0    \* the directory's cluster

VARIABLES
    dir,        \* on disk: file |-> first cluster of its entry, 0 if none
    contents,   \* on disk: cluster |-> the file whose bytes it holds, "zero", "junk"
    pc,         \* where the call under way is
    op,         \* the call under way: "create", "write", "remove", "none"
    file,       \* the file it is about
    cluster,    \* current_cluster of the walk along a chain
    following,  \* next_cluster, in delete_fat_chain
    tail,       \* end_of_cluster, in allocate_cluster; 0 for a first cluster
    candidate,  \* i in find_empty_cluster, then new_cluster
    faulted     \* ghost: the code went on after a failure as after a success

storeVars == <<dir, contents>>
localVars == <<pc, op, file, cluster, following, tail, candidate>>
chainVars == <<storeVars, localVars>>
vars == <<cacheVars, chainVars, faulted>>

LastEntry == NumSectors * EntriesPerSector - 1
IsLink(v) == v >= 2 /\ v < EndOfChain

ChainInit ==
    /\ CacheInit
    /\ dir = [n \in Names |-> 0]
    /\ contents = [c \in Entries |-> "junk"]
    /\ pc = "idle"
    /\ op = "none"
    /\ file \in Names
    /\ cluster = 0
    /\ following = 0
    /\ tail = 0
    /\ candidate = 0
    /\ faulted = FALSE

-----------------------------------------------------------------------------
(* Access to the table.  get_next_cluster and delete_fat_chain go on with  *)
(* whatever the buffer holds when the load fails; change_fat does not.     *)
(* Where a walk that such a failure led out of the table goes is not       *)
(* followed.                                                               *)

Wanted ==
    IF pc \in {"scan", "term"} THEN candidate
    ELSE IF pc = "link" THEN tail
    ELSE cluster

NeedsEntry == pc \in {"scan", "link", "term", "next", "free", "mark"}

Hit == phase = "ready" /\ Cached(SectorOf(Wanted))
LoadFailed == phase = "ready" /\ ~Cached(SectorOf(Wanted)) /\ result = "error"

Fetch ==
    /\ NeedsEntry
    /\ result = "ok"
    /\ pc = "free" => IsLink(cluster)
    /\ Wanted \in Entries
    /\ Load(SectorOf(Wanted))
    /\ UNCHANGED <<chainVars, faulted>>

Got == Hit \/ LoadFailed
Entry == buffer[OffsetOf(Wanted)]

(* Nothing looks at the result of the load or save a step comes after. *)
Ignored == faulted' = (faulted \/ (pc # "idle" /\ result = "error"))

(* a step that looks at the table and writes nothing to it *)
Looked ==
    /\ result' = "ok"
    /\ Ignored
    /\ UNCHANGED <<diskVars, bufferVars, phase, target, faultVars>>

-----------------------------------------------------------------------------
(* allocate_cluster *)

AllocateFrom(t) ==
    /\ pc' = "scan"
    /\ tail' = t
    /\ candidate' = 2

(* The call returns; its locals are gone. *)
CallReturns ==
    /\ pc' = "idle"
    /\ op' = "none"
    /\ cluster' = 0
    /\ following' = 0
    /\ tail' = 0
    /\ candidate' = 0
    /\ UNCHANGED file

(* allocate_cluster returns 0: a file is not created, a write ends *)
AllocateFails ==
    IF op = "create" THEN CallReturns
    ELSE pc' = "flush" /\ UNCHANGED <<op, file, cluster, following, tail, candidate>>

(* allocate_cluster returns the new cluster, whatever change_fat returned *)
AllocateReturns ==
    /\ pc' = IF op = "create" THEN "entry" ELSE "visit"
    /\ cluster' = candidate

ScanNextOneTooFar ==
    /\ pc = "scan"
    /\ Got
    /\ Entry # 0
    /\ candidate <= LastEntry
    /\ candidate' = candidate + 1
    /\ Looked
    /\ UNCHANGED <<storeVars, pc, op, file, cluster, following, tail>>

ScanNext ==
    /\ pc = "scan"
    /\ Got
    /\ Entry # 0
    /\ candidate < LastEntry
    /\ candidate' = candidate + 1
    /\ Looked
    /\ UNCHANGED <<storeVars, pc, op, file, cluster, following, tail>>

ScanFull ==
    /\ pc = "scan"
    /\ Got
    /\ Entry # 0
    /\ candidate = LastEntry
    /\ AllocateFails
    /\ Looked
    /\ UNCHANGED storeVars

ScanHitTakesAny ==
    /\ pc = "scan"
    /\ Got
    /\ pc' = "zero"
    /\ Looked
    /\ UNCHANGED <<storeVars, op, file, cluster, following, tail, candidate>>

ScanHit ==
    /\ pc = "scan"
    /\ Got
    /\ Entry = 0
    /\ pc' = "zero"
    /\ Looked
    /\ UNCHANGED <<storeVars, op, file, cluster, following, tail, candidate>>

(* write_cluster of zeroes, before anything refers to the cluster *)
ZeroForgotten ==
    /\ pc = "zero"
    /\ candidate <= LastCluster
    /\ tail' = IF tail = 0 THEN candidate ELSE tail
    /\ pc' = "link"
    /\ UNCHANGED <<cacheVars, faulted, storeVars, op, file, cluster, following, candidate>>

Zero ==
    /\ pc = "zero"
    /\ candidate <= LastCluster
    /\ contents' = [contents EXCEPT ![candidate] = "zero"]
    /\ tail' = IF tail = 0 THEN candidate ELSE tail
    /\ pc' = "link"
    /\ UNCHANGED <<cacheVars, faulted, dir, op, file, cluster, following, candidate>>

(* the device refuses: there is no such sector, or the transfer fails *)
ZeroFails ==
    /\ pc = "zero"
    /\ \/ candidate > LastCluster /\ UNCHANGED failures
       \/ MayFail("zero") /\ failures' = failures + 1
    /\ AllocateFails
    /\ UNCHANGED <<diskVars, bufferVars, callVars, powerCuts, torn, storeVars, faulted>>

(* change_fat *)
Link ==
    /\ pc = "link"
    /\ Hit
    /\ Put(tail, candidate)
    /\ pc' = "term"
    /\ UNCHANGED <<storeVars, faulted, op, file, cluster, following, tail, candidate>>

Terminate ==
    /\ pc = "term"
    /\ Hit
    /\ Put(candidate, EndOfChain)
    /\ pc' = "sync"
    /\ UNCHANGED <<storeVars, faulted, op, file, cluster, following, tail, candidate>>

ChangeFails ==
    /\ pc \in {"link", "term"}
    /\ LoadFailed
    /\ AllocateReturns
    /\ Looked
    /\ UNCHANGED <<storeVars, op, file, following, tail, candidate>>

SyncSkipped ==
    /\ pc = "sync"
    /\ pc' = "synced"
    /\ UNCHANGED <<cacheVars, faulted, storeVars, op, file, cluster, following, tail, candidate>>

Sync ==
    /\ pc = "sync"
    /\ Save
    /\ pc' = "synced"
    /\ UNCHANGED <<storeVars, faulted, op, file, cluster, following, tail, candidate>>

Synced ==
    /\ pc = "synced"
    /\ phase = "ready"
    /\ AllocateReturns
    /\ Looked
    /\ UNCHANGED <<storeVars, op, file, following, tail, candidate>>

-----------------------------------------------------------------------------
(* fat32_open_file with O_CREAT: initialize_node *)

Create(n) ==
    /\ pc = "idle" /\ phase = "ready"
    /\ dir[n] = 0
    /\ op' = "create"
    /\ file' = n
    /\ AllocateFrom(0)
    /\ Looked
    /\ UNCHANGED <<storeVars, cluster, following>>

(* save_descriptor, with the first cluster in it *)
WriteEntry ==
    /\ pc = "entry"
    /\ dir' = [dir EXCEPT ![file] = candidate]
    /\ pc' = "flush"
    /\ UNCHANGED <<cacheVars, faulted, contents, op, file, cluster, following, tail, candidate>>

WriteEntryFails ==
    /\ pc = "entry"
    /\ MayFail("entry")
    /\ failures' = failures + 1
    /\ CallReturns
    /\ UNCHANGED <<diskVars, bufferVars, callVars, powerCuts, torn, storeVars, faulted>>

(* save_current_fat at the end of a call *)
Flush ==
    /\ pc = "flush"
    /\ phase = "ready"
    /\ NeedsSave
    /\ Save
    /\ pc' = "flushed"
    /\ UNCHANGED <<storeVars, faulted, op, file, cluster, following, tail, candidate>>

FinishWithoutSave ==
    /\ pc \in {"flush", "flushed"}
    /\ phase = "ready"
    /\ CallReturns
    /\ Looked
    /\ UNCHANGED storeVars

Finish ==
    /\ \/ pc = "flush" /\ ~NeedsSave
       \/ pc = "flushed"
    /\ phase = "ready"
    /\ CallReturns
    /\ Looked
    /\ UNCHANGED storeVars

-----------------------------------------------------------------------------
(* fat32_write_file: write_bytes_in_file and traverse_fat_coroutine.  The  *)
(* size of the file is not modelled, so neither is what save_descriptor    *)
(* changes at the end of a write.                                          *)

WriteFile(n) ==
    /\ pc = "idle" /\ phase = "ready"
    /\ dir[n] # 0
    /\ op' = "write"
    /\ file' = n
    /\ cluster' = dir[n]
    /\ pc' \in {"visit", "flush"}      \* flush: no byte to write
    /\ Looked
    /\ UNCHANGED <<storeVars, following, tail, candidate>>

(* The bytes of the cluster are the caller's now, or, before the offset of *)
(* the descriptor is reached or when the device fails, what they were.     *)
Visit ==
    /\ pc = "visit"
    /\ \/ contents' = [contents EXCEPT ![cluster] = file]
       \/ UNCHANGED contents
    /\ pc' = "next"
    /\ UNCHANGED <<cacheVars, faulted, dir, op, file, cluster, following, tail, candidate>>

(* the last byte was in this cluster, or the chain has been cut off *)
NextStop ==
    /\ pc = "next"
    /\ Got
    /\ pc' = "flush"
    /\ Looked
    /\ UNCHANGED <<storeVars, op, file, cluster, following, tail, candidate>>

NextFollow ==
    /\ pc = "next"
    /\ Got
    /\ IsLink(Entry)
    /\ cluster' = Entry
    /\ pc' = "visit"
    /\ Looked
    /\ UNCHANGED <<storeVars, op, file, following, tail, candidate>>

NextAllocate ==
    /\ pc = "next"
    /\ Got
    /\ Entry >= EndOfChain
    /\ AllocateFrom(cluster)
    /\ Looked
    /\ UNCHANGED <<storeVars, op, file, cluster, following>>

-----------------------------------------------------------------------------
(* fat32_remove_file and delete_fat_chain *)

Remove(n) ==
    /\ pc = "idle" /\ phase = "ready"
    /\ dir[n] # 0
    /\ op' = "remove"
    /\ file' = n
    /\ cluster' = dir[n]
    /\ pc' = "unlink"
    /\ Looked
    /\ UNCHANGED <<storeVars, following, tail, candidate>>

(* save_descriptor, marked as deleted; its result is not looked at *)
UnlinkKeepsChain ==
    /\ pc = "unlink"
    /\ dir' = [dir EXCEPT ![file] = 0]
    /\ pc' = "flush"
    /\ UNCHANGED <<cacheVars, faulted, contents, op, file, cluster, following, tail, candidate>>

Unlink ==
    /\ pc = "unlink"
    /\ dir' = [dir EXCEPT ![file] = 0]
    /\ pc' = "free"
    /\ UNCHANGED <<cacheVars, faulted, contents, op, file, cluster, following, tail, candidate>>

UnlinkFails ==
    /\ pc = "unlink"
    /\ MayFail("unlink")
    /\ failures' = failures + 1
    /\ faulted' = TRUE
    /\ pc' = "free"
    /\ UNCHANGED <<diskVars, bufferVars, callVars, powerCuts, torn,
                   storeVars, op, file, cluster, following, tail, candidate>>

FreeNext ==
    /\ pc = "free"
    /\ IsLink(cluster)
    /\ Got
    /\ following' = Entry
    /\ pc' = "mark"
    /\ Looked
    /\ UNCHANGED <<storeVars, op, file, cluster, tail, candidate>>

MarkStays ==
    /\ pc = "mark"
    /\ Got
    /\ Put(cluster, 0)
    /\ Ignored
    /\ pc' = "free"
    /\ UNCHANGED <<storeVars, op, file, cluster, following, tail, candidate>>

Mark ==
    /\ pc = "mark"
    /\ Got
    /\ Put(cluster, 0)
    /\ Ignored
    /\ cluster' = following
    /\ pc' = "free"
    /\ UNCHANGED <<storeVars, op, file, following, tail, candidate>>

FreeDone ==
    /\ pc = "free"
    /\ ~IsLink(cluster)
    /\ pc' = "flush"
    /\ UNCHANGED <<cacheVars, faulted, storeVars, op, file, cluster, following, tail, candidate>>

-----------------------------------------------------------------------------
(* Reading a file or a directory walks its chain and loads.  A read that   *)
(* goes on behind the chain allocates as well (is_allocating is 1 in       *)
(* read_bytes_from_file); those steps are the ones of WriteFile.           *)
Lookup ==
    /\ pc = "idle"
    /\ \E s \in Sectors :
           Load(s) \/ (phase = "ready" /\ Cached(s) /\ UNCHANGED cacheVars)
    /\ UNCHANGED <<chainVars, faulted>>

Crash ==
    /\ PowerCut
    /\ CallReturns
    /\ UNCHANGED <<storeVars, faulted>>

(* What becomes of a volume in further calls once a failure was ignored is *)
(* not followed.                                                           *)
Call == ~faulted /\ \E n \in Names : Create(n) \/ WriteFile(n) \/ Remove(n)

Run ==
    \/ Fetch
    \/ Transfer /\ UNCHANGED <<chainVars, faulted>>
    \/ ScanNext \/ ScanFull \/ ScanHit \/ Zero \/ ZeroFails
    \/ Link \/ Terminate \/ ChangeFails \/ Sync \/ Synced
    \/ WriteEntry \/ WriteEntryFails \/ Flush \/ Finish
    \/ Visit \/ NextStop \/ NextFollow \/ NextAllocate
    \/ Unlink \/ UnlinkFails \/ FreeNext \/ Mark \/ FreeDone

Next == Call \/ Lookup \/ Run \/ Crash

Spec == ChainInit /\ [][Next]_vars

(* A call runs on, on the one thread there is, until it returns. *)
FairSpec == Spec /\ WF_vars(Run)

-----------------------------------------------------------------------------
(* Properties *)

TypeOK ==
    /\ CacheTypeOK
    /\ dir \in [Names -> Entries]
    /\ contents \in [Entries -> Names \cup {"zero", "junk"}]
    /\ pc \in {"idle", "scan", "zero", "link", "term", "sync", "synced", "entry",
               "flush", "flushed", "visit", "next", "unlink", "free", "mark"}
    /\ op \in {"none", "create", "write", "remove"}
    /\ file \in Names
    /\ cluster \in Values
    /\ following \in Values
    /\ tail \in Entries
    /\ candidate \in Entries
    /\ faulted \in BOOLEAN

(* the clusters reached from c along the links of table t *)
ChainOf(t, c) ==
    LET within[k \in 0 .. LastEntry] ==
            [d \in Entries |->
                {d} \cup (IF k > 0 /\ IsLink(t[d]) THEN within[k - 1][t[d]] ELSE {})]
    IN  IF c = 0 THEN {} ELSE within[LastEntry][c]

FileClusters(n) == ChainOf(Table, dir[n])

Data == 3 .. LastEntry      \* cluster 2 is the directory

Owner ==
    LET has == [n \in Names |-> FileClusters(n)]
        t   == Table
    IN  [c \in Data |->
            IF \E n \in Names : c \in has[n]
            THEN CHOOSE n \in Names : c \in has[n]
            ELSE IF t[c] = 0 THEN "nobody" ELSE "limbo"]

(* Clusters go from free to one file and from the whole file back to free, *)
(* whatever is evicted from the cache on the way.                          *)
Owners == INSTANCE FatOwners WITH
    owner <- Owner, Files <- Names, Nobody <- "nobody", Limbo <- "limbo",
    restarts <- powerCuts, damaged <- faulted

ImplementsOwners == Owners!OwnersSpec

(* No two files share a cluster and none owns the directory's, as long as  *)
(* no failure was ignored.                                                 *)
NoCrossLink == ~faulted =>
    /\ \A m, n \in Names : m # n => FileClusters(m) \cap FileClusters(n) = {}
    /\ \A n \in Names : FileClusters(n) \subseteq Data

(* allocate_cluster zeroes a cluster before anything refers to it, so a    *)
(* file never reads bytes some other file left behind.                     *)
NoStaleBytes == ~faulted =>
    \A n \in Names : \A c \in FileClusters(n) : contents[c] \in {"zero", n}

(* Between calls every allocated cluster belongs to a file: neither a      *)
(* write, nor a failed allocation, nor a removal loses one.                *)
NoLeak ==
    pc = "idle" /\ failures = 0 /\ powerCuts = 0 =>
        \A c \in Data : Owner[c] # "limbo"

(* When a call has returned, what it did to the table is on the disk,      *)
(* unless a transfer failed that the code does not look at.                *)
DurableWhenIdle == pc = "idle" /\ ~faulted => Table = Durable

(* What a restart at this moment would find: every entry of the directory  *)
(* names an allocated cluster, files share nothing, and at most one link,  *)
(* that of the chain being extended, leads to a free cluster.              *)
DiskChain(n) == ChainOf(Durable, dir[n])

RestartFindsFiles == ~faulted =>
    /\ \A n \in Names : dir[n] # 0 => Durable[dir[n]] # 0
    /\ \A m, n \in Names : m # n => DiskChain(m) \cap DiskChain(n) = {}
    /\ \A m, n \in Names : \A c \in DiskChain(m), d \in DiskChain(n) :
           Durable[c] = 0 /\ Durable[d] = 0 => c = d /\ op = "write" /\ m = file

(* Every call returns: no walk along a chain goes round in a circle, a     *)
(* walk over a sector that could not be loaded excepted.                   *)
CallsReturn == pc # "idle" ~> pc = "idle" \/ faulted
=============================================================================
