------------------------------ MODULE FatCache ------------------------------
(***************************************************************************)
(* The write-back cache of fs/fat32.c: one sector of the file allocation   *)
(* table is kept in memory (FAT32_PARTITION.buffer) and is written to both *)
(* copies of the table on the disk before another one is read.             *)
(*                                                                         *)
(* save_current_fat and load_fat_sector are run transfer by transfer:      *)
(* phase is the transfer that comes next, and each one may fail or the     *)
(* power may go before it.  A transfer of one sector happens or does not.  *)
(***************************************************************************)
EXTENDS Integers

CONSTANTS
    NumSectors,         \* sectors_per_fat
    EntriesPerSector,   \* 128 in the code
    EndOfChain,         \* 0xFFFFFFF in the code
    Stored,             \* what the callers of the cache write to an entry
    Disks,              \* contents of the table a volume may come with
    Garbage,            \* contents the memory of a new buffer may have
    Failing,            \* transfers that may fail: "write1", "write2", "read"
    MaxFailures,        \* bound: transfers that fail
    MaxPowerCuts        \* bound: power cuts

Sectors == 0 .. NumSectors - 1
Offsets == 0 .. EntriesPerSector - 1
Entries == 0 .. NumSectors * EntriesPerSector - 1
Values  == 0 .. EndOfChain

ASSUME CacheAssumption ==
    /\ NumSectors \in Nat \ {0}
    /\ EntriesPerSector \in Nat \ {0}
    /\ EndOfChain \in Nat
    /\ EndOfChain >= NumSectors * EntriesPerSector
    /\ Stored \subseteq Values
    /\ Disks \subseteq [Sectors -> [Offsets -> Values]]
    /\ Garbage \subseteq [Offsets -> Values]
    /\ MaxFailures \in Nat
    /\ MaxPowerCuts \in Nat

None == -1

VARIABLES
    fat1,               \* the first copy of the table, on the disk
    fat2,               \* the second one
    buffer,             \* FAT32_PARTITION.buffer
    current_sector,     \* ... .current_sector, uninitialised before a load
    buffer_loaded,      \* ... .buffer_loaded
    buffer_changed,     \* ... .buffer_changed
    phase,              \* the next transfer, or "ready"
    target,             \* the sector load_fat_sector is to read, or None
    result,             \* what the last call of the two returned
    failures,           \* transfers that have failed
    powerCuts,          \* power cuts so far
    torn                \* ghost: a save stopped between its two writes

diskVars   == <<fat1, fat2>>
bufferVars == <<buffer, current_sector, buffer_loaded, buffer_changed>>
callVars   == <<phase, target, result>>
faultVars  == <<failures, powerCuts, torn>>
cacheVars  == <<diskVars, bufferVars, callVars, faultVars>>

(* calculate_fat_position *)
SectorOf(c) == c \div EntriesPerSector
OffsetOf(c) == c % EntriesPerSector

(* the early return of load_fat_sector *)
Cached(s) == current_sector = s /\ buffer_loaded

MayFail(transfer) == transfer \in Failing /\ failures < MaxFailures

-----------------------------------------------------------------------------
CacheInit ==
    /\ fat1 \in Disks
    /\ fat2 = fat1
    /\ buffer \in Garbage
    /\ current_sector \in Sectors
    /\ buffer_loaded = FALSE
    /\ buffer_changed = FALSE
    /\ phase = "ready"
    /\ target = None
    /\ result = "ok"
    /\ failures = 0
    /\ powerCuts = 0
    /\ torn = FALSE

NeedsSave == buffer_changed /\ buffer_loaded

(* load_fat_sector, past the early return *)
LoadIgnoresDirty(s) ==
    /\ phase = "ready"
    /\ ~Cached(s)
    /\ target' = s
    /\ phase' = "read"
    /\ UNCHANGED <<diskVars, bufferVars, result, faultVars>>

Load(s) ==
    /\ phase = "ready"
    /\ ~Cached(s)
    /\ target' = s
    /\ phase' = IF NeedsSave THEN "write1" ELSE "read"
    /\ UNCHANGED <<diskVars, bufferVars, result, faultVars>>

(* save_current_fat, called by itself *)
Save ==
    /\ phase = "ready"
    /\ NeedsSave
    /\ target' = None
    /\ phase' = "write1"
    /\ UNCHANGED <<diskVars, bufferVars, result, faultVars>>

(* the caller sees the result of Load or Save *)
Return(r) ==
    /\ phase' = "ready"
    /\ target' = None
    /\ result' = r

WriteFirst ==
    /\ phase = "write1"
    /\ fat1' = [fat1 EXCEPT ![current_sector] = buffer]
    /\ phase' = "write2"
    /\ UNCHANGED <<fat2, bufferVars, target, result, faultVars>>

(* the sector stays dirty *)
WriteFirstFails ==
    /\ phase = "write1"
    /\ MayFail("write1")
    /\ failures' = failures + 1
    /\ Return("error")
    /\ UNCHANGED <<diskVars, bufferVars, powerCuts, torn>>

WriteSecondToFirst ==
    /\ phase = "write2"
    /\ fat1' = [fat1 EXCEPT ![current_sector] = buffer]
    /\ buffer_changed' = FALSE
    /\ IF target = None
       THEN Return("ok")
       ELSE phase' = "read" /\ UNCHANGED <<target, result>>
    /\ UNCHANGED <<fat2, buffer, current_sector, buffer_loaded, faultVars>>

WriteSecond ==
    /\ phase = "write2"
    /\ fat2' = [fat2 EXCEPT ![current_sector] = buffer]
    /\ buffer_changed' = FALSE
    /\ IF target = None
       THEN Return("ok")
       ELSE phase' = "read" /\ UNCHANGED <<target, result>>
    /\ UNCHANGED <<fat1, buffer, current_sector, buffer_loaded, faultVars>>

(* the sector is clean all the same, and load_fat_sector gives up *)
WriteSecondFails ==
    /\ phase = "write2"
    /\ MayFail("write2")
    /\ failures' = failures + 1
    /\ torn' = TRUE
    /\ buffer_changed' = FALSE
    /\ Return("error")
    /\ UNCHANGED <<diskVars, buffer, current_sector, buffer_loaded, powerCuts>>

Read ==
    /\ phase = "read"
    /\ buffer' = fat1[target]
    /\ buffer_loaded' = TRUE
    /\ current_sector' = target
    /\ Return("ok")
    /\ UNCHANGED <<diskVars, buffer_changed, faultVars>>

ReadFails ==
    /\ phase = "read"
    /\ MayFail("read")
    /\ failures' = failures + 1
    /\ Return("error")
    /\ UNCHANGED <<diskVars, bufferVars, powerCuts, torn>>

Transfer ==
    \/ WriteFirst \/ WriteSecond \/ Read
    \/ WriteFirstFails \/ WriteSecondFails \/ ReadFails

(* buffer[offset] = v; buffer_changed = 1, as every caller of the cache    *)
(* writes an entry: whichever sector the buffer holds                      *)
PutForgetsDirty(c, v) ==
    /\ phase = "ready"
    /\ buffer' = [buffer EXCEPT ![OffsetOf(c)] = v]
    /\ UNCHANGED <<diskVars, current_sector, buffer_loaded, buffer_changed,
                   phase, target, faultVars>>
    /\ result' = "ok"

Put(c, v) ==
    /\ phase = "ready"
    /\ buffer' = [buffer EXCEPT ![OffsetOf(c)] = v]
    /\ buffer_changed' = TRUE
    /\ result' = "ok"
    /\ UNCHANGED <<diskVars, current_sector, buffer_loaded, phase, target, faultVars>>

(* find_partition and init_partition after a restart *)
PowerCut ==
    /\ powerCuts < MaxPowerCuts
    /\ powerCuts' = powerCuts + 1
    /\ torn' = (torn \/ phase = "write2")
    /\ buffer' \in Garbage
    /\ current_sector' \in Sectors
    /\ buffer_loaded' = FALSE
    /\ buffer_changed' = FALSE
    /\ phase' = "ready"
    /\ target' = None
    /\ result' = "ok"
    /\ UNCHANGED <<diskVars, failures>>

-----------------------------------------------------------------------------
(* The cache under the callers that look at the result of a load before    *)
(* they write, as change_fat does.                                         *)

CacheNext ==
    \/ \E s \in Sectors : Load(s)
    \/ Save
    \/ Transfer
    \/ \E c \in Entries, v \in Stored : Cached(SectorOf(c)) /\ Put(c, v)
    \/ PowerCut

CacheSpec == CacheInit /\ [][CacheNext]_cacheVars

-----------------------------------------------------------------------------
(* Properties *)

CacheTypeOK ==
    /\ fat1 \in [Sectors -> [Offsets -> Values]]
    /\ fat2 \in [Sectors -> [Offsets -> Values]]
    /\ buffer \in [Offsets -> Values]
    /\ current_sector \in Sectors
    /\ buffer_loaded \in BOOLEAN
    /\ buffer_changed \in BOOLEAN
    /\ phase \in {"ready", "write1", "write2", "read"}
    /\ target \in Sectors \cup {None}
    /\ phase = "read" => target # None
    /\ result \in {"ok", "error"}
    /\ failures \in 0 .. MaxFailures
    /\ powerCuts \in 0 .. MaxPowerCuts
    /\ torn \in BOOLEAN

(* A buffer that is not dirty is the sector it stands for, so dropping it  *)
(* loses nothing; and no sector is read over a dirty buffer.               *)
CleanBufferOnDisk ==
    /\ buffer_loaded /\ ~buffer_changed => buffer = fat1[current_sector]
    /\ phase = "write2" => buffer = fat1[current_sector]
    /\ phase = "read" => ~(buffer_loaded /\ buffer_changed)

(* The two copies of the table on the disk are equal unless a save is      *)
(* between its two writes, or once stopped there.                          *)
CopiesAgree ==
    ~torn =>
        \A s \in Sectors :
            fat1[s] = fat2[s] \/ (phase = "write2" /\ s = current_sector)

(* The table as the driver reads it: the buffer in front of the disk. *)
Table == [c \in Entries |->
             IF Cached(SectorOf(c)) THEN buffer[OffsetOf(c)]
             ELSE fat1[SectorOf(c)][OffsetOf(c)]]

Durable == [c \in Entries |-> fat1[SectorOf(c)][OffsetOf(c)]]

(* Loads and saves are invisible, an entry that is written is the only one *)
(* that changes, and a restart finds the table of one past moment: at most *)
(* one sector is dirty at any time.                                        *)
Array == INSTANCE FatTable WITH
    table <- Table, durable <- Durable, restarts <- powerCuts

ImplementsFatTable == Array!TableSpec
=============================================================================
