--------------------------- MODULE FatChainProofs ---------------------------
(***************************************************************************)
(* Theorems about cluster chains, for every set of files, every size of    *)
(* the table and every content of the volume, whatever transfers fail and  *)
(* wherever the power is cut.                                              *)
(***************************************************************************)
EXTENDS FatChain, WellFoundedInduction, FiniteSetTheorems, TLAPS

(***************************************************************************)
(* First the cache of the table alone, whatever calls are made of it, for  *)
(* every number of sectors and of entries in a sector.                     *)
(***************************************************************************)

(***************************************************************************)
(* calculate_fat_position: the entries of the table are in one-to-one      *)
(* correspondence with the pairs of a sector and an offset.                *)
(***************************************************************************)
LEMMA ProductMonotone ==
    ASSUME NEW n \in Nat, NEW q \in Nat, NEW e \in Nat, n <= q
    PROVE  n * e <= q * e
  <1>1. PICK d \in Nat : q = n + d
    BY q - n \in Nat
  <1>2. d * e \in Nat /\ q * e = n * e + d * e
    BY <1>1
  <1> QED
    BY <1>2

LEMMA Position ==
    ASSUME NEW c \in Entries
    PROVE  /\ SectorOf(c) \in Sectors
           /\ OffsetOf(c) \in Offsets
           /\ c = SectorOf(c) * EntriesPerSector + OffsetOf(c)
  <1>1. c \in Nat /\ EntriesPerSector \in Nat \ {0} /\ NumSectors \in Nat
    BY CacheAssumption DEF Entries
  <1>2. /\ c \div EntriesPerSector \in Nat
        /\ c % EntriesPerSector \in 0 .. EntriesPerSector - 1
        /\ c = EntriesPerSector * (c \div EntriesPerSector) + (c % EntriesPerSector)
    BY <1>1
  <1>3. c < NumSectors * EntriesPerSector
    BY <1>1 DEF Entries
  <1>4. c \div EntriesPerSector < NumSectors
    <2>1. EntriesPerSector * (c \div EntriesPerSector) <= c
      BY <1>1, <1>2
    <2>2. NumSectors <= c \div EntriesPerSector =>
              NumSectors * EntriesPerSector <= (c \div EntriesPerSector) * EntriesPerSector
      BY <1>1, <1>2, ProductMonotone
    <2> QED
      BY <1>1, <1>2, <1>3, <2>1, <2>2
  <1> QED
    BY <1>1, <1>2, <1>4 DEF SectorOf, OffsetOf, Sectors, Offsets

LEMMA PositionInjective ==
    ASSUME NEW c \in Entries, NEW d \in Entries,
           SectorOf(c) = SectorOf(d), OffsetOf(c) = OffsetOf(d)
    PROVE  c = d
  BY Position

-----------------------------------------------------------------------------
(***************************************************************************)
(* The inductive invariant.  What is checked is inductive once the types   *)
(* are known; that a save only ever writes a buffer that was loaded is     *)
(* added for the refinement.                                               *)
(***************************************************************************)
WritesLoaded == phase \in {"write1", "write2"} => buffer_loaded

CInv == CacheTypeOK /\ CleanBufferOnDisk /\ CopiesAgree /\ WritesLoaded

LEMMA InitCInv == CacheInit => CInv
  <1> SUFFICES ASSUME CacheInit PROVE CInv
    OBVIOUS
  <1>1. /\ fat1 \in [Sectors -> [Offsets -> Values]]
        /\ fat2 \in [Sectors -> [Offsets -> Values]]
        /\ buffer \in [Offsets -> Values]
    BY CacheAssumption DEF CacheInit
  <1>2. 0 \in 0 .. MaxFailures /\ 0 \in 0 .. MaxPowerCuts
    BY CacheAssumption
  <1> QED
    BY <1>1, <1>2 DEF CacheInit, CInv, CacheTypeOK, CleanBufferOnDisk, CopiesAgree, WritesLoaded

LEMMA LoadCInv ==
    ASSUME CInv, NEW s \in Sectors, Load(s)
    PROVE  CInv'
  BY DEF Load, CInv, CacheTypeOK, CleanBufferOnDisk, CopiesAgree, WritesLoaded, NeedsSave,
         Cached, None, Sectors, diskVars, bufferVars, faultVars

LEMMA SaveCInv ==
    ASSUME CInv, Save
    PROVE  CInv'
  BY DEF Save, CInv, CacheTypeOK, CleanBufferOnDisk, CopiesAgree, WritesLoaded, NeedsSave,
         None, diskVars, bufferVars, faultVars

LEMMA TransferCInv ==
    ASSUME CInv, Transfer
    PROVE  CInv'
  <1> USE DEF CInv, CacheTypeOK, CleanBufferOnDisk, CopiesAgree, WritesLoaded, Return, MayFail,
              diskVars, bufferVars, faultVars, None
  <1>1. CASE WriteFirst
    BY <1>1 DEF WriteFirst
  <1>2. CASE WriteFirstFails
    BY <1>2, CacheAssumption DEF WriteFirstFails
  <1>3. CASE WriteSecond
    BY <1>3 DEF WriteSecond
  <1>4. CASE WriteSecondFails
    <2>1. failures' \in 0 .. MaxFailures
      BY <1>4, CacheAssumption DEF WriteSecondFails
    <2> QED
      BY <1>4, <2>1 DEF WriteSecondFails
  <1>5. CASE Read
    BY <1>5 DEF Read
  <1>6. CASE ReadFails
    BY <1>6, CacheAssumption DEF ReadFails
  <1> QED
    BY <1>1, <1>2, <1>3, <1>4, <1>5, <1>6 DEF Transfer

LEMMA PutCInv ==
    ASSUME CInv, NEW c \in Nat, NEW v \in Values, Put(c, v)
    PROVE  CInv'
  BY DEF Put, CInv, CacheTypeOK, CleanBufferOnDisk, CopiesAgree,
         WritesLoaded, diskVars, faultVars

LEMMA PowerCutCInv ==
    ASSUME CInv, PowerCut
    PROVE  CInv'
  <1>1. buffer' \in [Offsets -> Values]
    BY CacheAssumption DEF PowerCut
  <1>2. powerCuts' \in 0 .. MaxPowerCuts
    BY CacheAssumption DEF PowerCut, CInv, CacheTypeOK
  <1> QED
    BY <1>1, <1>2 DEF PowerCut, CInv, CacheTypeOK, CleanBufferOnDisk,
       CopiesAgree, WritesLoaded, diskVars

LEMMA StutterCInv ==
    ASSUME CInv, UNCHANGED cacheVars
    PROVE  CInv'
  BY DEF CInv, CacheTypeOK, CleanBufferOnDisk, CopiesAgree, WritesLoaded, cacheVars, diskVars,
         bufferVars, callVars, faultVars

LEMMA CInvHolds == CacheSpec => []CInv
  <1>1. CInv /\ [CacheNext]_cacheVars => CInv'
    <2>1. Entries \subseteq Nat /\ Stored \subseteq Values
      BY CacheAssumption DEF Entries
    <2> QED
      BY <2>1, LoadCInv, SaveCInv, TransferCInv, PutCInv, PowerCutCInv, StutterCInv DEF CacheNext
  <1> QED
    BY <1>1, InitCInv, PTL DEF CacheSpec

(* Every variable of the cache keeps its type. *)
THEOREM CacheTypeCorrect == CacheSpec => []CacheTypeOK
  <1>1. CInv => CacheTypeOK
    BY DEF CInv
  <1> QED
    BY <1>1, CInvHolds, PTL

(* A clean buffer can be dropped, and no dirty one is read over. *)
THEOREM CleanBufferTheorem == CacheSpec => []CleanBufferOnDisk
  <1>1. CInv => CleanBufferOnDisk
    BY DEF CInv
  <1> QED
    BY <1>1, CInvHolds, PTL

(* The two copies agree outside a save, unless one was stopped half-way. *)
THEOREM CopiesAgreeTheorem == CacheSpec => []CopiesAgree
  <1>1. CInv => CopiesAgree
    BY DEF CInv
  <1> QED
    BY <1>1, CInvHolds, PTL

-----------------------------------------------------------------------------
(* Refinement.  Table and Durable differ at most in the entries of         *)
(* current_sector, and there only while the buffer is dirty: so writing    *)
(* that one sector makes the whole table durable.                          *)

LEMMA TableTyped ==
    ASSUME CInv
    PROVE  Table \in [Entries -> Values] /\ Durable \in [Entries -> Values]
  BY Position DEF CInv, CacheTypeOK, Table, Durable, Cached

LEMMA UnseenRefines ==
    ASSUME UNCHANGED <<fat1, buffer, current_sector, buffer_loaded, powerCuts>>
    PROVE  UNCHANGED Array!tableVars
  BY DEF Table, Durable, Cached, Array!tableVars

LEMMA WriteFirstRefines ==
    ASSUME CInv, WriteFirst, buffer_loaded
    PROVE  Array!Persist
  <1>1. /\ fat1' = [fat1 EXCEPT ![current_sector] = buffer]
        /\ UNCHANGED <<buffer, current_sector, buffer_loaded, powerCuts>>
        /\ fat1 \in [Sectors -> [Offsets -> Values]] /\ current_sector \in Sectors
    BY DEF WriteFirst, bufferVars, faultVars, CInv, CacheTypeOK
  <1>2. ASSUME NEW c \in Entries
        PROVE  /\ Table'[c] = Table[c]
               /\ Durable'[c] = Table[c]
    <2>1. SectorOf(c) \in Sectors
      BY Position
    <2>2. CASE SectorOf(c) = current_sector
      BY <1>1, <2>1, <2>2 DEF Table, Durable, Cached
    <2>3. CASE SectorOf(c) # current_sector
      BY <1>1, <2>1, <2>3 DEF Table, Durable, Cached
    <2> QED
      BY <2>2, <2>3
  <1>3. Table' = Table /\ Durable' = Table
    BY <1>2 DEF Table, Durable
  <1> QED
    BY <1>1, <1>3 DEF Array!Persist

LEMMA ReadRefines ==
    ASSUME CInv, Read
    PROVE  UNCHANGED Array!tableVars
  <1>1. /\ buffer' = fat1[target] /\ buffer_loaded' /\ current_sector' = target
        /\ fat1' = fat1 /\ powerCuts' = powerCuts
        /\ buffer_loaded => buffer = fat1[current_sector]
    BY DEF Read, diskVars, faultVars, CInv, CleanBufferOnDisk
  <1>2. ASSUME NEW c \in Entries PROVE Table'[c] = Table[c]
    BY <1>1 DEF Table, Cached
  <1> QED
    BY <1>1, <1>2 DEF Table, Durable, Array!tableVars

LEMMA PutRefines ==
    ASSUME CInv, NEW c \in Entries, NEW v \in Values, Cached(SectorOf(c)), Put(c, v)
    PROVE  Array!Write(c, v)
  <1>1. /\ buffer' = [buffer EXCEPT ![OffsetOf(c)] = v]
        /\ UNCHANGED <<fat1, current_sector, buffer_loaded, powerCuts>>
        /\ buffer \in [Offsets -> Values]
    BY DEF Put, diskVars, faultVars, CInv, CacheTypeOK
  <1>2. ASSUME NEW d \in Entries PROVE Table'[d] = IF d = c THEN v ELSE Table[d]
    <2>1. OffsetOf(d) \in Offsets /\ OffsetOf(c) \in Offsets
      BY Position
    <2>2. d # c /\ SectorOf(d) = SectorOf(c) => OffsetOf(d) # OffsetOf(c)
      BY PositionInjective
    <2> QED
      BY <1>1, <2>1, <2>2 DEF Table, Cached
  <1>3. Durable' = Durable
    BY <1>1 DEF Durable
  <1>4. Table' = [Table EXCEPT ![c] = v]
    BY <1>2 DEF Table
  <1> QED
    BY <1>1, <1>3, <1>4 DEF Array!Write

LEMMA PowerCutRefines ==
    ASSUME PowerCut
    PROVE  Array!PowerLoss
  BY DEF PowerCut, diskVars, Table, Durable, Cached, Array!PowerLoss

(* The cache is an array of entries to its callers, and a power cut leaves *)
(* the array of one past moment: whatever transfers fail.                  *)
THEOREM CacheRefinement == CacheSpec => ImplementsFatTable
  <1>1. CacheInit => Array!TableInit
    <2> SUFFICES ASSUME CacheInit PROVE Array!TableInit
      OBVIOUS
    <2>1. Table \in [Entries -> Values]
      BY InitCInv, TableTyped
    <2>2. Table = Durable
      BY DEF CacheInit, Table, Durable, Cached
    <2> QED
      BY <2>1, <2>2 DEF Array!TableInit, CacheInit
  <1>2. CInv /\ [CacheNext]_cacheVars => [Array!TableNext]_(Array!tableVars)
    <2> SUFFICES ASSUME CInv, [CacheNext]_cacheVars
                 PROVE  Array!TableNext \/ UNCHANGED Array!tableVars
      OBVIOUS
    <2>1. ASSUME NEW s \in Sectors, Load(s) PROVE UNCHANGED Array!tableVars
      BY <2>1, UnseenRefines DEF Load, diskVars, bufferVars, faultVars
    <2>2. CASE Save
      BY <2>2, UnseenRefines DEF Save, diskVars, bufferVars, faultVars
    <2>3. CASE WriteFirst
      BY <2>3, WriteFirstRefines DEF WriteFirst, CInv, WritesLoaded, Array!TableNext
    <2>4. CASE WriteSecond
      BY <2>4, UnseenRefines DEF WriteSecond, faultVars
    <2>5. CASE Read
      BY <2>5, ReadRefines
    <2>6. CASE WriteFirstFails \/ WriteSecondFails \/ ReadFails
      BY <2>6, UnseenRefines
         DEF WriteFirstFails, WriteSecondFails, ReadFails, diskVars, bufferVars
    <2>7. ASSUME NEW c \in Entries, NEW v \in Stored, Cached(SectorOf(c)), Put(c, v)
          PROVE  Array!TableNext
      BY <2>7, PutRefines, CacheAssumption DEF Array!TableNext
    <2>8. CASE PowerCut
      BY <2>8, PowerCutRefines DEF Array!TableNext
    <2>9. CASE UNCHANGED cacheVars
      BY <2>9, UnseenRefines DEF cacheVars, diskVars, bufferVars, faultVars
    <2> QED
      BY <2>1, <2>2, <2>3, <2>4, <2>5, <2>6, <2>7, <2>8, <2>9 DEF CacheNext, Transfer
  <1> QED
    BY <1>1, <1>2, CInvHolds, PTL DEF CacheSpec, ImplementsFatTable, Array!TableSpec

-----------------------------------------------------------------------------

(***************************************************************************)
(* Types.  Only a walk, which follows the numbers it finds in the table,   *)
(* can leave the table, and it does so with a failed load before it; a     *)
(* load under way is of an entry of the table.                             *)
(***************************************************************************)
LocalTypeOK ==
    /\ dir \in [Names -> Entries]
    /\ contents \in [Entries -> Names \cup {"zero", "junk"}]
    /\ pc \in {"idle", "scan", "zero", "link", "term", "sync", "synced", "entry",
               "flush", "flushed", "visit", "next", "unlink", "free", "mark"}
    /\ op \in {"none", "create", "write", "remove"}
    /\ file \in Names
    /\ cluster \in Values
    /\ following \in Values
    /\ tail \in Entries
    /\ candidate \in Entries
    /\ faulted \in BOOLEAN

Settled == phase = "ready" /\ result = "ok"

LoadsInTable ==
    /\ pc \in {"visit", "unlink"} => Settled
    /\ pc \in {"next", "free", "mark"} /\ ~Settled => cluster \in Entries

ChainType == CInv /\ LocalTypeOK /\ LoadsInTable

(***************************************************************************)
(* When the buffer is clean, as long as no failure was ignored: a call     *)
(* that has changed the table saves it before it goes on.                  *)
(***************************************************************************)
Saved ==
    /\ buffer_changed => buffer_loaded
    /\ pc \in {"idle", "scan", "zero", "link", "entry", "visit", "next", "unlink"} =>
           ~buffer_changed
    /\ pc \in {"synced", "flushed"} /\ Settled => ~buffer_changed

SavedUnlessFaulted == ~faulted => Saved

(***************************************************************************)
(* The inductive invariant of the chains.  Every file has a region, a set  *)
(* of clusters that contains what its entry names and which no link leads  *)
(* out of, neither of the table as the driver reads it nor of the one on   *)
(* the disk; a chain that is being freed has one, too.  Regions are        *)
(* disjoint.  The clusters of a region are allocated, and hold bytes of    *)
(* their file or zeroes.                                                   *)
(***************************************************************************)
Growing == op = "write" /\ pc \in {"term", "sync", "synced"}

Closed(t, S) == \A c \in S : IsLink(t[c]) => t[c] \in S

Apart(region, limbo) ==
    \A n \in Names :
        /\ region[n] \cap limbo = {}
        /\ \A m \in Names : m # n => region[m] \cap region[n] = {}

Entered(region) ==
    \A n \in Names :
        IF dir[n] = 0 THEN region[n] = {} ELSE dir[n] \in region[n]

Linked(region, limbo) ==
    /\ Closed(Table, limbo)
    /\ \A n \in Names : Closed(Table, region[n]) /\ Closed(Durable, region[n])

Allocated(region) ==
    /\ Table[2] # 0 /\ Durable[2] # 0
    /\ \A n \in Names : \A c \in region[n] :
           /\ Table[c] = 0 => pc = "term" /\ c = candidate
           /\ Durable[c] = 0 => Growing /\ n = file /\ c = candidate

Holds(region) == \A n \in Names : \A c \in region[n] : contents[c] \in {"zero", n}

(* The cluster under way in allocate_cluster. *)
Allocating ==
    /\ pc = "scan" => candidate >= 2
    /\ pc \in {"zero", "link", "term", "sync", "synced", "entry"} => candidate \in Data
    /\ pc \in {"zero", "link"} => Table[candidate] = 0
    /\ pc \in {"link", "term", "sync", "synced", "entry"} => contents[candidate] = "zero"
    /\ pc \in {"scan", "zero", "link", "term", "sync", "synced"} => op \in {"create", "write"}
    /\ pc = "entry" => op = "create"

(* ... for a file that is being created *)
Creating(region) ==
    op = "create" =>
        /\ pc \in {"scan", "zero", "link", "term", "sync", "synced", "entry"} => dir[file] = 0
        /\ pc \in {"scan", "zero"} => tail = 0
        /\ pc \in {"link", "term"} => tail = candidate
        /\ pc \in {"term", "sync", "synced", "entry"} =>
               \A n \in Names : candidate \notin region[n]
        /\ pc \in {"sync", "synced", "entry"} => Table[candidate] = EndOfChain

(* ... for one that is being extended *)
Extending(region) ==
    op = "write" =>
        /\ pc \in {"scan", "zero", "link"} => tail \in region[file]
        /\ pc \in {"term", "sync", "synced"} =>
               candidate \in region[file] /\ dir[file] # candidate

(* The walks of the other calls. *)
Walking(region, limbo) ==
    /\ pc \in {"visit", "next"} => op = "write" /\ cluster \in region[file]
    /\ pc = "unlink" => cluster = dir[file] /\ dir[file] # 0
    /\ pc \in {"free", "mark"} /\ IsLink(cluster) => cluster \in limbo
    /\ pc = "mark" => IsLink(cluster) /\ (IsLink(following) => following \in limbo)

(* Links lead from the cluster c to all of R: every set that has c in it    *)
(* and that no link leads out of contains R.                               *)
Leads(t, c, R) ==
    \A S \in SUBSET Data : Closed(t, S) /\ (IsLink(c) => c \in S) => R \subseteq S

(* Every cluster of a region is in the chain: in that of the table and, as *)
(* far as it has been saved, in that on the disk.                          *)
Reached(region) ==
    /\ \A n \in Names :
           /\ Leads(Table, dir[n], region[n])
           /\ Leads(Durable, dir[n], {c \in region[n] : Durable[c] # 0})
    /\ op = "write" /\ pc \in {"scan", "zero", "link"} => ~IsLink(Table[tail])
    /\ pc = "term" => Table[candidate] \in {0, candidate}

(* What is not yet freed of a chain is what its walk has before it. *)
Freeing(limbo) ==
    /\ pc \in {"free", "mark"} => Leads(Table, cluster, {c \in limbo : Table[c] # 0})
    /\ pc = "mark" => Table[cluster] = following

(* Every allocated cluster has a place, on a volume that had none at first *)
(* and has met no failure.                                                 *)
Formatted == \A d \in Disks : \A c \in Data : d[SectorOf(c)][OffsetOf(c)] = 0

Accounted(region, limbo) ==
    Formatted /\ failures = 0 /\ powerCuts = 0 =>
        \A c \in Data :
            Table[c] # 0 =>
                \/ \E n \in Names : c \in region[n]
                \/ pc \in {"free", "mark"} /\ c \in limbo
                \/ op = "create" /\ pc \in {"term", "sync", "synced", "entry"} /\ c = candidate

(* What a restart relies on when the link and the new end of a chain are   *)
(* in one sector: it finds both or neither.                                *)
OneSector(region) ==
    /\ pc = "term" => phase = "ready" /\ buffer_loaded
    /\ Growing /\ Durable[candidate] = 0 => \A c \in region[file] : Durable[c] # candidate

Labelling(region, limbo) ==
    /\ Apart(region, limbo)
    /\ Entered(region)
    /\ Linked(region, limbo)
    /\ Allocated(region)
    /\ Holds(region)
    /\ Allocating
    /\ Creating(region)
    /\ Extending(region)
    /\ Walking(region, limbo)
    /\ Reached(region)
    /\ Freeing(limbo)
    /\ Accounted(region, limbo)
    /\ NumSectors = 1 => OneSector(region)

(* The two entries of an extension are saved at once, or no power cut has  *)
(* come between them.                                                      *)
Together == powerCuts = 0 \/ NumSectors = 1

Followed == ~faulted /\ Together

SomeLabelling ==
    \E region \in [Names -> SUBSET Data], limbo \in SUBSET Data : Labelling(region, limbo)

Labelled == Followed => SomeLabelling

IInv == ChainType /\ SavedUnlessFaulted /\ Labelled

-----------------------------------------------------------------------------
(***************************************************************************)
(* Every step of a call is one of the cache, or one that writes an entry   *)
(* after a failed load, which change_fat does not do but delete_fat_chain  *)
(* does.                                                                   *)
(***************************************************************************)
LEMMA Constants ==
    /\ NumSectors \in Nat \ {0} /\ EntriesPerSector \in Nat \ {0}
    /\ NumSectors * EntriesPerSector \in Nat /\ NumSectors * EntriesPerSector >= 3
    /\ EndOfChain \in Nat /\ EndOfChain >= NumSectors * EntriesPerSector
    /\ Entries = 0 .. LastEntry /\ LastEntry \in Nat /\ LastEntry >= 2
    /\ Entries \subseteq Values /\ Values \subseteq Nat
    /\ {0, 2} \subseteq Entries /\ EndOfChain \in Values
    /\ Data \subseteq Entries /\ Stored = Values
    /\ \A c \in Data : IsLink(c)
  <1>1. NumSectors \in Nat \ {0} /\ EntriesPerSector \in Nat \ {0} /\ EndOfChain \in Nat
    BY CacheAssumption
  <1>2. NumSectors * EntriesPerSector \in Nat
    BY <1>1
  <1> QED
    BY <1>1, <1>2, CacheAssumption, ChainAssumption DEF Entries, Values, Data, LastEntry, IsLink

LEMMA CachedInTable ==
    ASSUME CInv, NEW c \in Nat, Cached(SectorOf(c))
    PROVE  c \in Entries
  <1>1. c \div EntriesPerSector \in Nat /\ c \div EntriesPerSector <= NumSectors - 1
    BY DEF CInv, CacheTypeOK, Cached, SectorOf, Sectors
  <1>2. /\ EntriesPerSector \in Nat \ {0} /\ NumSectors \in Nat \ {0}
    BY Constants
  <1>3. c < EntriesPerSector * (c \div EntriesPerSector) + EntriesPerSector
    BY <1>2
  <1>4. (c \div EntriesPerSector) * EntriesPerSector <= (NumSectors - 1) * EntriesPerSector
    BY <1>1, <1>2, ProductMonotone
  <1>5. (NumSectors - 1) * EntriesPerSector = NumSectors * EntriesPerSector - EntriesPerSector
    BY <1>2
  <1>6. EntriesPerSector * (c \div EntriesPerSector) = (c \div EntriesPerSector) * EntriesPerSector
    BY <1>1, <1>2
  <1> QED
    BY <1>1, <1>2, <1>3, <1>4, <1>5, <1>6, Constants DEF Entries

LEMMA WantedType ==
    ASSUME LocalTypeOK
    PROVE  Wanted \in Nat /\ (pc \in {"scan", "link", "term"} => Wanted \in Entries)
  BY Constants DEF LocalTypeOK, Wanted

(* The entry a step sees is that of the table, unless the load has failed. *)
LEMMA GotFacts ==
    ASSUME ChainType, Got
    PROVE  /\ phase = "ready"
           /\ Entry \in Values
           /\ \/ result = "error"
              \/ Wanted \in Entries /\ Cached(SectorOf(Wanted)) /\ Entry = Table[Wanted]
  <1>1. Wanted \in Nat
    BY WantedType DEF ChainType
  <1>2. OffsetOf(Wanted) \in Offsets
    BY <1>1, Constants DEF OffsetOf, Offsets
  <1>3. Cached(SectorOf(Wanted)) => Wanted \in Entries
    BY <1>1, CachedInTable DEF ChainType
  <1> QED
    BY <1>1, <1>2, <1>3 DEF Got, Hit, LoadFailed, Entry, ChainType, CInv, CacheTypeOK, Table

LEMMA HitFacts ==
    ASSUME ChainType, Hit
    PROVE  phase = "ready" /\ Wanted \in Entries /\ Cached(SectorOf(Wanted)) /\ Entry = Table[Wanted]
  <1>1. Wanted \in Nat
    BY WantedType DEF ChainType
  <1>3. Cached(SectorOf(Wanted)) => Wanted \in Entries
    BY <1>1, CachedInTable DEF ChainType
  <1> QED
    BY <1>1, <1>3 DEF Hit, Entry, ChainType, CInv, CacheTypeOK, Table

(* A transfer outside the table fails, and only its counter changes. *)
CountsFailure ==
    /\ failures' = failures + 1
    /\ failures < MaxFailures
    /\ UNCHANGED <<diskVars, bufferVars, callVars, powerCuts, torn>>

CacheStep ==
    \/ UNCHANGED cacheVars
    \/ Looked
    \/ \E s \in Sectors : Load(s)
    \/ Save
    \/ Transfer
    \/ \E c \in Entries, v \in Values : Cached(SectorOf(c)) /\ Put(c, v)
    \/ \E c \in Nat : ~Cached(SectorOf(c)) /\ Put(c, 0)
    \/ CountsFailure
    \/ PowerCut

LEMMA EveryStep ==
    ASSUME ChainType, [Next]_vars
    PROVE  CacheStep
  <1> USE DEF CacheStep
  <1>1. CASE UNCHANGED vars
    BY <1>1 DEF vars
  <1>2. CASE Call
    BY <1>2 DEF Call, Create, WriteFile, Remove
  <1>3. CASE Lookup
    BY <1>3 DEF Lookup
  <1>4. CASE Crash
    BY <1>4 DEF Crash
  <1>5. CASE Fetch
    <2>1. SectorOf(Wanted) \in Sectors
      BY <1>5, Position DEF Fetch
    <2> QED
      BY <1>5, <2>1 DEF Fetch
  <1>6. CASE Link
    <2>1. Wanted = tail
      BY <1>6 DEF Link, Wanted
    <2>2. candidate \in Values
      BY Constants DEF ChainType, LocalTypeOK
    <2> QED
      BY <1>6, <2>1, <2>2, HitFacts DEF Link
  <1>7. CASE Terminate
    <2>1. Wanted = candidate
      BY <1>7 DEF Terminate, Wanted
    <2> QED
      BY <1>7, <2>1, HitFacts, Constants DEF Terminate
  <1>8. CASE Mark
    <2>1. Wanted = cluster /\ Wanted \in Nat
      BY <1>8, WantedType DEF Mark, Wanted, ChainType
    <2>2. Put(cluster, 0) /\ (Hit \/ ~Cached(SectorOf(cluster)))
      BY <1>8, <2>1 DEF Mark, Got, LoadFailed
    <2> QED
      BY <2>1, <2>2, HitFacts, Constants
  <1>9. CASE ZeroFails \/ WriteEntryFails \/ UnlinkFails
    BY <1>9 DEF ZeroFails, WriteEntryFails, UnlinkFails, MayFail, CountsFailure, cacheVars, faultVars
  <1>10. CASE Zero \/ WriteEntry \/ Visit \/ Unlink \/ FreeDone
    BY <1>10 DEF Zero, WriteEntry, Visit, Unlink, FreeDone
  <1>11. CASE ScanNext \/ ScanFull \/ ScanHit \/ ChangeFails \/ Synced \/ Finish
              \/ NextStop \/ NextFollow \/ NextAllocate \/ FreeNext
    BY <1>11 DEF ScanNext, ScanFull, ScanHit, ChangeFails, Synced, Finish,
                 NextStop, NextFollow, NextAllocate, FreeNext
  <1>12. CASE Sync \/ Flush
    BY <1>12 DEF Sync, Flush
  <1>13. CASE Transfer
    BY <1>13
  <1> QED
    BY <1>1, <1>2, <1>3, <1>4, <1>5, <1>6, <1>7, <1>8, <1>9, <1>10, <1>11, <1>12, <1>13
       DEF Next, Run

LEMMA CacheStepCInv ==
    ASSUME CInv, CacheStep
    PROVE  CInv'
  <1>1. CASE UNCHANGED cacheVars
    BY <1>1, StutterCInv
  <1>2. CASE Looked
    BY <1>2 DEF Looked, CInv, CacheTypeOK, CleanBufferOnDisk, CopiesAgree, WritesLoaded,
                diskVars, bufferVars, faultVars
  <1>3. CASE CountsFailure
    <2>1. failures' \in 0 .. MaxFailures
      BY <1>3, CacheAssumption DEF CountsFailure, CInv, CacheTypeOK
    <2> QED
      BY <1>3, <2>1 DEF CountsFailure, CInv, CacheTypeOK, CleanBufferOnDisk, CopiesAgree,
                        WritesLoaded, diskVars, bufferVars, callVars
  <1>4. Entries \subseteq Nat /\ 0 \in Values
    BY Constants
  <1> QED
    BY <1>1, <1>2, <1>3, <1>4, LoadCInv, SaveCInv, TransferCInv, PutCInv, PowerCutCInv
       DEF CacheStep

LEMMA InitChainType == ChainInit => ChainType
  BY InitCInv, Constants DEF ChainInit, CacheInit, ChainType, LocalTypeOK, LoadsInTable, Settled

LEMMA FailureKeepsType ==
    ASSUME LocalTypeOK, CallReturns, UNCHANGED <<storeVars, faulted>>
    PROVE  LocalTypeOK'
  BY Constants DEF LocalTypeOK, CallReturns, storeVars

LEMMA AllocateFailsType ==
    ASSUME LocalTypeOK, AllocateFails, UNCHANGED storeVars, faulted' \in BOOLEAN
    PROVE  LocalTypeOK' /\ pc' \in {"idle", "flush"}
  BY Constants DEF LocalTypeOK, AllocateFails, CallReturns, storeVars

LEMMA AllocateReturnsType ==
    ASSUME LocalTypeOK, AllocateReturns, Looked,
           UNCHANGED <<storeVars, op, file, following, tail, candidate>>
    PROVE  LocalTypeOK' /\ pc' \in {"entry", "visit"}
  BY Constants DEF LocalTypeOK, AllocateReturns, Looked, Ignored, storeVars

LEMMA StepLocalType ==
    ASSUME ChainType, [Next]_vars
    PROVE  LocalTypeOK'
  <1> USE DEF ChainType
  <1>1. CASE UNCHANGED vars
    BY <1>1 DEF vars, chainVars, storeVars, localVars, LocalTypeOK
  <1>2. CASE Call
    <2>1. PICK n \in Names : Create(n) \/ WriteFile(n) \/ Remove(n)
      BY <1>2 DEF Call
    <2> QED
      BY <2>1, Constants DEF Create, WriteFile, Remove, AllocateFrom, Looked, Ignored,
                             storeVars, LocalTypeOK
  <1>3. CASE Lookup \/ Fetch \/ (Transfer /\ UNCHANGED <<chainVars, faulted>>)
    BY <1>3 DEF Lookup, Fetch, chainVars, storeVars, localVars, LocalTypeOK
  <1>4. CASE Crash
    BY <1>4, FailureKeepsType DEF Crash
  <1>5. CASE ScanNext
    BY <1>5, Constants DEF ScanNext, Looked, Ignored, storeVars, LocalTypeOK
  <1>6. CASE ScanFull
    BY <1>6, AllocateFailsType DEF ScanFull, Looked, Ignored, LocalTypeOK
  <1>7. CASE ScanHit
    BY <1>7 DEF ScanHit, Looked, Ignored, storeVars, LocalTypeOK
  <1>8. CASE Zero
    BY <1>8 DEF Zero, LocalTypeOK
  <1>9. CASE ZeroFails
    BY <1>9, AllocateFailsType DEF ZeroFails, LocalTypeOK
  <1>10. CASE Link \/ Terminate
    BY <1>10 DEF Link, Terminate, storeVars, LocalTypeOK
  <1>11. CASE ChangeFails \/ Synced
    BY <1>11, AllocateReturnsType DEF ChangeFails, Synced
  <1>12. CASE Sync \/ Flush
    BY <1>12 DEF Sync, Flush, storeVars, LocalTypeOK
  <1>13. CASE WriteEntry
    BY <1>13 DEF WriteEntry, LocalTypeOK
  <1>14. CASE WriteEntryFails
    BY <1>14, FailureKeepsType DEF WriteEntryFails
  <1>15. CASE Finish
    BY <1>15, Constants DEF Finish, CallReturns, Looked, Ignored, storeVars, LocalTypeOK
  <1>16. CASE Visit
    BY <1>16 DEF Visit, LocalTypeOK
  <1>17. CASE NextStop
    BY <1>17 DEF NextStop, Looked, Ignored, storeVars, LocalTypeOK
  <1>18. CASE NextFollow
    BY <1>18, GotFacts DEF NextFollow, Looked, Ignored, storeVars, LocalTypeOK
  <1>19. CASE NextAllocate
    <2>1. Wanted = cluster
      BY <1>19 DEF NextAllocate, Wanted
    <2>2. cluster \in Entries
      BY <1>19, <2>1, GotFacts DEF NextAllocate, LoadsInTable, Settled
    <2> QED
      BY <1>19, <2>2, Constants DEF NextAllocate, AllocateFrom, Looked, Ignored, storeVars, LocalTypeOK
  <1>20. CASE Unlink \/ UnlinkFails
    BY <1>20, Constants DEF Unlink, UnlinkFails, storeVars, LocalTypeOK
  <1>21. CASE FreeNext
    BY <1>21, GotFacts DEF FreeNext, Looked, Ignored, storeVars, LocalTypeOK
  <1>22. CASE Mark
    BY <1>22 DEF Mark, Ignored, storeVars, LocalTypeOK
  <1>23. CASE FreeDone
    BY <1>23 DEF FreeDone, storeVars, LocalTypeOK
  <1> QED
    BY <1>1, <1>2, <1>3, <1>4, <1>5, <1>6, <1>7, <1>8, <1>9, <1>10, <1>11, <1>12, <1>13,
       <1>14, <1>15, <1>16, <1>17, <1>18, <1>19, <1>20, <1>21, <1>22, <1>23 DEF Next, Run

LEMMA StepLoads ==
    ASSUME ChainType, [Next]_vars
    PROVE  LoadsInTable'
  <1> USE DEF ChainType, LoadsInTable, Settled
  <1>1. CASE UNCHANGED vars
    BY <1>1 DEF vars, chainVars, localVars, cacheVars, callVars
  <1>2. CASE Call
    BY <1>2 DEF Call, Create, WriteFile, Remove, AllocateFrom, Looked
  <1>3. CASE Lookup
    BY <1>3 DEF Lookup, chainVars, localVars
  <1>4. CASE Fetch
    BY <1>4 DEF Fetch, Load, Wanted, NeedsEntry, chainVars, localVars
  <1>5. CASE Transfer /\ UNCHANGED <<chainVars, faulted>>
    <2>1. phase # "ready"
      BY <1>5 DEF Transfer, WriteFirst, WriteFirstFails, WriteSecond, WriteSecondFails, Read, ReadFails
    <2> QED
      BY <1>5, <2>1 DEF chainVars, localVars
  <1>6. CASE Crash \/ WriteEntryFails
    BY <1>6 DEF Crash, WriteEntryFails, CallReturns
  <1>7. CASE ScanFull \/ ZeroFails
    BY <1>7, AllocateFailsType DEF ScanFull, ZeroFails, AllocateFails, CallReturns
  <1>8. CASE ChangeFails \/ Synced
    <2>1. phase = "ready" /\ Looked /\ pc' \in {"entry", "visit"}
      BY <1>8, AllocateReturnsType DEF ChangeFails, Synced, LoadFailed
    <2> QED
      BY <2>1 DEF Looked
  <1>9. CASE ScanNext \/ ScanHit \/ Zero \/ Link \/ Terminate \/ Sync \/ Flush
             \/ WriteEntry \/ FreeDone
    BY <1>9 DEF ScanNext, ScanHit, Zero, Link, Terminate, Sync, Flush, WriteEntry, FreeDone
  <1>10. CASE Finish
    BY <1>10 DEF Finish, CallReturns
  <1>11. CASE Visit
    BY <1>11 DEF Visit, cacheVars, callVars
  <1>12. CASE NextStop \/ NextFollow \/ NextAllocate \/ FreeNext
    <2>1. phase = "ready" /\ Looked
      BY <1>12, GotFacts DEF NextStop, NextFollow, NextAllocate, FreeNext
    <2> QED
      BY <1>12, <2>1 DEF Looked, NextStop, NextFollow, NextAllocate, FreeNext, AllocateFrom
  <1>13. CASE Unlink \/ UnlinkFails
    BY <1>13 DEF Unlink, UnlinkFails, cacheVars, callVars
  <1>14. CASE Mark
    BY <1>14 DEF Mark, Put
  <1> QED
    BY <1>1, <1>2, <1>3, <1>4, <1>5, <1>6, <1>7, <1>8, <1>9, <1>10, <1>11, <1>12, <1>13, <1>14
       DEF Next, Run

LEMMA StepChainType == ChainType /\ [Next]_vars => ChainType'
  BY EveryStep, CacheStepCInv, StepLocalType, StepLoads DEF ChainType

LEMMA ChainTypeHolds == Spec => []ChainType
  BY InitChainType, StepChainType, PTL DEF Spec

(* Every variable keeps its type: no call follows a number out of the      *)
(* table and writes there.                                                 *)
THEOREM ChainTypeCorrect == Spec => []TypeOK
  <1>1. ChainType => TypeOK
    BY DEF ChainType, CInv, LocalTypeOK, TypeOK
  <1> QED
    BY <1>1, ChainTypeHolds, PTL

(* Under the calls of the driver, too, a clean buffer can be dropped; also *)
(* after a removal that wrote to a sector it had not asked for.            *)
THEOREM ChainsCleanBuffer == Spec => []CleanBufferOnDisk
  <1>1. ChainType => CleanBufferOnDisk
    BY DEF ChainType, CInv
  <1> QED
    BY <1>1, ChainTypeHolds, PTL

(* ... and the copies of the table agree outside a save.                   *)
THEOREM ChainsCopiesAgree == Spec => []CopiesAgree
  <1>1. ChainType => CopiesAgree
    BY DEF ChainType, CInv
  <1> QED
    BY <1>1, ChainTypeHolds, PTL

-----------------------------------------------------------------------------
(***************************************************************************)
(* Refinement.  A call sees an array of entries; the removal that goes on  *)
(* after a failed load writes an entry of the sector that is in the        *)
(* buffer, if there is one, and not the one it means.                      *)
(***************************************************************************)
LEMMA EntryAt ==
    ASSUME NEW s \in Sectors, NEW o \in Offsets
    PROVE  \E c \in Entries : SectorOf(c) = s /\ OffsetOf(c) = o
  <1> DEFINE E == EntriesPerSector
             c == s * E + o
             q == SectorOf(c)
             r == OffsetOf(c)
  <1>1. /\ E \in Nat \ {0} /\ NumSectors \in Nat \ {0}
        /\ s \in Nat /\ s <= NumSectors - 1 /\ o \in Nat /\ o < E
    BY Constants DEF Sectors, Offsets
  <1>2. s * E \in Nat /\ s * E <= (NumSectors - 1) * E
    BY <1>1, ProductMonotone
  <1>3. (NumSectors - 1) * E = NumSectors * E - E /\ NumSectors * E \in Nat
    BY <1>1
  <1>4. c \in Entries
    BY <1>1, <1>2, <1>3 DEF Entries
  <1>5. q \in Nat /\ r \in Nat /\ r < E /\ c = q * E + r /\ q * E \in Nat
    <2> HIDE DEF c
    <2>1. q \in Sectors /\ r \in Offsets /\ c = q * E + r
      BY <1>4, Position
    <2> QED
      BY <2>1, <1>1 DEF Sectors, Offsets
  <1>6. s * E + o = q * E + r
    BY <1>5
  <1> HIDE DEF c, q, r
  <1>7. ~(q < s)
    <2>1. q < s => (q + 1) * E <= s * E
      BY <1>1, <1>5, ProductMonotone
    <2>2. (q + 1) * E = q * E + E
      BY <1>1, <1>5
    <2> QED
      BY <2>1, <2>2, <1>1, <1>2, <1>5, <1>6
  <1>8. ~(s < q)
    <2>1. s < q => (s + 1) * E <= q * E
      BY <1>1, <1>5, ProductMonotone
    <2>2. (s + 1) * E = s * E + E
      BY <1>1
    <2> QED
      BY <2>1, <2>2, <1>1, <1>2, <1>5, <1>6
  <1>9. q = s
    BY <1>7, <1>8, <1>1, <1>5
  <1>10. r = o
    BY <1>9, <1>6, <1>1, <1>2, <1>5
  <1> QED
    BY <1>4, <1>9, <1>10 DEF q, r

LEMMA LostPutRefines ==
    ASSUME CInv, NEW c \in Nat, NEW v \in Values, Put(c, v)
    PROVE  [Array!TableNext]_(Array!tableVars)
  <1>1. CASE buffer_loaded
    <2>1. PICK d \in Entries : SectorOf(d) = current_sector /\ OffsetOf(d) = OffsetOf(c)
      <3>1. current_sector \in Sectors
        BY DEF CInv, CacheTypeOK
      <3>2. OffsetOf(c) \in Offsets
        BY Constants DEF OffsetOf, Offsets
      <3> QED
        BY <3>1, <3>2, EntryAt
    <2>2. Put(d, v) /\ Cached(SectorOf(d))
      BY <1>1, <2>1 DEF Put, Cached
    <2> QED
      BY <2>2, PutRefines DEF Array!TableNext
  <1>2. CASE ~buffer_loaded
    <2>1. Table' = Table /\ Durable' = Durable /\ powerCuts' = powerCuts
      BY <1>2 DEF Put, diskVars, faultVars, Table, Durable, Cached
    <2> QED
      BY <2>1 DEF Array!tableVars
  <1> QED
    BY <1>1, <1>2

LEMMA CacheStepRefines ==
    ASSUME CInv, CacheStep
    PROVE  [Array!TableNext]_(Array!tableVars)
  <1>1. CASE UNCHANGED cacheVars \/ Looked \/ Save \/ CountsFailure
    <2>1. UNCHANGED <<fat1, buffer, current_sector, buffer_loaded, powerCuts>>
      BY <1>1 DEF cacheVars, Looked, Save, CountsFailure, diskVars, bufferVars, faultVars
    <2> QED
      BY <2>1, UnseenRefines
  <1>2. ASSUME NEW s \in Sectors, Load(s)
        PROVE  [Array!TableNext]_(Array!tableVars)
    BY <1>2, UnseenRefines DEF Load, diskVars, bufferVars, faultVars
  <1>3. CASE WriteFirst
    BY <1>3, WriteFirstRefines DEF WriteFirst, CInv, WritesLoaded, Array!TableNext
  <1>4. CASE Read
    BY <1>4, ReadRefines
  <1>5. CASE WriteSecond \/ WriteFirstFails \/ WriteSecondFails \/ ReadFails
    BY <1>5, UnseenRefines DEF WriteSecond, WriteFirstFails, WriteSecondFails, ReadFails,
                               diskVars, bufferVars, faultVars
  <1>6. ASSUME NEW c \in Nat, NEW v \in Values, Put(c, v)
        PROVE  [Array!TableNext]_(Array!tableVars)
    BY <1>6, LostPutRefines
  <1>7. CASE PowerCut
    BY <1>7, PowerCutRefines DEF Array!TableNext
  <1>8. Entries \subseteq Nat /\ 0 \in Values
    BY Constants
  <1> QED
    BY <1>1, <1>2, <1>3, <1>4, <1>5, <1>6, <1>7, <1>8 DEF CacheStep, Transfer

(* To the calls of the driver, the cache is an array of entries, and a     *)
(* power cut leaves the array of one past moment: also when a removal goes *)
(* on after a failed load.                                                 *)
THEOREM ChainsRefineTable == Spec => ImplementsFatTable
  <1>1. ChainInit => Array!TableInit
    <2> SUFFICES ASSUME ChainInit PROVE Array!TableInit
      OBVIOUS
    <2>1. Table \in [Entries -> Values]
      BY InitChainType, TableTyped DEF ChainType
    <2>2. Table = Durable
      BY DEF ChainInit, CacheInit, Table, Durable, Cached
    <2> QED
      BY <2>1, <2>2 DEF Array!TableInit, ChainInit, CacheInit
  <1>2. ChainType /\ [Next]_vars => [Array!TableNext]_(Array!tableVars)
    BY EveryStep, CacheStepRefines DEF ChainType
  <1> QED
    BY <1>1, <1>2, ChainTypeHolds, PTL DEF Spec, ImplementsFatTable, Array!TableSpec


-----------------------------------------------------------------------------
(***************************************************************************)
(* What a call did is on the disk when it returns.                         *)
(***************************************************************************)

(* A failure, once ignored, stays so; a step that would ignore one now     *)
(* comes after a success.                                                  *)
LEMMA NotFaulted ==
    ASSUME ChainType, [Next]_vars, ~faulted'
    PROVE  /\ ~faulted
           /\ ~UnlinkFails
           /\ Ignored /\ pc # "idle" => result = "ok"
  <1>1. faulted \in BOOLEAN /\ result \in {"ok", "error"}
    BY DEF ChainType, LocalTypeOK, CInv, CacheTypeOK
  <1>2. \/ faulted' = faulted
        \/ faulted' = TRUE
        \/ Ignored
    BY DEF Next, Run, Call, Create, WriteFile, Remove, Lookup, Crash, Fetch, ScanNext, ScanFull,
       ScanHit, Zero, ZeroFails, Link, Terminate, ChangeFails, Sync, Synced, WriteEntry,
       WriteEntryFails, Flush, Finish, Visit, NextStop, NextFollow, NextAllocate, Unlink,
       UnlinkFails, FreeNext, Mark, FreeDone, Looked, vars
  <1> QED
    BY <1>1, <1>2 DEF Ignored, UnlinkFails

LEMMA InitSaved == ChainInit => Saved
  BY DEF ChainInit, CacheInit, Saved

LEMMA TransferSaved ==
    ASSUME CInv, Saved, Transfer, UNCHANGED chainVars
    PROVE  Saved'
  <1> USE DEF Saved, Settled, chainVars, localVars, Return, MayFail
  <1>1. CASE WriteFirst
    BY <1>1 DEF WriteFirst, bufferVars
  <1>2. CASE WriteFirstFails
    BY <1>2 DEF WriteFirstFails, bufferVars
  <1>3. CASE WriteSecond
    BY <1>3 DEF WriteSecond
  <1>4. CASE WriteSecondFails
    BY <1>4 DEF WriteSecondFails
  <1>5. CASE Read
    BY <1>5 DEF Read, CInv, CleanBufferOnDisk
  <1>6. CASE ReadFails
    BY <1>6 DEF ReadFails, bufferVars
  <1> QED
    BY <1>1, <1>2, <1>3, <1>4, <1>5, <1>6 DEF Transfer

LEMMA StepSaved ==
    ASSUME ChainType, SavedUnlessFaulted, [Next]_vars
    PROVE  SavedUnlessFaulted'
  <1> SUFFICES ASSUME ~faulted' PROVE Saved'
    BY DEF SavedUnlessFaulted
  <1>0. /\ ~UnlinkFails
        /\ Saved
        /\ Looked /\ pc # "idle" => result = "ok"
        /\ CInv
    BY NotFaulted DEF SavedUnlessFaulted, Looked, ChainType
  <1> USE <1>0 DEF Saved, Settled
  <1>1. CASE UNCHANGED vars
    BY <1>1 DEF vars, chainVars, localVars, cacheVars, bufferVars, callVars
  <1>2. CASE Call
    BY <1>2 DEF Call, Create, WriteFile, Remove, AllocateFrom, Looked, bufferVars
  <1>3. CASE Lookup \/ Fetch
    <2>1. /\ UNCHANGED <<pc, bufferVars>>
          /\ UNCHANGED callVars \/ phase' # "ready"
      BY <1>3 DEF Lookup, Fetch, Load, chainVars, localVars, cacheVars
    <2> QED
      BY <2>1 DEF bufferVars, callVars
  <1>4. CASE Transfer /\ UNCHANGED <<chainVars, faulted>>
    BY <1>4, TransferSaved
  <1>5. CASE Crash
    BY <1>5 DEF Crash, PowerCut
  <1>6. CASE ScanNext \/ ScanHit \/ NextStop \/ NextFollow \/ NextAllocate \/ FreeNext
    BY <1>6 DEF ScanNext, ScanHit, NextStop, NextFollow, NextAllocate, FreeNext, AllocateFrom,
                Looked, bufferVars
  <1>7. CASE ScanFull \/ ZeroFails
    <2>1. pc \in {"scan", "zero"} /\ pc' \in {"idle", "flush"} /\ UNCHANGED bufferVars
      BY <1>7, AllocateFailsType DEF ScanFull, ZeroFails, AllocateFails, CallReturns, Looked
    <2> QED
      BY <2>1 DEF bufferVars
  <1>8. CASE Zero \/ WriteEntry \/ Visit \/ Unlink \/ FreeDone
    BY <1>8 DEF Zero, WriteEntry, Visit, Unlink, FreeDone, cacheVars, bufferVars
  <1>9. CASE Link \/ Terminate
    BY <1>9, HitFacts DEF Link, Terminate, Put, Cached
  <1>10. CASE ChangeFails
    BY <1>10 DEF ChangeFails, LoadFailed, Looked
  <1>11. CASE Synced
    BY <1>11 DEF Synced, AllocateReturns, Looked, bufferVars
  <1>12. CASE Sync \/ Flush
    BY <1>12 DEF Sync, Flush, Save, bufferVars
  <1>13. CASE WriteEntryFails
    BY <1>13 DEF WriteEntryFails, CallReturns, bufferVars
  <1>14. CASE Finish
    BY <1>14 DEF Finish, NeedsSave, CallReturns, Looked, bufferVars
  <1>15. CASE Mark
    <2>1. Cached(SectorOf(Wanted))
      BY <1>15, GotFacts, NotFaulted DEF Mark
    <2> QED
      BY <1>15, <2>1 DEF Mark, Put, Cached
  <1> QED
    BY <1>1, <1>2, <1>3, <1>4, <1>5, <1>6, <1>7, <1>8, <1>9, <1>10, <1>11, <1>12, <1>13, <1>14,
       <1>15 DEF Next, Run

LEMMA CleanIsDurable ==
    ASSUME CInv, ~buffer_changed
    PROVE  Table = Durable
  BY DEF CInv, CleanBufferOnDisk, Table, Durable, Cached

LEMMA SavedHolds == Spec => []SavedUnlessFaulted
  <1>1. ChainInit => SavedUnlessFaulted
    BY InitSaved DEF SavedUnlessFaulted
  <1>2. ChainType /\ SavedUnlessFaulted /\ [Next]_vars => SavedUnlessFaulted'
    BY StepSaved
  <1> QED
    BY <1>1, <1>2, ChainTypeHolds, PTL DEF Spec

(* When a call has returned, what it did to the table is on the disk:     *)
(* creating, writing and removing each save the sector on every path that *)
(* changed an entry, if no failure is ignored.                             *)
THEOREM DurableWhenIdleTheorem == Spec => []DurableWhenIdle
  <1>1. ChainType /\ SavedUnlessFaulted => DurableWhenIdle
    BY CleanIsDurable DEF SavedUnlessFaulted, Saved, DurableWhenIdle, ChainType
  <1> QED
    BY <1>1, ChainTypeHolds, SavedHolds, PTL

-----------------------------------------------------------------------------
(***************************************************************************)
(* A chain stays within every set that contains its first cluster and that *)
(* no link leads out of.  Numbers are handled with the least one that      *)
(* would be a counterexample.                                              *)
(***************************************************************************)
LEMMA LeastNumber ==
    ASSUME NEW D \in SUBSET Nat, D # {}
    PROVE  \E d \in D : \A e \in D : d <= e
  <1> DEFINE R == OpToRel(<, Nat)
  <1>1. IsWellFoundedOn(R, Nat)
    BY NatLessThanWellFounded
  <1>2. \A x, y \in Nat : <<x, y>> \in R <=> x < y
    BY DEF OpToRel
  <1> HIDE DEF R
  <1>3. PICK d \in D : \A e \in D : ~(<<e, d>> \in R)
    BY <1>1, WFMin
  <1>4. \A e \in D : ~(e < d) /\ e \in Nat /\ d \in Nat
    BY <1>2, <1>3
  <1> QED
    BY <1>4

(* What ChainOf computes in k steps, and that there is such a function. *)
Walk(t, n, w) ==
    w = [k \in 0 .. n |->
            [d \in Entries |->
                {d} \cup (IF k > 0 /\ IsLink(t[d]) THEN w[k - 1][t[d]] ELSE {})]]

LEMMA WalkExists ==
    ASSUME NEW t, NEW n \in Nat
    PROVE  \E w : Walk(t, n, w)
  <1> DEFINE Missing == {k \in Nat : ~ \E w : Walk(t, k, w)}
  <1> SUFFICES ASSUME Missing # {} PROVE FALSE
    OBVIOUS
  <1>1. PICK m \in Missing : \A e \in Missing : m <= e
    BY LeastNumber
  <1>2. m \in Nat /\ ~ \E w : Walk(t, m, w)
    BY <1>1
  <1>3. CASE m = 0
    <2> DEFINE w0 == [k \in 0 .. 0 |-> [d \in Entries |-> {d}]]
    <2>1. Walk(t, 0, w0)
      BY DEF Walk
    <2> QED
      BY <1>2, <1>3, <2>1
  <1>4. CASE m # 0
    <2>1. m - 1 \in Nat /\ m - 1 \notin Missing
      BY <1>1, <1>2, <1>4
    <2>2. PICK v : Walk(t, m - 1, v)
      BY <2>1
    <2> DEFINE last == [d \in Entries |->
                            {d} \cup (IF m > 0 /\ IsLink(t[d]) THEN v[m - 1][t[d]] ELSE {})]
               w == [k \in 0 .. m |-> IF k = m THEN last ELSE v[k]]
    <2>3. ASSUME NEW k \in 0 .. m
          PROVE  w[k] = [d \in Entries |->
                    {d} \cup (IF k > 0 /\ IsLink(t[d]) THEN w[k - 1][t[d]] ELSE {})]
      <3>1. CASE k = m
        <4>1. w[k] = last /\ w[k - 1] = v[m - 1]
          BY <3>1, <1>2, <1>4
        <4> QED
          BY <3>1, <4>1
      <3>2. CASE k # m
        <4>1. k \in 0 .. m - 1 /\ w[k] = v[k]
          BY <3>2, <1>2
        <4>2. v[k] = [d \in Entries |->
                    {d} \cup (IF k > 0 /\ IsLink(t[d]) THEN v[k - 1][t[d]] ELSE {})]
          BY <2>2, <4>1 DEF Walk
        <4>3. k > 0 => w[k - 1] = v[k - 1]
          BY <4>1, <1>2
        <4> HIDE DEF w
        <4> QED
          BY <4>1, <4>2, <4>3
      <3> QED
        BY <3>1, <3>2
    <2>4. w = [k \in 0 .. m |-> w[k]]
      OBVIOUS
    <2> HIDE DEF w
    <2>5. Walk(t, m, w)
      BY <2>3, <2>4 DEF Walk
    <2> QED
      BY <1>2, <2>5
  <1> QED
    BY <1>3, <1>4

LEMMA WalkStep ==
    ASSUME NEW t, NEW n \in Nat, NEW w, Walk(t, n, w), NEW k \in 0 .. n, NEW d \in Entries
    PROVE  w[k][d] = {d} \cup (IF k > 0 /\ IsLink(t[d]) THEN w[k - 1][t[d]] ELSE {})
  <1>1. w[k] = [e \in Entries |->
            {e} \cup (IF k > 0 /\ IsLink(t[e]) THEN w[k - 1][t[e]] ELSE {})]
    BY DEF Walk
  <1> QED
    BY <1>1

LEMMA WalkWithin ==
    ASSUME NEW t, NEW n \in Nat, NEW w, Walk(t, n, w),
           NEW S \in SUBSET Entries, Closed(t, S), NEW k \in 0 .. n, NEW c \in S
    PROVE  w[k][c] \subseteq S
  <1> DEFINE Bad == {j \in 0 .. n : ~ \A d \in S : w[j][d] \subseteq S}
  <1> SUFFICES ASSUME Bad # {} PROVE FALSE
    OBVIOUS
  <1>1. PICK j \in Bad : \A e \in Bad : j <= e
    <2>1. Bad \subseteq Nat
      OBVIOUS
    <2> QED
      BY <2>1, LeastNumber
  <1>2. PICK d \in S : ~(w[j][d] \subseteq S)
    BY <1>1
  <1>3. w[j][d] = {d} \cup (IF j > 0 /\ IsLink(t[d]) THEN w[j - 1][t[d]] ELSE {})
    BY <1>1, <1>2, WalkStep
  <1>4. j > 0 /\ IsLink(t[d]) => t[d] \in S
    BY <1>2 DEF Closed
  <1>5. j > 0 => \A e \in S : w[j - 1][e] \subseteq S
    <2>1. j > 0 => j - 1 \in 0 .. n /\ j - 1 \notin Bad
      BY <1>1
    <2> QED
      BY <2>1
  <1> QED
    BY <1>2, <1>3, <1>4, <1>5

LEMMA ChainIsWalk ==
    ASSUME NEW t
    PROVE  \E w : /\ Walk(t, LastEntry, w)
                  /\ \A c : c # 0 => ChainOf(t, c) = w[LastEntry][c]
  <1> DEFINE w == CHOOSE w : Walk(t, LastEntry, w)
  <1>1. Walk(t, LastEntry, w)
    BY Constants, WalkExists
  <1>2. \A c : c # 0 => ChainOf(t, c) = w[LastEntry][c]
    BY DEF ChainOf, Walk
  <1> QED
    BY <1>1, <1>2

LEMMA ChainWithin ==
    ASSUME NEW t, NEW S \in SUBSET Entries, Closed(t, S), NEW c, c = 0 \/ c \in S
    PROVE  ChainOf(t, c) \subseteq S
  <1>1. CASE c = 0
    BY <1>1 DEF ChainOf
  <1>2. CASE c # 0
    <2>1. PICK w : Walk(t, LastEntry, w) /\ ChainOf(t, c) = w[LastEntry][c]
      BY <1>2, ChainIsWalk
    <2>2. LastEntry \in Nat /\ LastEntry \in 0 .. LastEntry
      BY Constants
    <2> QED
      BY <1>2, <2>1, <2>2, WalkWithin
  <1> QED
    BY <1>1, <1>2

(***************************************************************************)
(* LastEntry steps are enough to reach all of a chain: as long as a walk   *)
(* has not come to an end or round in a circle, each step adds a cluster.  *)
(***************************************************************************)
LEMMA WalkGrows ==
    ASSUME NEW t, NEW n \in Nat, NEW w, Walk(t, n, w),
           NEW S \in SUBSET Entries, Closed(t, S), NEW k \in 0 .. n - 1, NEW c \in S
    PROVE  /\ w[k][c] \subseteq w[k + 1][c]
           /\ \A x \in w[k][c] : IsLink(t[x]) => t[x] \in w[k + 1][c]
  <1> DEFINE Grows(j, d) ==
                 /\ w[j][d] \subseteq w[j + 1][d]
                 /\ \A x \in w[j][d] : IsLink(t[x]) => t[x] \in w[j + 1][d]
             Bad == {j \in 0 .. n - 1 : ~ \A d \in S : Grows(j, d)}
  <1> SUFFICES ASSUME Bad # {} PROVE FALSE
    OBVIOUS
  <1>1. PICK j \in Bad : \A e \in Bad : j <= e
    <2>1. Bad \subseteq Nat
      OBVIOUS
    <2> QED
      BY <2>1, LeastNumber
  <1>2. PICK d \in S : ~Grows(j, d)
    BY <1>1
  <1>3. j \in 0 .. n /\ j + 1 \in 0 .. n /\ j + 1 > 0 /\ (j + 1) - 1 = j /\ d \in Entries
    BY <1>1, <1>2
  <1>4. w[j][d] = {d} \cup (IF j > 0 /\ IsLink(t[d]) THEN w[j - 1][t[d]] ELSE {})
    BY <1>3, WalkStep
  <1>5. w[j + 1][d] = {d} \cup (IF IsLink(t[d]) THEN w[j][t[d]] ELSE {})
    <2>1. PICK i : i = j + 1
      OBVIOUS
    <2>2. w[i][d] = {d} \cup (IF i > 0 /\ IsLink(t[d]) THEN w[i - 1][t[d]] ELSE {})
      BY <1>3, <2>1, WalkStep
    <2> QED
      BY <1>3, <2>1, <2>2
  <1>6. IsLink(t[d]) => t[d] \in S /\ t[d] \in w[j][t[d]]
    <2>1. \A e \in S : e \in w[j][e]
      BY <1>3, WalkStep
    <2> QED
      BY <1>2, <2>1 DEF Closed
  <1>7. j > 0 => \A e \in S : Grows(j - 1, e)
    <2>1. j > 0 => j - 1 \in 0 .. n - 1 /\ j - 1 \notin Bad
      BY <1>1
    <2> QED
      BY <2>1
  <1>8. j > 0 /\ IsLink(t[d]) =>
            /\ w[j - 1][t[d]] \subseteq w[j][t[d]]
            /\ \A x \in w[j - 1][t[d]] : IsLink(t[x]) => t[x] \in w[j][t[d]]
    <2>1. (j - 1) + 1 = j
      BY <1>1
    <2> QED
      BY <1>6, <1>7, <2>1
  <1> QED
    BY <1>2, <1>4, <1>5, <1>6, <1>8

LEMMA ChainReaches ==
    ASSUME NEW t, NEW S \in SUBSET Data, Closed(t, S), NEW c \in S
    PROVE  /\ c \in ChainOf(t, c)
           /\ Closed(t, ChainOf(t, c))
           /\ ChainOf(t, c) \subseteq S
  <1> DEFINE n == LastEntry
  <1>1. PICK w : Walk(t, n, w) /\ ChainOf(t, c) = w[n][c]
    BY ChainIsWalk DEF Data
  <1>2. n \in Nat /\ n \in 0 .. n /\ S \in SUBSET Entries /\ c \in Entries
    BY Constants
  <1>3. \A k \in 0 .. n : w[k][c] \subseteq S /\ c \in w[k][c]
    <2> SUFFICES ASSUME NEW k \in 0 .. n
                 PROVE  w[k][c] \subseteq S /\ c \in w[k][c]
      OBVIOUS
    <2>1. w[k][c] \subseteq S
      BY <1>1, <1>2, WalkWithin
    <2>2. w[k][c] = {c} \cup (IF k > 0 /\ IsLink(t[c]) THEN w[k - 1][t[c]] ELSE {})
      BY <1>1, <1>2, WalkStep
    <2> QED
      BY <2>1, <2>2
  <1>4. IsFiniteSet(S) /\ Cardinality(S) \in Nat /\ Cardinality(S) < n + 1
    <2>1. IsFiniteSet(Data) /\ Cardinality(Data) < n + 1
      <3>1. /\ IsFiniteSet(3 .. n)
            /\ Cardinality(3 .. n) = IF 3 > n THEN 0 ELSE n - 3 + 1
        BY <1>2, FS_Interval
      <3> QED
        BY <1>2, <3>1 DEF Data
    <2>2. IsFiniteSet(S) /\ Cardinality(S) <= Cardinality(Data)
      BY <2>1, FS_Subset
    <2> QED
      BY <1>2, <2>1, <2>2, FS_CardinalityType
  <1> DEFINE Enough(k) == Cardinality(w[k][c]) >= k + 1 \/ Closed(t, w[k][c])
             Bad == {k \in 0 .. n : ~Enough(k)}
  <1>5. Bad = {}
    <2> SUFFICES ASSUME Bad # {} PROVE FALSE
      OBVIOUS
    <2>1. PICK k \in Bad : \A e \in Bad : k <= e
      <3>1. Bad \subseteq Nat
        BY <1>2
      <3> QED
        BY <3>1, LeastNumber
    <2>2. CASE k = 0
      <3>1. w[k][c] = {c}
        BY <1>1, <1>2, <2>1, <2>2, WalkStep
      <3>2. Cardinality(w[k][c]) = 1
        BY <3>1, FS_Singleton
      <3>3. Enough(k)
        BY <2>2, <3>2
      <3> QED
        BY <2>1, <3>3
    <2>3. CASE k # 0
      <3>1. PICK j : j = k - 1
        OBVIOUS
      <3>2. j \in 0 .. n - 1 /\ j \in 0 .. n /\ k = j + 1 /\ Enough(j)
        BY <1>2, <2>1, <2>3, <3>1
      <3>3. /\ w[j][c] \subseteq w[k][c]
            /\ \A x \in w[j][c] : IsLink(t[x]) => t[x] \in w[k][c]
        BY <1>1, <1>2, <3>2, WalkGrows
      <3>4. CASE Closed(t, w[j][c])
        <4>1. w[k][c] \subseteq w[j][c]
          BY <1>1, <1>2, <1>3, <2>1, <3>2, <3>4, WalkWithin
        <4>2. w[k][c] = w[j][c]
          BY <3>3, <4>1
        <4> QED
          BY <2>1, <3>4, <4>2
      <3>5. CASE ~Closed(t, w[j][c])
        <4>1. PICK x \in w[j][c] : IsLink(t[x]) /\ t[x] \notin w[j][c]
          BY <3>5 DEF Closed
        <4>2. w[j][c] # w[k][c]
          BY <3>3, <4>1
        <4>3. IsFiniteSet(w[k][c]) /\ IsFiniteSet(w[j][c])
          BY <1>3, <1>4, <2>1, <3>2, FS_Subset
        <4>4. Cardinality(w[j][c]) <= Cardinality(w[k][c]) /\ Cardinality(w[j][c]) # Cardinality(w[k][c])
          BY <3>3, <4>2, <4>3, FS_Subset
        <4>5. Cardinality(w[j][c]) \in Nat /\ Cardinality(w[k][c]) \in Nat
          BY <4>3, FS_CardinalityType
        <4>6. Cardinality(w[j][c]) >= j + 1
          BY <3>2, <3>5
        <4>7. Cardinality(w[k][c]) >= k + 1
          BY <3>2, <4>4, <4>5, <4>6
        <4> QED
          BY <2>1, <4>7
      <3> QED
        BY <3>4, <3>5
    <2> QED
      BY <2>2, <2>3
  <1>6. Enough(n)
    BY <1>2, <1>5
  <1>7. IsFiniteSet(w[n][c]) /\ Cardinality(w[n][c]) <= Cardinality(S) /\ Cardinality(w[n][c]) \in Nat
    BY <1>2, <1>3, <1>4, FS_Subset, FS_CardinalityType
  <1>8. Closed(t, w[n][c])
    BY <1>2, <1>4, <1>6, <1>7
  <1> QED
    BY <1>1, <1>2, <1>3, <1>8

-----------------------------------------------------------------------------
(***************************************************************************)
(* The labelling of the clusters is kept by every step.  First, the steps  *)
(* that change neither the table nor what is on the disk.                  *)
(***************************************************************************)
SameStore ==
    /\ Table' = Table
    /\ Durable' = Durable
    /\ failures' = 0 => failures = 0
    /\ powerCuts' = 0 => powerCuts = 0
    /\ UNCHANGED storeVars

LEMMA SameRegions ==
    ASSUME NEW region, NEW limbo, SameStore, Labelling(region, limbo)
    PROVE  Apart(region, limbo)' /\ Entered(region)' /\ Linked(region, limbo)' /\ Holds(region)'
  BY DEF SameStore, storeVars, Labelling, Apart, Entered, Linked, Holds, Closed, IsLink

(* A step of the cache other than a write to the disk, to an entry or a cut *)
LEMMA QuietStore ==
    ASSUME ChainType,
           \/ Looked
           \/ UNCHANGED cacheVars
           \/ \E s \in Sectors : Load(s)
           \/ Save
           \/ CountsFailure
           \/ Transfer /\ ~WriteFirst
    PROVE  /\ Table' = Table /\ Durable' = Durable /\ powerCuts' = powerCuts
           /\ failures' = 0 => failures = 0
  <1>0. failures' = failures \/ failures' = failures + 1
    BY DEF Looked, cacheVars, Load, Save, CountsFailure, Transfer, WriteFirst, WriteSecond,
           WriteFirstFails, WriteSecondFails, Read, ReadFails, faultVars
  <1>3. failures \in Nat
    BY CacheAssumption DEF ChainType, CInv, CacheTypeOK
  <1> USE <1>0, <1>3
  <1>1. CASE Read
    <2>1. UNCHANGED Array!tableVars
      BY <1>1, ReadRefines DEF ChainType
    <2> QED
      BY <2>1 DEF Array!tableVars
  <1>2. CASE ~Read
    <2>1. UNCHANGED <<fat1, buffer, current_sector, buffer_loaded, powerCuts>>
      BY <1>2 DEF Looked, cacheVars, Load, Save, CountsFailure, Transfer, WriteSecond,
                  WriteFirstFails, WriteSecondFails, ReadFails, diskVars, bufferVars, faultVars
    <2>2. UNCHANGED Array!tableVars
      BY <2>1, UnseenRefines
    <2> QED
      BY <2>2 DEF Array!tableVars
  <1> QED
    BY <1>1, <1>2

LEMMA SameLocals ==
    ASSUME NEW region, NEW limbo, Labelling(region, limbo), SameStore, UNCHANGED localVars,
           NumSectors = 1 /\ pc = "term" => UNCHANGED <<phase, buffer_loaded>>
    PROVE  Labelling(region, limbo)'
  <1>1. Apart(region, limbo)' /\ Entered(region)' /\ Linked(region, limbo)' /\ Holds(region)'
    BY SameRegions
  <1> USE DEF SameStore, storeVars, localVars
  <1>2. Allocated(region)'
    BY DEF Labelling, Allocated, Growing
  <1>3. Allocating'
    BY DEF Labelling, Allocating
  <1>4. Creating(region)' /\ Extending(region)'
    BY DEF Labelling, Creating, Extending
  <1>5. Walking(region, limbo)'
    BY DEF Labelling, Walking, IsLink
  <1>6. (NumSectors = 1 => OneSector(region))'
    BY DEF Labelling, OneSector, Growing
  <1>7. Reached(region)' /\ Freeing(limbo)'
    BY DEF Labelling, Reached, Freeing, Leads, Closed, IsLink
  <1>8. Accounted(region, limbo)'
    BY DEF Labelling, Accounted
  <1> QED
    BY <1>1, <1>2, <1>3, <1>4, <1>5, <1>6, <1>7, <1>8 DEF Labelling

(* The steps that only move on in a call.                                  *)
LEMMA QuietLabels ==
    ASSUME ChainType, Saved, ~faulted', [Next]_vars,
           NEW region \in [Names -> SUBSET Data], NEW limbo \in SUBSET Data,
           Labelling(region, limbo), SameStore,
           \/ Call \/ ScanNext \/ ScanFull \/ ScanHit \/ ZeroFails
           \/ Sync \/ Synced \/ WriteEntryFails \/ Flush \/ Finish
           \/ NextStop \/ NextFollow \/ NextAllocate \/ FreeNext \/ FreeDone
    PROVE  Labelling(region, limbo)'
  <1>1. Apart(region, limbo)' /\ Entered(region)' /\ Linked(region, limbo)' /\ Holds(region)'
    BY SameRegions
  <1>2. /\ Table' = Table /\ Durable' = Durable /\ dir' = dir /\ contents' = contents
        /\ Looked /\ pc # "idle" => result = "ok"
        /\ Entered(region) /\ Allocated(region) /\ Allocating /\ Creating(region)
        /\ Extending(region) /\ Walking(region, limbo)
        /\ Reached(region) /\ Freeing(limbo) /\ Accounted(region, limbo)
        /\ failures' = 0 => failures = 0
        /\ powerCuts' = 0 => powerCuts = 0
    BY NotFaulted DEF SameStore, storeVars, Labelling, Looked
  <1> DEFINE Rest == /\ Allocated(region) /\ Allocating /\ Creating(region) /\ Extending(region)
                     /\ Walking(region, limbo) /\ (NumSectors = 1 => OneSector(region))
             Links == /\ op = "write" /\ pc \in {"scan", "zero", "link"} => ~IsLink(Table[tail])
                      /\ pc = "term" => Table[candidate] \in {0, candidate}
             More == Links /\ Freeing(limbo) /\ Accounted(region, limbo)
  <1>a. Links' => Reached(region)'
    BY <1>2 DEF Reached, Leads, Closed, IsLink
  <1> SUFFICES Rest' /\ More'
    BY <1>1, <1>a DEF Labelling
  <1> USE <1>2
  <1>3. CASE Call
    <2>1. PICK n \in Names : Create(n) \/ WriteFile(n) \/ Remove(n)
      BY <1>3 DEF Call
    <2>2. CASE Create(n)
      <3>1. /\ pc = "idle" /\ dir[n] = 0 /\ op' = "create" /\ file' = n /\ pc' = "scan"
            /\ tail' = 0 /\ candidate' = 2
        BY <2>2 DEF Create, AllocateFrom
      <3> QED
        BY <3>1 DEF Allocated, Growing, Allocating, Creating, Extending, Walking, OneSector,
             Reached, Freeing, Accounted
    <2>3. CASE WriteFile(n)
      <3>1. /\ pc = "idle" /\ dir[n] # 0 /\ op' = "write" /\ file' = n /\ pc' \in {"visit", "flush"}
            /\ cluster' = dir[n]
        BY <2>3 DEF WriteFile
      <3>2. dir[n] \in region[n]
        BY <3>1 DEF Entered
      <3> QED
        BY <3>1, <3>2 DEF Allocated, Growing, Allocating, Creating, Extending, Walking, OneSector,
             Reached, Freeing, Accounted
    <2>4. CASE Remove(n)
      <3>1. /\ pc = "idle" /\ dir[n] # 0 /\ op' = "remove" /\ file' = n /\ pc' = "unlink"
            /\ cluster' = dir[n]
        BY <2>4 DEF Remove
      <3> QED
        BY <3>1 DEF Allocated, Growing, Allocating, Creating, Extending, Walking, OneSector,
             Reached, Freeing, Accounted
    <2> QED
      BY <2>1, <2>2, <2>3, <2>4
  <1>4. CASE ScanNext
    <2>1. /\ pc = "scan" /\ pc' = "scan" /\ UNCHANGED <<op, file, cluster, following, tail>>
          /\ candidate' = candidate + 1
      BY <1>4 DEF ScanNext
    <2>2. candidate \in Nat
      BY Constants DEF ChainType, LocalTypeOK
    <2> QED
      BY <2>1, <2>2 DEF Allocated, Growing, Allocating, Creating, Extending, Walking, OneSector,
             Reached, Freeing, Accounted
  <1>5. CASE ScanHit
    <2>1. /\ pc = "scan" /\ pc' = "zero" /\ UNCHANGED <<op, file, cluster, following, tail, candidate>>
          /\ Got /\ Entry = 0 /\ result = "ok" /\ Wanted = candidate
      BY <1>5 DEF ScanHit, Wanted
    <2>2. Table[candidate] = 0
      BY <2>1, GotFacts
    <2>3. candidate \in Data
      <3>1. candidate \in Entries /\ candidate >= 2 /\ candidate # 2
        BY <2>1, <2>2 DEF ChainType, LocalTypeOK, Allocating, Allocated
      <3> QED
        BY <3>1, Constants DEF Data
    <2> QED
      BY <2>1, <2>2, <2>3 DEF Allocated, Growing, Allocating, Creating, Extending, Walking, OneSector,
             Reached, Freeing, Accounted
  <1>6. CASE ScanFull \/ ZeroFails \/ WriteEntryFails \/ Finish \/ NextStop \/ FreeDone
    <2>1. /\ pc \in {"scan", "zero", "entry", "flush", "flushed", "next", "free"}
          /\ pc' \in {"idle", "flush"}
      BY <1>6 DEF ScanFull, ZeroFails, WriteEntryFails, Finish, NextStop, FreeDone, AllocateFails, CallReturns
    <2>2. Rest' /\ Links' /\ Freeing(limbo)'
      BY <2>1 DEF Allocated, Growing, Allocating, Creating, Extending, Walking, OneSector, Freeing
    <2>3. CASE pc = "entry"
      <3>1. failures' = failures + 1 /\ failures \in Nat
        BY <1>6, <2>3, CacheAssumption
           DEF ScanFull, ZeroFails, WriteEntryFails, Finish, NextStop, FreeDone,
               ChainType, CInv, CacheTypeOK
      <3> QED
        BY <2>2, <3>1 DEF Accounted
    <2>4. CASE pc = "free"
      <3>1. ~IsLink(cluster)
        BY <1>6, <2>4 DEF ScanFull, ZeroFails, WriteEntryFails, Finish, NextStop, FreeDone
      <3>2. Leads(Table, cluster, {c \in limbo : Table[c] # 0})
        BY <2>4 DEF Freeing
      <3>3. {} \in SUBSET Data /\ Closed(Table, {})
        BY DEF Closed
      <3>4. {c \in limbo : Table[c] # 0} \subseteq {}
        BY <3>1, <3>2, <3>3 DEF Leads
      <3> QED
        BY <2>1, <2>2, <2>4, <3>4 DEF Accounted
    <2>5. CASE pc \notin {"entry", "free"}
      BY <2>1, <2>2, <2>5 DEF Accounted
    <2> QED
      BY <2>3, <2>4, <2>5
  <1>7. CASE Sync
    <2>1. pc = "sync" /\ pc' = "synced" /\ UNCHANGED <<op, file, cluster, following, tail, candidate>>
      BY <1>7 DEF Sync
    <2> QED
      BY <2>1 DEF Allocated, Growing, Allocating, Creating, Extending, Walking, OneSector,
             Reached, Freeing, Accounted, Labelling
  <1>8. CASE Flush
    <2>1. pc = "flush" /\ pc' = "flushed"
      BY <1>8 DEF Flush
    <2> QED
      BY <2>1 DEF Allocated, Growing, Allocating, Creating, Extending, Walking, OneSector,
             Reached, Freeing, Accounted
  <1>9. CASE Synced
    <2>1. /\ pc = "synced" /\ pc' = IF op = "create" THEN "entry" ELSE "visit"
          /\ cluster' = candidate /\ UNCHANGED <<op, file, following, tail, candidate>>
          /\ phase = "ready" /\ result = "ok"
      BY <1>9 DEF Synced, AllocateReturns
    <2>2. Table = Durable
      BY <2>1, CleanIsDurable DEF Saved, Settled, ChainType
    <2> QED
      BY <2>1, <2>2 DEF Allocated, Growing, Allocating, Creating, Extending, Walking, OneSector,
             Reached, Freeing, Accounted
  <1>10. CASE NextFollow
    <2>1. /\ pc = "next" /\ pc' = "visit" /\ UNCHANGED <<op, file, following, tail, candidate>>
          /\ cluster' = Entry /\ IsLink(Entry) /\ Got /\ result = "ok" /\ Wanted = cluster
      BY <1>10 DEF NextFollow, Wanted
    <2>2. Entry = Table[cluster] /\ cluster \in region[file] /\ file \in Names
      BY <2>1, GotFacts DEF Walking, ChainType, LocalTypeOK
    <2>3. cluster' \in region[file]
      BY <2>1, <2>2 DEF Linked, Closed, Labelling
    <2> QED
      BY <2>1, <2>3 DEF Allocated, Growing, Allocating, Creating, Extending, Walking, OneSector,
             Reached, Freeing, Accounted
  <1>11. CASE NextAllocate
    <2>1. /\ pc = "next" /\ pc' = "scan" /\ UNCHANGED <<op, file, cluster, following>>
          /\ tail' = cluster /\ candidate' = 2
          /\ Entry >= EndOfChain /\ Got /\ result = "ok" /\ Wanted = cluster
      BY <1>11 DEF NextAllocate, AllocateFrom, Wanted
    <2>2. ~IsLink(Table[cluster])
      <3>1. Entry = Table[cluster] /\ Entry \in Nat
        BY <2>1, GotFacts, Constants
      <3>2. ~IsLink(Entry)
        BY <2>1, <3>1, Constants DEF IsLink
      <3> QED
        BY <3>1, <3>2
    <2> QED
      BY <2>1, <2>2 DEF Allocated, Growing, Allocating, Creating, Extending, Walking, OneSector,
             Reached, Freeing, Accounted
  <1>12. CASE FreeNext
    <2>1. /\ pc = "free" /\ pc' = "mark" /\ UNCHANGED <<op, file, cluster, tail, candidate>>
          /\ following' = Entry /\ Got /\ result = "ok" /\ Wanted = cluster /\ IsLink(cluster)
      BY <1>12 DEF FreeNext, Wanted
    <2>2. Entry = Table[cluster] /\ cluster \in limbo
      BY <2>1, GotFacts DEF Walking
    <2>3. IsLink(following') => following' \in limbo
      BY <2>1, <2>2 DEF Linked, Closed, Labelling
    <2> QED
      BY <2>1, <2>2, <2>3 DEF Allocated, Growing, Allocating, Creating, Extending, Walking,
             OneSector, IsLink, Reached, Freeing, Accounted, Leads, Closed
  <1> QED
    BY <1>3, <1>4, <1>5, <1>6, <1>7, <1>8, <1>9, <1>10, <1>11, <1>12

(***************************************************************************)
(* The steps that change what a cluster or the directory holds.            *)
(***************************************************************************)
LEMMA ZeroLabels ==
    ASSUME ChainType, NEW region \in [Names -> SUBSET Data], NEW limbo \in SUBSET Data,
           Labelling(region, limbo), Zero
    PROVE  Labelling(region, limbo)'
  <1>1. /\ pc = "zero" /\ pc' = "link" /\ UNCHANGED <<dir, op, file, cluster, following, candidate>>
        /\ contents' = [contents EXCEPT ![candidate] = "zero"]
        /\ tail' = IF tail = 0 THEN candidate ELSE tail
        /\ contents \in [Entries -> Names \cup {"zero", "junk"}] /\ file \in Names
    BY DEF Zero, ChainType, LocalTypeOK
  <1>2. /\ Table' = Table /\ Durable' = Durable
        /\ failures' = failures /\ powerCuts' = powerCuts
    BY QuietStore DEF Zero, cacheVars, faultVars
  <1>3. /\ Apart(region, limbo) /\ Entered(region) /\ Linked(region, limbo) /\ Allocated(region)
        /\ Holds(region) /\ Allocating /\ Creating(region) /\ Extending(region)
        /\ Walking(region, limbo)
    BY DEF Labelling
  <1>4. candidate \in Data /\ candidate \in Entries /\ Table[candidate] = 0
    BY <1>1, <1>3, Constants DEF Allocating
  <1>5. \A n \in Names : candidate \notin region[n]
    BY <1>1, <1>3, <1>4 DEF Allocated
  <1>6. Apart(region, limbo)' /\ Entered(region)' /\ Linked(region, limbo)' /\ Allocated(region)'
    BY <1>1, <1>2, <1>3 DEF Apart, Entered, Linked, Closed, IsLink, Allocated, Growing
  <1>7. Holds(region)'
    BY <1>1, <1>3, <1>4, <1>5, Constants DEF Holds
  <1>8. Allocating' /\ Creating(region)'
    BY <1>1, <1>2, <1>3, <1>4 DEF Allocating, Creating
  <1>9. Extending(region)'
    <2>1. op = "write" => tail \in region[file] /\ tail # 0
      BY <1>1, <1>3 DEF Extending, Data
    <2> QED
      BY <1>1, <2>1 DEF Extending
  <1>10. Walking(region, limbo)' /\ OneSector(region)' /\ Freeing(limbo)'
    BY <1>1 DEF Walking, OneSector, Growing, Freeing
  <1>11. Reached(region)'
    <2>1. op = "write" => tail' = tail
      BY <1>1, <1>3 DEF Extending, Data
    <2> QED
      BY <1>1, <1>2, <2>1 DEF Labelling, Reached, Leads, Closed, IsLink
  <1>12. Accounted(region, limbo)'
    BY <1>1, <1>2 DEF Labelling, Accounted
  <1> QED
    BY <1>6, <1>7, <1>8, <1>9, <1>10, <1>11, <1>12 DEF Labelling

LEMMA VisitLabels ==
    ASSUME ChainType, NEW region \in [Names -> SUBSET Data], NEW limbo \in SUBSET Data,
           Labelling(region, limbo), Visit
    PROVE  Labelling(region, limbo)'
  <1>1. /\ pc = "visit" /\ pc' = "next"
        /\ UNCHANGED <<dir, op, file, cluster, following, tail, candidate>>
        /\ contents' = [contents EXCEPT ![cluster] = file] \/ contents' = contents
        /\ contents \in [Entries -> Names \cup {"zero", "junk"}] /\ file \in Names
    BY DEF Visit, ChainType, LocalTypeOK
  <1>2. /\ Table' = Table /\ Durable' = Durable
        /\ failures' = failures /\ powerCuts' = powerCuts
    BY QuietStore DEF Visit, cacheVars, faultVars
  <1>3. /\ Apart(region, limbo) /\ Entered(region) /\ Linked(region, limbo) /\ Allocated(region)
        /\ Holds(region) /\ Walking(region, limbo)
    BY DEF Labelling
  <1>4. op = "write" /\ cluster \in region[file] /\ cluster \in Entries
    BY <1>1, <1>3, Constants DEF Walking
  <1>5. Apart(region, limbo)' /\ Entered(region)' /\ Linked(region, limbo)' /\ Allocated(region)'
    BY <1>1, <1>2, <1>3 DEF Apart, Entered, Linked, Closed, IsLink, Allocated, Growing
  <1>6. Holds(region)'
    <2>1. \A n \in Names : cluster \in region[n] => n = file
      BY <1>1, <1>3, <1>4 DEF Apart
    <2>2. \A n \in Names : \A c \in region[n] : c \in Entries
      BY Constants
    <2> QED
      BY <1>1, <1>3, <1>4, <2>1, <2>2 DEF Holds
  <1>7. /\ Allocating' /\ Creating(region)' /\ Extending(region)' /\ Walking(region, limbo)'
        /\ OneSector(region)' /\ Freeing(limbo)'
    BY <1>1, <1>4 DEF Allocating, Creating, Extending, Walking, OneSector, Growing, Freeing
  <1>8. Reached(region)' /\ Accounted(region, limbo)'
    BY <1>1, <1>2 DEF Labelling, Reached, Leads, Closed, IsLink, Accounted
  <1> QED
    BY <1>5, <1>6, <1>7, <1>8 DEF Labelling

(* The first cluster becomes the region of the file. *)
LEMMA WriteEntryLabels ==
    ASSUME ChainType, Saved, NEW region \in [Names -> SUBSET Data], NEW limbo \in SUBSET Data,
           Labelling(region, limbo), WriteEntry
    PROVE  \E r \in [Names -> SUBSET Data], l \in SUBSET Data :
               Labelling(r, l)' /\ r = [region EXCEPT ![file] = {candidate}]
  <1>1. /\ pc = "entry" /\ pc' = "flush"
        /\ dir' = [dir EXCEPT ![file] = candidate]
        /\ UNCHANGED <<contents, op, file, cluster, following, tail, candidate>>
        /\ dir \in [Names -> Entries] /\ file \in Names
    BY DEF WriteEntry, ChainType, LocalTypeOK
  <1>2. /\ Table' = Table /\ Durable' = Durable /\ Durable = Table
        /\ failures' = failures /\ powerCuts' = powerCuts
    BY <1>1, QuietStore, CleanIsDurable DEF WriteEntry, Saved, ChainType, cacheVars, faultVars
  <1>3. /\ Apart(region, limbo) /\ Entered(region) /\ Linked(region, limbo) /\ Allocated(region)
        /\ Holds(region) /\ Allocating /\ Creating(region)
    BY DEF Labelling
  <1>4. /\ candidate \in Data /\ candidate # 0 /\ contents[candidate] = "zero"
        /\ \A n \in Names : candidate \notin region[n]
        /\ Table[candidate] = EndOfChain
    BY <1>1, <1>3 DEF Allocating, Creating, Data
  <1>5. PICK r : r = [region EXCEPT ![file] = {candidate}]
    OBVIOUS
  <1>6. r \in [Names -> SUBSET Data] /\ r[file] = {candidate} /\ \A n \in Names : n # file => r[n] = region[n]
    BY <1>1, <1>4, <1>5
  <1>7. Apart(r, {})'
    BY <1>3, <1>4, <1>6 DEF Apart
  <1>8. Entered(r)'
    BY <1>1, <1>3, <1>4, <1>6 DEF Entered
  <1>9. Linked(r, {})'
    <2>1. ASSUME NEW n \in Names PROVE Closed(Table, r[n])
      <3>1. CASE n = file
        BY <1>4, <1>6, <3>1, Constants DEF Closed, IsLink
      <3>2. CASE n # file
        BY <1>3, <1>6, <3>2 DEF Linked
      <3> QED
        BY <3>1, <3>2
    <2>2. \A n \in Names : Closed(Table, r[n])' /\ Closed(Durable, r[n])'
      BY <2>1, <1>2 DEF Closed, IsLink
    <2> QED
      BY <2>2 DEF Linked, Closed
  <1>10. Allocated(r)'
    BY <1>1, <1>2, <1>3, <1>4, <1>6, Constants DEF Allocated, Growing
  <1>11. Holds(r)'
    BY <1>1, <1>3, <1>4, <1>6 DEF Holds
  <1>12. Allocating' /\ Creating(r)' /\ Extending(r)' /\ Walking(r, {})' /\ OneSector(r)'
    BY <1>1 DEF Allocating, Creating, Extending, Walking, OneSector, Growing
  <1>13. Reached(r)'
    <2>1. ASSUME NEW n \in Names PROVE Leads(Table, dir'[n], r[n])
      <3>1. CASE n = file
        <4>1. IsLink(candidate) /\ dir'[file] = candidate
          BY <1>1, <1>4, Constants
        <4> QED
          BY <1>6, <3>1, <4>1 DEF Leads
      <3>2. CASE n # file
        BY <1>1, <1>6, <3>2 DEF Labelling, Reached
      <3> QED
        BY <3>1, <3>2
    <2> QED
      BY <1>1, <1>2, <2>1 DEF Reached, Leads, Closed, IsLink
  <1>14. Freeing({})' /\ Accounted(r, {})'
    <2>1. \A c : c = candidate \/ (\E n \in Names : c \in region[n]) => \E n \in Names : c \in r[n]
      BY <1>1, <1>3, <1>4, <1>6 DEF Creating, Entered, Labelling, Allocating
    <2> QED
      BY <1>1, <1>2, <2>1 DEF Labelling, Freeing, Accounted
  <1>15. Labelling(r, {})'
    BY <1>7, <1>8, <1>9, <1>10, <1>11, <1>12, <1>13, <1>14 DEF Labelling
  <1> QED
    BY <1>5, <1>6, <1>15

(* The region of the file becomes that of the chain to be freed. *)
LEMMA UnlinkLabels ==
    ASSUME ChainType, NEW region \in [Names -> SUBSET Data], NEW limbo \in SUBSET Data,
           Labelling(region, limbo), Unlink
    PROVE  \E r \in [Names -> SUBSET Data], l \in SUBSET Data :
               Labelling(r, l)' /\ r = [region EXCEPT ![file] = {}]
  <1>1. /\ pc = "unlink" /\ pc' = "free"
        /\ dir' = [dir EXCEPT ![file] = 0]
        /\ UNCHANGED <<contents, op, file, cluster, following, tail, candidate>>
        /\ dir \in [Names -> Entries] /\ file \in Names
    BY DEF Unlink, ChainType, LocalTypeOK
  <1>2. /\ Table' = Table /\ Durable' = Durable
        /\ failures' = failures /\ powerCuts' = powerCuts
    BY QuietStore DEF Unlink, cacheVars, faultVars
  <1>3. /\ Apart(region, limbo) /\ Entered(region) /\ Linked(region, limbo) /\ Allocated(region)
        /\ Holds(region) /\ Walking(region, limbo)
    BY DEF Labelling
  <1>4. cluster \in region[file]
    BY <1>1, <1>3 DEF Walking, Entered
  <1>5. PICK r, l : r = [region EXCEPT ![file] = {}] /\ l = region[file]
    OBVIOUS
  <1>6. /\ r \in [Names -> SUBSET Data] /\ l \in SUBSET Data
        /\ r[file] = {} /\ \A n \in Names : n # file => r[n] = region[n]
    BY <1>1, <1>5
  <1>7. Apart(r, l)'
    BY <1>1, <1>3, <1>5, <1>6 DEF Apart
  <1>8. Entered(r)'
    BY <1>1, <1>3, <1>6 DEF Entered
  <1>9. Linked(r, l)'
    BY <1>1, <1>2, <1>3, <1>5, <1>6 DEF Linked, Closed, IsLink
  <1>10. Allocated(r)'
    BY <1>1, <1>2, <1>3, <1>6 DEF Allocated, Growing
  <1>11. Holds(r)'
    BY <1>1, <1>3, <1>6 DEF Holds
  <1>12. Allocating' /\ Creating(r)' /\ Extending(r)' /\ Walking(r, l)' /\ OneSector(r)'
    BY <1>1, <1>4, <1>5 DEF Allocating, Creating, Extending, Walking, OneSector, Growing
  <1>13. Reached(r)'
    <2>1. ASSUME NEW n \in Names
          PROVE  /\ Leads(Table, dir'[n], r[n])
                 /\ Leads(Durable, dir'[n], {c \in r[n] : Durable[c] # 0})
      <3>1. CASE n = file
        BY <1>6, <3>1 DEF Leads
      <3>2. CASE n # file
        BY <1>1, <1>6, <3>2 DEF Labelling, Reached
      <3> QED
        BY <3>1, <3>2
    <2> QED
      BY <1>1, <1>2, <2>1 DEF Reached, Leads, Closed, IsLink
  <1>14. Freeing(l)'
    <2>1. Leads(Table, cluster, l)
      BY <1>1, <1>3, <1>5 DEF Labelling, Reached, Walking
    <2> QED
      BY <1>1, <1>2, <2>1 DEF Freeing, Leads, Closed, IsLink
  <1>15. Accounted(r, l)'
    <2>1. \A c : (\E n \in Names : c \in region[n]) => c \in l \/ \E n \in Names : c \in r[n]
      BY <1>5, <1>6
    <2> QED
      BY <1>1, <1>2, <2>1 DEF Labelling, Accounted
  <1>16. Labelling(r, l)'
    BY <1>7, <1>8, <1>9, <1>10, <1>11, <1>12, <1>13, <1>14, <1>15 DEF Labelling
  <1> QED
    BY <1>5, <1>6, <1>16

(***************************************************************************)
(* The steps that change an entry of the table.                            *)
(***************************************************************************)
LEMMA PutStore ==
    ASSUME ChainType, NEW c \in Entries, NEW v \in Values, Cached(SectorOf(c)), Put(c, v)
    PROVE  /\ Table' = [Table EXCEPT ![c] = v]
           /\ Durable' = Durable /\ powerCuts' = powerCuts
           /\ Table \in [Entries -> Values]
           /\ Table'[c] = v
           /\ \A d \in Entries : d # c => Table'[d] = Table[d]
  <1>1. Array!Write(c, v) /\ Table \in [Entries -> Values]
    BY PutRefines, TableTyped DEF ChainType
  <1> QED
    BY <1>1 DEF Array!Write

(* The new cluster comes to the region of the file it extends. *)
LEMMA LinkLabels ==
    ASSUME ChainType, Saved, NEW region \in [Names -> SUBSET Data], NEW limbo \in SUBSET Data,
           Labelling(region, limbo), Link
    PROVE  \E r \in [Names -> SUBSET Data], l \in SUBSET Data :
               /\ Labelling(r, l)'
               /\ op = "create" => r = region
               /\ op = "write" => r = [region EXCEPT ![file] = region[file] \cup {candidate}]
  <1>1. /\ pc = "link" /\ pc' = "term" /\ phase = "ready" /\ phase' = phase
        /\ buffer_loaded /\ buffer_loaded' = buffer_loaded
        /\ UNCHANGED <<dir, contents, op, file, cluster, following, tail, candidate>>
        /\ tail \in Entries /\ candidate \in Entries /\ file \in Names
    BY HitFacts DEF Link, Put, Cached, storeVars, ChainType, LocalTypeOK
  <1>2. Wanted = tail /\ Cached(SectorOf(tail))
    BY <1>1, HitFacts DEF Link, Wanted
  <1>3. Table = Durable
    BY <1>1, CleanIsDurable DEF Saved, ChainType
  <1>4. /\ Table'[tail] = candidate
        /\ \A d \in Entries : d # tail => Table'[d] = Table[d]
        /\ Durable' = Table
        /\ failures' = failures /\ powerCuts' = powerCuts
    BY <1>1, <1>2, <1>3, PutStore, Constants DEF Link, Put, faultVars
  <1>5. /\ Apart(region, limbo) /\ Entered(region) /\ Linked(region, limbo) /\ Allocated(region)
        /\ Holds(region) /\ Allocating /\ Creating(region) /\ Extending(region)
        /\ Reached(region) /\ Accounted(region, limbo)
    BY DEF Labelling
  <1>6. /\ candidate \in Data /\ candidate # 0 /\ candidate # 2 /\ IsLink(candidate)
        /\ Table[candidate] = 0
        /\ contents[candidate] = "zero" /\ op \in {"create", "write"}
    BY <1>1, <1>5, Constants DEF Allocating, Data, IsLink, Entries, LastEntry
  <1>7. \A n \in Names : candidate \notin region[n]
    BY <1>1, <1>5, <1>6 DEF Allocated
  <1>8. \A n \in Names : region[n] \subseteq Entries /\ 2 \notin region[n]
    BY Constants DEF Data
  <1>a. ~IsLink(Table[tail])
    BY <1>1, <1>5, <1>6 DEF Reached, Creating, IsLink
  <1>b. ASSUME NEW S \in SUBSET Data, \A c \in S : IsLink(Table'[c]) => Table'[c] \in S
        PROVE  Closed(Table, S)
    <2>1. ASSUME NEW c \in S, IsLink(Table[c]) PROVE Table[c] \in S
      <3>1. c \in Entries /\ c # tail
        BY <1>a, <2>1, Constants
      <3>2. Table'[c] = Table[c]
        BY <3>1, <1>4
      <3> QED
        BY <1>b, <2>1, <3>2
    <2> QED
      BY <2>1 DEF Closed
  <1>9. CASE op = "create"
    <2>1. tail = candidate /\ dir[file] = 0
      BY <1>1, <1>5, <1>9 DEF Creating
    <2>2. \A n \in Names : \A c \in region[n] : Table'[c] = Table[c] /\ Durable'[c] = Table[c]
      BY <1>4, <1>7, <1>8, <2>1
    <2>3. Apart(region, {})'
      BY <1>5 DEF Apart
    <2>4. Entered(region)' /\ Holds(region)'
      BY <1>1, <1>5 DEF Entered, Holds
    <2>5. Linked(region, {})'
      BY <1>5, <2>2 DEF Linked, Closed, IsLink
    <2>6. Allocated(region)'
      <3>1. Table'[2] # 0 /\ Durable'[2] # 0
        BY <1>4, <1>5, <1>6, <2>1, Constants DEF Allocated
      <3> QED
        BY <1>1, <1>5, <2>2, <3>1 DEF Allocated, Growing
    <2>7. Allocating' /\ Creating(region)' /\ Extending(region)' /\ Walking(region, {})' /\ OneSector(region)'
      BY <1>1, <1>6, <1>7, <1>9, <2>1
         DEF Allocating, Creating, Extending, Walking, OneSector, Growing
    <2>8. Reached(region)'
      <3>1. ASSUME NEW n \in Names, NEW S \in SUBSET Data, IsLink(dir[n]) => dir[n] \in S,
                   \A c \in S : IsLink(Table'[c]) => Table'[c] \in S
            PROVE  region[n] \subseteq S
        BY <1>5, <1>b, <3>1 DEF Reached, Leads
      <3>2. \A n \in Names : Leads(Durable, dir[n], {c \in region[n] : Durable[c] # 0})'
        BY <1>1, <1>3, <1>4, <1>5 DEF Reached, Leads, Closed, IsLink
      <3>3. Table'[candidate] = candidate
        BY <1>4, <2>1
      <3> QED
        BY <1>1, <1>9, <3>1, <3>2, <3>3 DEF Reached, Leads, Closed, IsLink
    <2>9. Freeing({})' /\ Accounted(region, {})'
      <3>1. \A c \in Data : c # candidate => Table'[c] = Table[c]
        BY <1>4, <2>1, Constants
      <3> QED
        BY <1>1, <1>4, <1>5, <1>9, <3>1 DEF Freeing, Accounted
    <2>10. Labelling(region, {})'
      BY <2>3, <2>4, <2>5, <2>6, <2>7, <2>8, <2>9 DEF Labelling
    <2> QED
      BY <1>9, <2>10
  <1>10. CASE op = "write"
    <2>1. tail \in region[file] /\ tail # candidate
      BY <1>1, <1>5, <1>7, <1>10 DEF Extending
    <2>2. PICK r : r = [region EXCEPT ![file] = region[file] \cup {candidate}]
      OBVIOUS
    <2>3. /\ r \in [Names -> SUBSET Data]
          /\ r[file] = region[file] \cup {candidate}
          /\ \A n \in Names : n # file => r[n] = region[n]
      BY <1>1, <1>6, <2>2
    <2>4. Apart(r, {})'
      BY <1>1, <1>5, <1>7, <2>3 DEF Apart
    <2>5. Entered(r)'
      BY <1>1, <1>5, <2>1, <2>3 DEF Entered
    <2>6. Holds(r)'
      <3>1. ASSUME NEW n \in Names, NEW c \in r[n] PROVE contents[c] \in {"zero", n}
        <4>1. c \in region[n] \/ c = candidate
          BY <2>3
        <4> QED
          BY <4>1, <1>5, <1>6 DEF Holds
      <3> QED
        BY <3>1, <1>1 DEF Holds
    <2>7. ASSUME NEW n \in Names, NEW c \in r[n]
          PROVE  /\ Durable'[c] = Table[c]
                 /\ c = candidate => Table'[c] = 0 /\ Table[c] = 0 /\ n = file
                 /\ c = tail => Table'[c] = candidate /\ n = file
                 /\ c # tail => Table'[c] = Table[c]
                 /\ c # candidate => c \in region[n]
      <3>1. c \in region[n] \/ (c = candidate /\ n = file)
        BY <2>3
      <3>2. tail \in region[n] => n = file
        BY <1>1, <1>5, <2>1 DEF Apart
      <3>3. c \in Entries
        BY <3>1, <1>1, <1>8
      <3> QED
        BY <1>4, <1>6, <1>7, <2>1, <3>1, <3>2, <3>3
    <2>8. Linked(r, {})'
      <3>1. ASSUME NEW n \in Names, NEW c \in r[n], IsLink(Table'[c])
            PROVE  Table'[c] \in r[n]
        <4>1. CASE c = tail
          BY <4>1, <2>3, <2>7
        <4>2. CASE c # tail
          <5>1. c # candidate /\ c \in region[n] /\ IsLink(Table[c])
            BY <4>2, <2>7, <3>1 DEF IsLink
          <5>2. Table[c] \in region[n]
            BY <5>1, <1>5 DEF Linked, Closed
          <5> QED
            BY <4>2, <5>2, <2>3, <2>7
        <4> QED
          BY <4>1, <4>2
      <3>2. ASSUME NEW n \in Names, NEW c \in r[n], IsLink(Durable'[c])
            PROVE  Durable'[c] \in r[n]
        <4>1. c # candidate /\ c \in region[n] /\ IsLink(Table[c])
          BY <2>7, <3>2 DEF IsLink
        <4>2. Table[c] \in region[n]
          BY <4>1, <1>5 DEF Linked, Closed
        <4> QED
          BY <4>2, <2>3, <2>7
      <3> QED
        BY <3>1, <3>2 DEF Linked, Closed, IsLink
    <2>9. Allocated(r)'
      <3>1. Table'[2] # 0 /\ Durable'[2] # 0
        BY <1>1, <1>4, <1>5, <1>8, <2>1, Constants DEF Allocated
      <3>2. ASSUME NEW n \in Names, NEW c \in r[n]
            PROVE  /\ Table'[c] = 0 => c = candidate
                   /\ Durable'[c] = 0 => n = file /\ c = candidate
        <4>1. c # candidate => Table[c] # 0
          BY <1>1, <1>5, <2>7 DEF Allocated
        <4> QED
          BY <4>1, <2>7, <1>6
      <3> QED
        BY <1>1, <1>10, <3>1, <3>2 DEF Allocated, Growing
    <2>10. Allocating' /\ Creating(r)' /\ Walking(r, {})'
      BY <1>1, <1>6, <1>10 DEF Allocating, Creating, Walking
    <2>11. Extending(r)'
      <3>1. dir[file] # candidate
        BY <1>1, <1>5, <1>6, <1>7 DEF Entered
      <3> QED
        BY <1>1, <1>10, <2>3, <3>1 DEF Extending
    <2>12. OneSector(r)'
      <3>1. ASSUME NEW c \in r[file] PROVE Durable'[c] # candidate
        <4>1. CASE c = candidate
          BY <4>1, <2>7, <1>1, <1>6
        <4>2. CASE c # candidate
          <5>1. c \in region[file] /\ Durable'[c] = Table[c]
            BY <4>2, <1>1, <2>7
          <5>2. IsLink(Table[c]) => Table[c] \in region[file]
            BY <5>1, <1>1, <1>5 DEF Linked, Closed
          <5> QED
            BY <5>1, <5>2, <1>1, <1>6, <1>7
        <4> QED
          BY <4>1, <4>2
      <3> QED
        BY <1>1, <3>1 DEF OneSector
    <2>13. Reached(r)'
      <3>1. ASSUME NEW n \in Names, NEW S \in SUBSET Data, IsLink(dir[n]) => dir[n] \in S,
                   \A c \in S : IsLink(Table'[c]) => Table'[c] \in S
            PROVE  r[n] \subseteq S
        <4>1. region[n] \subseteq S
          BY <1>5, <1>b, <3>1 DEF Reached, Leads
        <4>2. n = file => candidate \in S
          BY <1>4, <1>6, <2>1, <3>1, <4>1
        <4> QED
          BY <4>1, <4>2, <2>3
      <3>2. ASSUME NEW n \in Names
            PROVE  {c \in r[n] : Durable'[c] # 0} \subseteq {c \in region[n] : Durable[c] # 0}
        BY <1>3, <1>4, <2>7
      <3>3. \A n \in Names : Leads(Durable, dir[n], {c \in r[n] : Durable[c] # 0})'
        BY <1>1, <1>3, <1>4, <1>5, <3>2 DEF Reached, Leads, Closed, IsLink
      <3>4. Table'[candidate] = 0
        BY <1>1, <1>4, <1>6, <2>1
      <3> QED
        BY <1>1, <3>1, <3>3, <3>4 DEF Reached, Leads, Closed, IsLink
    <2>14. Freeing({})' /\ Accounted(r, {})'
      <3>1. \A c : c = tail \/ (\E n \in Names : c \in region[n]) => \E n \in Names : c \in r[n]
        BY <1>1, <2>1, <2>3
      <3>2. \A c \in Data : c # tail => Table'[c] = Table[c]
        BY <1>4, Constants
      <3> QED
        BY <1>1, <1>4, <1>5, <1>10, <3>1, <3>2 DEF Freeing, Accounted
    <2>15. Labelling(r, {})'
      BY <2>4, <2>5, <2>6, <2>8, <2>9, <2>10, <2>11, <2>12, <2>13, <2>14 DEF Labelling
    <2> QED
      BY <1>10, <2>2, <2>3, <2>15
  <1> QED
    BY <1>6, <1>9, <1>10

LEMMA TerminateLabels ==
    ASSUME ChainType, NEW region \in [Names -> SUBSET Data], NEW limbo \in SUBSET Data,
           Labelling(region, limbo), Terminate
    PROVE  Labelling(region, {})'
  <1>1. /\ pc = "term" /\ pc' = "sync"
        /\ UNCHANGED <<dir, contents, op, file, cluster, following, tail, candidate>>
        /\ candidate \in Entries /\ file \in Names
    BY DEF Terminate, storeVars, ChainType, LocalTypeOK
  <1>2. Wanted = candidate /\ Cached(SectorOf(candidate))
    BY <1>1, HitFacts DEF Terminate, Wanted
  <1>3. /\ Table'[candidate] = EndOfChain
        /\ \A d \in Entries : d # candidate => Table'[d] = Table[d]
        /\ Durable' = Durable
        /\ failures' = failures /\ powerCuts' = powerCuts
    BY <1>1, <1>2, PutStore, Constants DEF Terminate, Put, faultVars
  <1>4. /\ Apart(region, limbo) /\ Entered(region) /\ Linked(region, limbo) /\ Allocated(region)
        /\ Holds(region) /\ Allocating /\ Creating(region) /\ Extending(region)
        /\ (NumSectors = 1 => OneSector(region))
        /\ Reached(region) /\ Accounted(region, limbo)
    BY DEF Labelling
  <1>5. candidate \in Data /\ candidate # 2 /\ contents[candidate] = "zero" /\ op \in {"create", "write"}
    BY <1>1, <1>4 DEF Allocating, Data
  <1>6. ASSUME NEW n \in Names, NEW c \in region[n]
        PROVE  /\ c = candidate => Table'[c] = EndOfChain
               /\ c # candidate => Table'[c] = Table[c] /\ Table[c] # 0
    <2>1. c \in Entries
      BY Constants
    <2> QED
      BY <2>1, <1>3, <1>4 DEF Allocated
  <1>7. Apart(region, {})' /\ Entered(region)' /\ Holds(region)'
    BY <1>1, <1>4 DEF Apart, Entered, Holds
  <1>8. Linked(region, {})'
    <2>1. ASSUME NEW n \in Names, NEW c \in region[n], IsLink(Table'[c])
          PROVE  Table'[c] \in region[n]
      <3>1. c # candidate
        BY <1>6, <2>1, Constants DEF IsLink
      <3> QED
        BY <1>4, <1>6, <2>1, <3>1 DEF Linked, Closed
    <2> QED
      BY <2>1, <1>3, <1>4 DEF Linked, Closed, IsLink
  <1>9. Allocated(region)'
    <2>1. Table'[2] # 0 /\ Durable'[2] # 0
      BY <1>3, <1>4, <1>5, Constants DEF Allocated
    <2>2. \A n \in Names : \A c \in region[n] : Table'[c] # 0
      BY <1>6, Constants
    <2> QED
      BY <1>1, <1>3, <1>4, <2>1, <2>2 DEF Allocated, Growing
  <1>10. Allocating' /\ Creating(region)' /\ Extending(region)' /\ Walking(region, {})'
    BY <1>1, <1>3, <1>4, <1>5 DEF Allocating, Creating, Extending, Walking
  <1>11. (NumSectors = 1 => OneSector(region))'
    BY <1>1, <1>3, <1>4 DEF OneSector, Growing
  <1>12. Reached(region)'
    <2>1. ASSUME NEW n \in Names, NEW S \in SUBSET Data, IsLink(dir[n]) => dir[n] \in S,
                 \A c \in S : IsLink(Table'[c]) => Table'[c] \in S
          PROVE  region[n] \subseteq S
      <3>1. ASSUME NEW c \in S, IsLink(Table[c]) PROVE Table[c] \in S
        <4>1. CASE c = candidate
          BY <1>1, <1>4, <3>1, <4>1 DEF Reached, IsLink
        <4>2. CASE c # candidate
          <5>1. Table'[c] = Table[c]
            BY <1>3, <4>2, Constants
          <5> QED
            BY <2>1, <3>1, <5>1
        <4> QED
          BY <4>1, <4>2
      <3> QED
        BY <1>4, <2>1, <3>1 DEF Reached, Leads, Closed
    <2>2. \A n \in Names : Leads(Durable, dir[n], {c \in region[n] : Durable[c] # 0})'
      BY <1>1, <1>3, <1>4 DEF Reached, Leads, Closed, IsLink
    <2> QED
      BY <1>1, <2>1, <2>2 DEF Reached, Leads, Closed, IsLink
  <1>13. Freeing({})' /\ Accounted(region, {})'
    <2>1. op = "write" => candidate \in region[file] /\ file \in Names
      BY <1>1, <1>4 DEF Extending
    <2>2. \A c \in Data : c # candidate => Table'[c] = Table[c]
      BY <1>3, Constants
    <2> QED
      BY <1>1, <1>3, <1>4, <1>5, <2>1, <2>2 DEF Freeing, Accounted
  <1> QED
    BY <1>7, <1>8, <1>9, <1>10, <1>11, <1>12, <1>13 DEF Labelling

LEMMA MarkLabels ==
    ASSUME ChainType, NEW region \in [Names -> SUBSET Data], NEW limbo \in SUBSET Data,
           Labelling(region, limbo), Mark, result = "ok"
    PROVE  Labelling(region, limbo)'
  <1>1. /\ pc = "mark" /\ pc' = "free" /\ cluster' = following
        /\ UNCHANGED <<dir, contents, op, file, following, tail, candidate>>
    BY DEF Mark, storeVars
  <1>2. Wanted = cluster /\ cluster \in Entries /\ Cached(SectorOf(cluster))
    BY <1>1, GotFacts DEF Mark, Wanted
  <1>3. /\ Table'[cluster] = 0
        /\ \A d \in Entries : d # cluster => Table'[d] = Table[d]
        /\ Durable' = Durable
        /\ failures' = failures /\ powerCuts' = powerCuts
    BY <1>1, <1>2, PutStore, Constants DEF Mark, Put, faultVars
  <1>4. /\ Apart(region, limbo) /\ Entered(region) /\ Linked(region, limbo) /\ Allocated(region)
        /\ Holds(region) /\ Walking(region, limbo)
        /\ Reached(region) /\ Freeing(limbo) /\ Accounted(region, limbo)
    BY DEF Labelling
  <1>5. cluster \in limbo /\ cluster # 2 /\ (IsLink(following) => following \in limbo)
    BY <1>1, <1>4 DEF Walking, Data
  <1>6. \A n \in Names : \A c \in region[n] : Table'[c] = Table[c]
    BY <1>3, <1>4, <1>5, Constants DEF Apart
  <1>7. Apart(region, limbo)' /\ Entered(region)' /\ Holds(region)'
    BY <1>1, <1>4 DEF Apart, Entered, Holds
  <1>8. Linked(region, limbo)'
    <2>1. ASSUME NEW c \in limbo, IsLink(Table'[c]) PROVE Table'[c] \in limbo
      <3>1. c \in Entries /\ c # cluster
        BY <1>3, <2>1, Constants DEF IsLink
      <3> QED
        BY <1>3, <1>4, <2>1, <3>1 DEF Linked, Closed
    <2> QED
      BY <2>1, <1>3, <1>4, <1>6 DEF Linked, Closed, IsLink
  <1>9. Allocated(region)'
    <2>1. Table'[2] # 0 /\ Durable'[2] # 0
      BY <1>3, <1>4, <1>5, Constants DEF Allocated
    <2> QED
      BY <1>1, <1>3, <1>4, <1>6, <2>1 DEF Allocated, Growing
  <1>10. Allocating' /\ Creating(region)' /\ Extending(region)' /\ OneSector(region)'
    BY <1>1 DEF Allocating, Creating, Extending, OneSector, Growing
  <1>11. Walking(region, limbo)'
    BY <1>1, <1>5 DEF Walking, IsLink
  <1>12. Reached(region)'
    <2>1. ASSUME NEW n \in Names, NEW S \in SUBSET Data, IsLink(dir[n]) => dir[n] \in S,
                 \A c \in S : IsLink(Table'[c]) => Table'[c] \in S
          PROVE  region[n] \subseteq S
      <3>1. PICK R : R = S \cap region[n]
        OBVIOUS
      <3>2. Closed(Table, R)
        <4>1. ASSUME NEW c \in R, IsLink(Table[c]) PROVE Table[c] \in R
          <5>1. Table'[c] = Table[c] /\ Table[c] \in region[n]
            BY <1>4, <1>6, <3>1, <4>1 DEF Linked, Closed
          <5> QED
            BY <2>1, <3>1, <4>1, <5>1
        <4> QED
          BY <4>1 DEF Closed
      <3>3. IsLink(dir[n]) => dir[n] \in R
        BY <1>4, <2>1, <3>1 DEF Entered, IsLink
      <3> QED
        BY <1>4, <3>1, <3>2, <3>3 DEF Reached, Leads
    <2>2. \A n \in Names : Leads(Durable, dir[n], {c \in region[n] : Durable[c] # 0})'
      BY <1>1, <1>3, <1>4 DEF Reached, Leads, Closed, IsLink
    <2> QED
      BY <1>1, <2>1, <2>2 DEF Reached, Leads, Closed, IsLink
  <1>13. Freeing(limbo)'
    <2>1. ASSUME NEW S \in SUBSET Data, IsLink(following) => following \in S,
                 \A c \in S : IsLink(Table'[c]) => Table'[c] \in S
          PROVE  {c \in limbo : Table'[c] # 0} \subseteq S
      <3>1. PICK R : R = S \cup {cluster}
        OBVIOUS
      <3>2. R \in SUBSET Data
        BY <1>5, <3>1
      <3>3. Closed(Table, R)
        <4>1. ASSUME NEW c \in R, IsLink(Table[c]) PROVE Table[c] \in R
          <5>1. CASE c = cluster
            <6>1. Table[c] = following
              BY <1>1, <1>4, <5>1 DEF Freeing
            <6> QED
              BY <2>1, <3>1, <4>1, <6>1
          <5>2. CASE c # cluster
            <6>1. c \in S /\ Table'[c] = Table[c]
              BY <1>3, <3>1, <3>2, <5>2, Constants
            <6> QED
              BY <2>1, <3>1, <4>1, <6>1
          <5> QED
            BY <5>1, <5>2
        <4> QED
          BY <4>1 DEF Closed
      <3>4. {c \in limbo : Table[c] # 0} \subseteq R
        BY <1>1, <1>4, <3>1, <3>2, <3>3 DEF Freeing, Leads
      <3>5. ASSUME NEW c \in limbo, Table'[c] # 0 PROVE c \in S
        <4>1. c # cluster /\ Table[c] # 0
          BY <1>3, <3>5, Constants
        <4> QED
          BY <3>1, <3>4, <4>1
      <3> QED
        BY <3>5
    <2> QED
      BY <1>1, <2>1 DEF Freeing, Leads, Closed, IsLink
  <1>14. Accounted(region, limbo)'
    <2>1. \A c \in Data : Table'[c] # 0 => Table[c] # 0
      BY <1>3, Constants
    <2> QED
      BY <1>1, <1>3, <1>4, <2>1 DEF Accounted
  <1> QED
    BY <1>7, <1>8, <1>9, <1>10, <1>11, <1>12, <1>13, <1>14 DEF Labelling

(* The one step that changes what is on the disk: the whole table becomes  *)
(* durable.                                                                *)
LEMMA PersistLabels ==
    ASSUME ChainType, NEW region \in [Names -> SUBSET Data], NEW limbo \in SUBSET Data,
           Labelling(region, limbo), WriteFirst, UNCHANGED chainVars
    PROVE  Labelling(region, limbo)'
  <1>1. /\ UNCHANGED <<pc, dir, contents, op, file, cluster, following, tail, candidate>>
        /\ phase = "write1"
        /\ failures' = failures /\ powerCuts' = powerCuts
    BY DEF WriteFirst, chainVars, storeVars, localVars, faultVars
  <1>2. Table' = Table /\ Durable' = Table
    BY WriteFirstRefines DEF WriteFirst, ChainType, CInv, WritesLoaded, Array!Persist
  <1>3. /\ Apart(region, limbo) /\ Entered(region) /\ Linked(region, limbo) /\ Allocated(region)
        /\ Holds(region) /\ Allocating /\ Creating(region) /\ Extending(region)
        /\ Walking(region, limbo) /\ (NumSectors = 1 => OneSector(region))
    BY DEF Labelling
  <1>4. file \in Names
    BY DEF ChainType, LocalTypeOK
  <1>5. ASSUME NEW n \in Names, NEW c \in region[n], Table[c] = 0
        PROVE  pc = "term" /\ op = "write" /\ n = file /\ c = candidate
    <2>1. pc = "term" /\ c = candidate
      BY <1>3, <1>5 DEF Allocated
    <2>2. op = "write"
      BY <1>3, <1>5, <2>1 DEF Allocating, Creating
    <2>3. candidate \in region[file]
      BY <1>3, <2>1, <2>2 DEF Extending
    <2> QED
      BY <1>3, <1>4, <2>1, <2>2, <2>3 DEF Apart
  <1>6. Apart(region, limbo)' /\ Entered(region)' /\ Holds(region)'
    BY <1>1, <1>3 DEF Apart, Entered, Holds
  <1>7. Linked(region, limbo)'
    BY <1>2, <1>3 DEF Linked, Closed, IsLink
  <1>8. Allocated(region)'
    BY <1>1, <1>2, <1>3, <1>5 DEF Allocated, Growing
  <1>9. Allocating' /\ Creating(region)' /\ Extending(region)' /\ Walking(region, limbo)'
    BY <1>1, <1>2, <1>3 DEF Allocating, Creating, Extending, Walking, IsLink
  <1>10. (NumSectors = 1 => OneSector(region))'
    <2>1. NumSectors = 1 => pc # "term"
      BY <1>1, <1>3 DEF OneSector
    <2>2. Growing => candidate \in region[file]
      BY <1>3 DEF Growing, Extending
    <2>3. NumSectors = 1 /\ Growing => Durable'[candidate] # 0
      BY <1>2, <1>4, <1>5, <2>1, <2>2
    <2> QED
      BY <1>1, <2>1, <2>3 DEF OneSector, Growing
  <1>11. Reached(region)'
    <2>1. \A n \in Names : Leads(Table, dir[n], region[n])
      BY DEF Labelling, Reached
    <2>2. \A n \in Names : Leads(Table, dir[n], {c \in region[n] : Table[c] # 0})
      BY <2>1 DEF Leads
    <2> QED
      BY <1>1, <1>2, <2>1, <2>2 DEF Labelling, Reached, Leads, Closed, IsLink
  <1>12. Freeing(limbo)' /\ Accounted(region, limbo)'
    BY <1>1, <1>2 DEF Labelling, Freeing, Accounted, Leads, Closed, IsLink
  <1> QED
    BY <1>6, <1>7, <1>8, <1>9, <1>10, <1>11, <1>12 DEF Labelling

(* After a restart a file has lost the cluster it was being extended by,   *)
(* if that one had not been saved.                                         *)
LEMMA CrashLabels ==
    ASSUME ChainType, NEW region \in [Names -> SUBSET Data], NEW limbo \in SUBSET Data,
           Labelling(region, limbo), Crash, NumSectors = 1
    PROVE  \E r \in [Names -> SUBSET Data], l \in SUBSET Data :
               Labelling(r, l)' /\ \A n \in Names : r[n] \subseteq region[n]
  <1>1. /\ pc' = "idle" /\ op' = "none" /\ UNCHANGED <<dir, contents, file>>
        /\ powerCuts' # 0
    BY DEF Crash, CallReturns, storeVars, PowerCut, ChainType, CInv, CacheTypeOK
  <1>2. Table' = Durable /\ Durable' = Durable
    BY PowerCutRefines DEF Crash, Array!PowerLoss
  <1>3. /\ Apart(region, limbo) /\ Entered(region) /\ Linked(region, limbo) /\ Allocated(region)
        /\ Holds(region) /\ Extending(region) /\ OneSector(region)
    BY DEF Labelling
  <1>4. PICK r : r = [n \in Names |-> {c \in region[n] : Durable[c] # 0}]
    OBVIOUS
  <1>5. /\ r \in [Names -> SUBSET Data]
        /\ \A n \in Names : \A c : c \in r[n] <=> c \in region[n] /\ Durable[c] # 0
    BY <1>4
  <1>6. Apart(r, {})'
    BY <1>3, <1>5 DEF Apart
  <1>7. Entered(r)'
    <2>1. ASSUME NEW n \in Names, dir[n] # 0 PROVE dir[n] \in r[n]
      <3>1. dir[n] \in region[n]
        BY <1>3, <2>1 DEF Entered
      <3>2. Durable[dir[n]] # 0
        BY <1>3, <3>1 DEF Allocated, Growing, Extending
      <3> QED
        BY <1>5, <3>1, <3>2
    <2>2. ASSUME NEW n \in Names, dir[n] = 0 PROVE r[n] = {}
      BY <1>3, <1>5, <2>2 DEF Entered
    <2> QED
      BY <1>1, <2>1, <2>2 DEF Entered
  <1>8. ASSUME NEW n \in Names, NEW c \in r[n], IsLink(Durable[c])
        PROVE  Durable[c] \in r[n]
    <2>1. PICK d : d = Durable[c]
      OBVIOUS
    <2>2. c \in region[n] /\ d \in region[n]
      BY <1>3, <1>5, <1>8, <2>1 DEF Linked, Closed
    <2>3. Durable[d] # 0
      <3>1. Durable[d] = 0 => Growing /\ n = file /\ d = candidate
        BY <1>3, <2>2 DEF Allocated
      <3> QED
        BY <1>3, <2>1, <2>2, <3>1 DEF OneSector
    <2> QED
      BY <1>5, <2>1, <2>2, <2>3
  <1>9. Linked(r, {})'
    BY <1>2, <1>8 DEF Linked, Closed, IsLink
  <1>10. Allocated(r)'
    BY <1>2, <1>3, <1>5 DEF Allocated
  <1>11. Holds(r)'
    BY <1>1, <1>3, <1>5 DEF Holds
  <1>12. Allocating' /\ Creating(r)' /\ Extending(r)' /\ Walking(r, {})' /\ OneSector(r)'
    BY <1>1 DEF Allocating, Creating, Extending, Walking, OneSector, Growing
  <1>13. Reached(r)'
    <2>1. ASSUME NEW n \in Names
          PROVE  Leads(Durable, dir[n], r[n]) /\ r[n] = {c \in r[n] : Durable[c] # 0}
      BY <1>4, <1>5 DEF Labelling, Reached
    <2> QED
      BY <1>1, <1>2, <2>1 DEF Reached, Leads, Closed, IsLink
  <1>14. Freeing({})' /\ Accounted(r, {})'
    BY <1>1 DEF Freeing, Accounted
  <1>15. Labelling(r, {})'
    BY <1>6, <1>7, <1>9, <1>10, <1>11, <1>12, <1>13, <1>14 DEF Labelling
  <1> QED
    BY <1>5, <1>15

LEMMA InitLabelled == ChainInit => SomeLabelling
  <1> SUFFICES ASSUME ChainInit PROVE SomeLabelling
    OBVIOUS
  <1>1. /\ pc = "idle" /\ op = "none" /\ dir = [n \in Names |-> 0]
        /\ fat1 \in Disks /\ ~buffer_loaded
    BY DEF ChainInit, CacheInit
  <1>2. Durable[2] # 0
    BY <1>1, ChainAssumption, Constants DEF Durable
  <1>3. Table = Durable
    BY <1>1 DEF Table, Durable, Cached
  <1>4. PICK r : r = [n \in Names |-> {}]
    OBVIOUS
  <1>5. r \in [Names -> SUBSET Data] /\ \A n \in Names : r[n] = {}
    BY <1>4
  <1>6. Apart(r, {}) /\ Entered(r) /\ Linked(r, {}) /\ Allocated(r) /\ Holds(r)
    BY <1>1, <1>2, <1>3, <1>5 DEF Apart, Entered, Linked, Closed, Allocated, Holds
  <1>7. Allocating /\ Creating(r) /\ Extending(r) /\ Walking(r, {}) /\ OneSector(r)
    BY <1>1 DEF Allocating, Creating, Extending, Walking, OneSector, Growing
  <1>8. Reached(r) /\ Freeing({})
    BY <1>1, <1>5 DEF Reached, Freeing, Leads
  <1>9. Accounted(r, {})
    <2>1. Formatted => \A c \in Data : Durable[c] = 0
      BY <1>1, Constants DEF Formatted, Durable
    <2> QED
      BY <1>3, <2>1 DEF Accounted
  <1>10. Labelling(r, {})
    BY <1>6, <1>7, <1>8, <1>9 DEF Labelling
  <1> QED
    BY <1>5, <1>10 DEF SomeLabelling

LEMMA CutsCounted ==
    ASSUME ChainType, [Next]_vars
    PROVE  powerCuts' = powerCuts \/ (Crash /\ powerCuts' # 0)
  <1>1. CASE Crash
    BY <1>1 DEF Crash, PowerCut, ChainType, CInv, CacheTypeOK
  <1>2. CASE ~Crash
    BY <1>2 DEF Next, Run, Call, Create, WriteFile, Remove, Lookup, Fetch, ScanNext, ScanFull,
       ScanHit, Zero, ZeroFails, Link, Terminate, ChangeFails, Sync, Synced, WriteEntry,
       WriteEntryFails, Flush, Finish, Visit, NextStop, NextFollow, NextAllocate, Unlink,
       UnlinkFails, FreeNext, Mark, FreeDone, Looked, Load, Save, Put, Transfer, WriteFirst,
       WriteFirstFails, WriteSecond, WriteSecondFails, Read, ReadFails, vars, cacheVars, faultVars
  <1> QED
    BY <1>1, <1>2

(* With one sector, no load is needed between the two entries of an        *)
(* extension.                                                              *)
LEMMA NoLoadInBetween ==
    ASSUME ChainType, NumSectors = 1, pc = "term", buffer_loaded
    PROVE  ~Fetch
  <1>1. Wanted = candidate /\ candidate \in Entries
    BY DEF Wanted, ChainType, LocalTypeOK
  <1>2. SectorOf(candidate) = 0 /\ current_sector = 0
    BY <1>1, Position DEF ChainType, CInv, CacheTypeOK, Sectors
  <1> QED
    BY <1>1, <1>2 DEF Fetch, Load, Cached

LEMMA StepLabelled ==
    ASSUME ChainType, SavedUnlessFaulted, Labelled, [Next]_vars
    PROVE  Labelled'
  <1> SUFFICES ASSUME Followed' PROVE SomeLabelling'
    BY DEF Labelled
  <1>1. ~faulted' /\ ~faulted /\ ~UnlinkFails /\ (Ignored /\ pc # "idle" => result = "ok")
    BY NotFaulted DEF Followed
  <1>2. Saved /\ Together /\ (Crash => NumSectors = 1)
    <2>1. Saved
      BY <1>1 DEF SavedUnlessFaulted
    <2>2. Crash => powerCuts' # 0
      BY DEF Crash, PowerCut, ChainType, CInv, CacheTypeOK
    <2> QED
      BY <2>1, <2>2, CutsCounted DEF Followed, Together
  <1>3. PICK region \in [Names -> SUBSET Data], limbo \in SUBSET Data : Labelling(region, limbo)
    BY <1>1, <1>2 DEF Labelled, Followed, SomeLabelling
  <1>4. SUFFICES \/ SomeLabelling'
                 \/ Labelling(region, limbo)'
    BY DEF SomeLabelling
  <1>5. CASE UNCHANGED vars \/ Lookup \/ Fetch \/ (Transfer /\ ~WriteFirst /\ UNCHANGED <<chainVars, faulted>>)
    <2>1. UNCHANGED chainVars
      BY <1>5 DEF vars, Lookup, Fetch
    <2>2. /\ Table' = Table /\ Durable' = Durable
          /\ failures' = 0 => failures = 0
          /\ powerCuts' = 0 => powerCuts = 0
      <3>1. CASE UNCHANGED cacheVars
        BY <3>1, QuietStore
      <3>2. CASE Fetch
        <4>1. \E s \in Sectors : Load(s)
          BY <3>2, Position DEF Fetch
        <4> QED
          BY <4>1, QuietStore
      <3>3. CASE Lookup /\ ~UNCHANGED cacheVars
        <4>1. \E s \in Sectors : Load(s)
          BY <3>3 DEF Lookup
        <4> QED
          BY <4>1, QuietStore
      <3>4. CASE Transfer /\ ~WriteFirst
        BY <3>4, QuietStore
      <3> QED
        BY <1>5, <3>1, <3>2, <3>3, <3>4 DEF vars
    <2>3. NumSectors = 1 /\ pc = "term" => UNCHANGED <<phase, buffer_loaded>>
      <3>1. NumSectors = 1 /\ pc = "term" => phase = "ready" /\ buffer_loaded
        BY <1>3 DEF Labelling, OneSector
      <3>2. Transfer => phase # "ready"
        BY DEF Transfer, WriteFirst, WriteFirstFails, WriteSecond, WriteSecondFails, Read, ReadFails
      <3> QED
        BY <1>5, <3>1, <3>2, NoLoadInBetween DEF Lookup, vars, cacheVars, bufferVars, callVars
    <2> QED
      BY <1>3, <2>1, <2>2, <2>3, SameLocals DEF SameStore, chainVars
  <1>6. CASE WriteFirst /\ UNCHANGED <<chainVars, faulted>>
    BY <1>3, <1>6, PersistLabels
  <1>7. CASE Crash
    BY <1>2, <1>3, <1>7, CrashLabels DEF SomeLabelling
  <1>8. CASE Zero
    BY <1>3, <1>8, ZeroLabels
  <1>9. CASE Visit
    BY <1>3, <1>9, VisitLabels
  <1>10. CASE WriteEntry
    BY <1>2, <1>3, <1>10, WriteEntryLabels DEF SomeLabelling
  <1>11. CASE Unlink
    BY <1>3, <1>11, UnlinkLabels DEF SomeLabelling
  <1>12. CASE Link
    BY <1>2, <1>3, <1>12, LinkLabels DEF SomeLabelling
  <1>13. CASE Terminate
    <2>1. Labelling(region, {})'
      BY <1>3, <1>13, TerminateLabels
    <2> QED
      BY <2>1 DEF SomeLabelling
  <1>14. CASE Mark
    BY <1>1, <1>3, <1>14, MarkLabels DEF Mark
  <1>15. CASE ChangeFails
    BY <1>1, <1>15 DEF ChangeFails, LoadFailed, Looked
  <1>16. CASE \/ Call \/ ScanNext \/ ScanFull \/ ScanHit \/ ZeroFails
              \/ Sync \/ Synced \/ WriteEntryFails \/ Flush \/ Finish
              \/ NextStop \/ NextFollow \/ NextAllocate \/ FreeNext \/ FreeDone
    <2>1. /\ UNCHANGED storeVars
          /\ Looked \/ UNCHANGED cacheVars \/ Save \/ CountsFailure
      BY <1>16 DEF Call, Create, WriteFile, Remove, ScanNext, ScanFull, ScanHit, ZeroFails,
         Sync, Synced, WriteEntryFails, Flush, Finish, NextStop, NextFollow, NextAllocate,
         FreeNext, FreeDone, MayFail, CountsFailure, cacheVars, faultVars
    <2>2. SameStore
      BY <2>1, QuietStore DEF SameStore
    <2> QED
      BY <1>1, <1>2, <1>3, <1>16, <2>2, QuietLabels
  <1> QED
    BY <1>1, <1>5, <1>6, <1>7, <1>8, <1>9, <1>10, <1>11, <1>12, <1>13, <1>14, <1>15, <1>16
       DEF Next, Run

LEMMA LabelledHolds == Spec => []Labelled
  <1>1. ChainInit => Labelled
    BY InitLabelled DEF Labelled
  <1>2. ChainType /\ SavedUnlessFaulted /\ Labelled /\ [Next]_vars => Labelled'
    BY StepLabelled
  <1> QED
    BY <1>1, <1>2, ChainTypeHolds, SavedHolds, PTL DEF Spec

-----------------------------------------------------------------------------
(***************************************************************************)
(* What the labelling says of chains.                                      *)
(***************************************************************************)
LEMMA ChainsInRegions ==
    ASSUME Followed, Labelled
    PROVE  \E region \in [Names -> SUBSET Data], limbo \in SUBSET Data :
               /\ Labelling(region, limbo)
               /\ \A n \in Names : /\ FileClusters(n) \subseteq region[n]
                                   /\ DiskChain(n) \subseteq region[n]
  <1>1. PICK region \in [Names -> SUBSET Data], limbo \in SUBSET Data : Labelling(region, limbo)
    BY DEF Labelled, SomeLabelling
  <1>2. ASSUME NEW n \in Names
        PROVE  FileClusters(n) \subseteq region[n] /\ DiskChain(n) \subseteq region[n]
    <2>1. region[n] \in SUBSET Entries
      BY Constants
    <2>2. Closed(Table, region[n]) /\ Closed(Durable, region[n])
      BY <1>1 DEF Labelling, Linked
    <2>3. dir[n] = 0 \/ dir[n] \in region[n]
      BY <1>1 DEF Labelling, Entered
    <2> QED
      BY <2>1, <2>2, <2>3, ChainWithin DEF FileClusters, DiskChain
  <1> QED
    BY <1>1, <1>2

(* No two files share a cluster and none owns that of the directory,       *)
(* whatever is evicted from the cache in the middle of an extension, and   *)
(* after a power cut at any point, if the table is one sector or, with a   *)
(* larger table, until the first power cut.                                *)
THEOREM NoCrossLinkTheorem == Spec => [](Together => NoCrossLink)
  <1>1. Labelled => (Together => NoCrossLink)
    <2> SUFFICES ASSUME Labelled, Together, ~faulted
                 PROVE  /\ \A m, n \in Names : m # n => FileClusters(m) \cap FileClusters(n) = {}
                        /\ \A n \in Names : FileClusters(n) \subseteq Data
      BY DEF NoCrossLink
    <2>1. PICK region \in [Names -> SUBSET Data], limbo \in SUBSET Data :
               /\ Labelling(region, limbo)
               /\ \A n \in Names : FileClusters(n) \subseteq region[n]
      BY ChainsInRegions DEF Followed
    <2>2. \A m, n \in Names : m # n => region[m] \cap region[n] = {}
      BY <2>1 DEF Labelling, Apart
    <2>3. \A n \in Names : region[n] \subseteq Data
      OBVIOUS
    <2> QED
      BY <2>1, <2>2, <2>3
  <1> QED
    BY <1>1, LabelledHolds, PTL

(* A file reads zeroes or its own bytes, never those that another file     *)
(* left behind, also after a restart.                                      *)
THEOREM NoStaleBytesTheorem == Spec => [](Together => NoStaleBytes)
  <1>1. Labelled => (Together => NoStaleBytes)
    <2> SUFFICES ASSUME Labelled, Together, ~faulted,
                        NEW n \in Names, NEW c \in FileClusters(n)
                 PROVE  contents[c] \in {"zero", n}
      BY DEF NoStaleBytes
    <2>1. PICK region \in [Names -> SUBSET Data], limbo \in SUBSET Data :
               /\ Labelling(region, limbo)
               /\ FileClusters(n) \subseteq region[n]
      BY ChainsInRegions DEF Followed
    <2> QED
      BY <2>1 DEF Labelling, Holds
  <1> QED
    BY <1>1, LabelledHolds, PTL

(* At every moment the disk is one a restart can work with: the entries of *)
(* the directory name allocated clusters, files share nothing, and at most *)
(* the link to the one cluster being added leads to a free one.            *)
THEOREM RestartTheorem == Spec => [](Together => RestartFindsFiles)
  <1>1. Labelled => (Together => RestartFindsFiles)
    <2> SUFFICES ASSUME Labelled, Together, ~faulted PROVE RestartFindsFiles
      BY DEF RestartFindsFiles
    <2>1. PICK region \in [Names -> SUBSET Data], limbo \in SUBSET Data :
               /\ Labelling(region, limbo)
               /\ \A n \in Names : DiskChain(n) \subseteq region[n]
      BY ChainsInRegions DEF Followed
    <2>2. \A m, n \in Names : m # n => region[m] \cap region[n] = {}
      BY <2>1 DEF Labelling, Apart
    <2>3. \A n \in Names : \A c \in region[n] : Durable[c] = 0 => Growing /\ n = file /\ c = candidate
      BY <2>1 DEF Labelling, Allocated
    <2>4. ASSUME NEW n \in Names, dir[n] # 0 PROVE Durable[dir[n]] # 0
      <3>1. dir[n] \in region[n]
        BY <2>1, <2>4 DEF Labelling, Entered
      <3>2. Growing => dir[file] # candidate
        BY <2>1 DEF Labelling, Extending, Growing
      <3> QED
        BY <2>3, <3>1, <3>2
    <2>5. ASSUME NEW m \in Names, NEW n \in Names, NEW c \in DiskChain(m), NEW d \in DiskChain(n),
                 Durable[c] = 0, Durable[d] = 0
          PROVE  c = d /\ op = "write" /\ m = file
      BY <2>1, <2>3, <2>5 DEF Growing
    <2> QED
      BY <2>1, <2>2, <2>4, <2>5 DEF RestartFindsFiles
  <1> QED
    BY <1>1, LabelledHolds, PTL

-----------------------------------------------------------------------------
(***************************************************************************)
(* Nothing else is in a region than the chain, so an owner is what the     *)
(* labelling says it is.                                                   *)
(***************************************************************************)
OwnerIn(region) ==
    [c \in Data |->
        IF \E n \in Names : c \in region[n]
        THEN CHOOSE n \in Names : c \in region[n]
        ELSE IF Table[c] = 0 THEN "nobody" ELSE "limbo"]

LEMMA OwnersAreRegions ==
    \A region \in [Names -> SUBSET Data], limbo \in SUBSET Data :
        Labelling(region, limbo) => Owner = OwnerIn(region)
  <1> SUFFICES ASSUME NEW region \in [Names -> SUBSET Data], NEW limbo \in SUBSET Data,
                      Labelling(region, limbo)
               PROVE  Owner = OwnerIn(region)
    OBVIOUS
  <1>1. ASSUME NEW n \in Names PROVE FileClusters(n) = region[n]
    <2>1. CASE dir[n] = 0
      BY <2>1 DEF Labelling, Entered, FileClusters, ChainOf
    <2>2. CASE dir[n] # 0
      <3>1. dir[n] \in region[n] /\ Closed(Table, region[n]) /\ Leads(Table, dir[n], region[n])
        BY <2>2 DEF Labelling, Entered, Linked, Reached
      <3>2. PICK S : S = FileClusters(n)
        OBVIOUS
      <3>3. dir[n] \in S /\ Closed(Table, S) /\ S \subseteq region[n]
        BY <3>1, <3>2, ChainReaches DEF FileClusters
      <3>4. S \in SUBSET Data
        BY <3>3
      <3>5. region[n] \subseteq S
        BY <3>1, <3>3, <3>4 DEF Leads
      <3> QED
        BY <3>2, <3>3, <3>5
    <2> QED
      BY <2>1, <2>2
  <1> QED
    BY <1>1 DEF Owner, OwnerIn

LEMMA NextOwnersAreRegions ==
    (\A region \in [Names -> SUBSET Data], limbo \in SUBSET Data :
        Labelling(region, limbo) => Owner = OwnerIn(region))'
  BY OwnersAreRegions, PTL

-----------------------------------------------------------------------------
(***************************************************************************)
(* No cluster is lost, as long as neither a transfer nor the power fails.  *)
(***************************************************************************)
Blameless == failures = 0 => result = "ok" /\ ~faulted

LEMMA BlamelessHolds == Spec => []Blameless
  <1>1. ChainInit => Blameless
    BY DEF ChainInit, CacheInit, Blameless
  <1>2. ASSUME ChainType, Blameless, [Next]_vars PROVE Blameless'
    <2>1. failures \in Nat
      BY <1>2, CacheAssumption DEF ChainType, CInv, CacheTypeOK
    <2>2. \/ failures' = failures + 1
          \/ failures' = failures /\ (result' = "ok" \/ result' = result) /\ faulted' = faulted
          \/ failures' = failures /\ (result' = "ok" \/ result' = result) /\ Ignored
      <3> USE DEF cacheVars, callVars, faultVars, diskVars, bufferVars
      <3>1. CASE \/ ZeroFails \/ WriteEntryFails \/ UnlinkFails
        BY <3>1 DEF ZeroFails, WriteEntryFails, UnlinkFails
      <3>2. CASE Transfer /\ UNCHANGED <<chainVars, faulted>>
        BY <3>2 DEF Transfer, WriteFirst, WriteFirstFails, WriteSecond, WriteSecondFails, Read,
           ReadFails, Return
      <3>3. CASE Call \/ Lookup \/ Fetch \/ Crash \/ UNCHANGED vars
        BY <3>3 DEF Call, Create, WriteFile, Remove, Lookup, Fetch, Load, Crash, PowerCut, Looked, vars
      <3>4. CASE \/ ScanNext \/ ScanFull \/ ScanHit \/ Zero \/ Link \/ Terminate \/ ChangeFails
                 \/ Sync \/ Synced
        BY <3>4 DEF ScanNext, ScanFull, ScanHit, Zero, Link, Terminate, ChangeFails, Sync, Synced,
           Save, Put, Looked
      <3>5. CASE \/ WriteEntry \/ Flush \/ Finish \/ Visit \/ NextStop \/ NextFollow
                 \/ NextAllocate \/ Unlink \/ FreeNext \/ Mark \/ FreeDone
        BY <3>5 DEF WriteEntry, Flush, Finish, Visit, NextStop, NextFollow, NextAllocate, Unlink,
           FreeNext, Mark, FreeDone, Save, Put, Looked
      <3> QED
        BY <1>2, <3>1, <3>2, <3>3, <3>4, <3>5 DEF Next, Run
    <2>3. ASSUME failures' = 0 PROVE result' = "ok" /\ ~faulted'
      <3>1. failures' # failures + 1 /\ failures = 0
        BY <2>1, <2>2, <2>3
      <3>2. result = "ok" /\ ~faulted
        BY <1>2, <3>1 DEF Blameless
      <3>3. Ignored => ~faulted'
        BY <3>2 DEF Ignored
      <3> QED
        BY <2>2, <3>1, <3>2, <3>3
    <2> QED
      BY <2>3 DEF Blameless
  <1> QED
    BY <1>1, <1>2, ChainTypeHolds, PTL DEF Spec

(* Who owns a cluster, by the labelling.                                   *)
LEMMA OwnerOf ==
    \A region \in [Names -> SUBSET Data], limbo \in SUBSET Data :
        Labelling(region, limbo) =>
            /\ \A n \in Names : \A c \in region[n] : Owner[c] = n
            /\ \A c \in Data : (\A n \in Names : c \notin region[n]) =>
                   Owner[c] = IF Table[c] = 0 THEN "nobody" ELSE "limbo"
            /\ Owner \in [Data -> Names \cup {"nobody", "limbo"}]
  <1> SUFFICES ASSUME NEW region \in [Names -> SUBSET Data], NEW limbo \in SUBSET Data,
                      Labelling(region, limbo)
               PROVE  /\ \A n \in Names : \A c \in region[n] : Owner[c] = n
                      /\ \A c \in Data : (\A n \in Names : c \notin region[n]) =>
                             Owner[c] = IF Table[c] = 0 THEN "nobody" ELSE "limbo"
                      /\ Owner \in [Data -> Names \cup {"nobody", "limbo"}]
    OBVIOUS
  <1>1. Owner = OwnerIn(region)
    BY OwnersAreRegions
  <1>2. \A m, n \in Names : m # n => region[m] \cap region[n] = {}
    BY DEF Labelling, Apart
  <1> QED
    BY <1>1, <1>2 DEF OwnerIn

LEMMA NextOwnerOf ==
    (\A region \in [Names -> SUBSET Data], limbo \in SUBSET Data :
        Labelling(region, limbo) =>
            /\ \A n \in Names : \A c \in region[n] : Owner[c] = n
            /\ \A c \in Data : (\A n \in Names : c \notin region[n]) =>
                   Owner[c] = IF Table[c] = 0 THEN "nobody" ELSE "limbo"
            /\ Owner \in [Data -> Names \cup {"nobody", "limbo"}])'
  BY OwnerOf, PTL

(* Between calls every allocated cluster belongs to a file: neither a      *)
(* write, nor a failed allocation, nor a removal loses one, on a volume    *)
(* that had no file and no allocated cluster at first.                     *)
THEOREM NoLeakTheorem ==
    ASSUME Formatted
    PROVE  Spec => []NoLeak
  <1>1. Labelled /\ Blameless => NoLeak
    <2> SUFFICES ASSUME Labelled, Blameless, pc = "idle", failures = 0, powerCuts = 0,
                        NEW c \in Data, Owner[c] = "limbo"
                 PROVE  FALSE
      BY DEF NoLeak
    <2>1. PICK region \in [Names -> SUBSET Data], limbo \in SUBSET Data : Labelling(region, limbo)
      BY DEF Labelled, Followed, Together, Blameless, SomeLabelling
    <2>2. \A n \in Names : c \notin region[n]
      BY <2>1, OwnerOf, ChainAssumption
    <2>3. Table[c] # 0
      BY <2>1, <2>2, OwnerOf
    <2> QED
      BY <2>1, <2>2, <2>3, Formatted DEF Labelling, Accounted
  <1> QED
    BY <1>1, LabelledHolds, BlamelessHolds, PTL

-----------------------------------------------------------------------------
(***************************************************************************)
(* The owners of clusters change as FatOwners says: one step at a time, in *)
(* the order in which the code writes the table and the directory.         *)
(***************************************************************************)
LEMMA SameOwner ==
    ASSUME Table' = Table, dir' = dir
    PROVE  Owner' = Owner
  BY DEF Owner, FileClusters, ChainOf

LEMMA FilesHaveNames == \A n \in Names : n # "nobody" /\ n # "limbo"
  BY ChainAssumption

LEMMA LinkOwners ==
    ASSUME ChainType, Saved, NEW region \in [Names -> SUBSET Data], NEW limbo \in SUBSET Data,
           Labelling(region, limbo), Link
    PROVE  /\ powerCuts' = powerCuts
           /\ Owners!Claim(candidate) \/ Owners!Append(file, candidate)
           /\ candidate \in Data /\ file \in Names
  <1>1. /\ pc = "link" /\ pc' = "term"
        /\ UNCHANGED <<dir, contents, op, file, cluster, following, tail, candidate>>
        /\ candidate \in Entries /\ file \in Names /\ tail \in Entries
    BY DEF Link, storeVars, ChainType, LocalTypeOK
  <1>2. Wanted = tail /\ Cached(SectorOf(tail))
    BY <1>1, HitFacts DEF Link, Wanted
  <1>3. /\ Table'[tail] = candidate
        /\ \A d \in Entries : d # tail => Table'[d] = Table[d]
        /\ powerCuts' = powerCuts
    BY <1>1, <1>2, PutStore, Constants DEF Link, Put, faultVars
  <1>4. PICK r \in [Names -> SUBSET Data], l \in SUBSET Data :
            /\ Labelling(r, l)'
            /\ op = "create" => r = region
            /\ op = "write" => r = [region EXCEPT ![file] = region[file] \cup {candidate}]
    BY LinkLabels
  <1>5. /\ candidate \in Data /\ candidate # 0 /\ Table[candidate] = 0
        /\ op \in {"create", "write"}
        /\ \A n \in Names : candidate \notin region[n]
        /\ op = "create" => tail = candidate
        /\ op = "write" => tail \in region[file]
    BY <1>1 DEF Labelling, Allocating, Allocated, Creating, Extending, Data
  <1>6. /\ Owner[candidate] = "nobody"
        /\ Owner \in [Data -> Names \cup {"nobody", "limbo"}]
        /\ Owner' \in [Data -> Names \cup {"nobody", "limbo"}]
    BY <1>4, <1>5, OwnerOf, NextOwnerOf
  <1>7. CASE op = "create"
    <2>1. r = region
      BY <1>4, <1>7
    <2>2. Owner'[candidate] = "limbo"
      BY <1>1, <1>3, <1>4, <1>5, <1>7, <2>1, NextOwnerOf
    <2>3. ASSUME NEW c \in Data, c # candidate PROVE Owner'[c] = Owner[c]
      <3>1. Table'[c] = Table[c]
        BY <1>3, <1>5, <1>7, <2>3, Constants
      <3>2. CASE \E n \in Names : c \in region[n]
        BY <1>4, <2>1, <3>2, OwnerOf, NextOwnerOf
      <3>3. CASE \A n \in Names : c \notin region[n]
        BY <1>4, <2>1, <3>1, <3>3, OwnerOf, NextOwnerOf
      <3> QED
        BY <3>2, <3>3
    <2>4. Owner' = [Owner EXCEPT ![candidate] = "limbo"]
      BY <1>6, <2>2, <2>3
    <2> QED
      BY <1>1, <1>3, <1>5, <1>6, <2>4 DEF Owners!Claim
  <1>8. CASE op = "write"
    <2>1. r = [region EXCEPT ![file] = region[file] \cup {candidate}]
      BY <1>4, <1>8
    <2>2. \A n \in Names : \A c : c \in r[n] <=> (c \in region[n] \/ (n = file /\ c = candidate))
      BY <1>1, <2>1
    <2>3. Owner'[candidate] = file
      BY <1>1, <1>4, <2>2, NextOwnerOf
    <2>4. ASSUME NEW c \in Data, c # candidate PROVE Owner'[c] = Owner[c]
      <3>1. CASE \E n \in Names : c \in region[n]
        BY <1>4, <2>2, <3>1, OwnerOf, NextOwnerOf
      <3>2. CASE \A n \in Names : c \notin region[n]
        <4>1. Table'[c] = Table[c]
          BY <1>1, <1>3, <1>5, <1>8, <3>2, Constants
        <4> QED
          BY <1>4, <2>2, <2>4, <3>2, <4>1, OwnerOf, NextOwnerOf
      <3> QED
        BY <3>1, <3>2
    <2>5. Owner' = [Owner EXCEPT ![candidate] = file]
      BY <1>6, <2>3, <2>4
    <2>6. Owner[tail] = file /\ tail \in Data
      BY <1>1, <1>5, <1>8, OwnerOf
    <2>7. Owners!OwnedBy(file) # {}
      BY <2>6 DEF Owners!OwnedBy
    <2> QED
      BY <1>1, <1>3, <1>5, <1>6, <2>5, <2>7 DEF Owners!Append
  <1> QED
    BY <1>5, <1>7, <1>8

LEMMA TerminateOwners ==
    ASSUME ChainType, NEW region \in [Names -> SUBSET Data], NEW limbo \in SUBSET Data,
           Labelling(region, limbo), Terminate
    PROVE  /\ powerCuts' = powerCuts
           /\ Owner' = Owner \/ Owners!Claim(candidate)
           /\ candidate \in Data
  <1>1. /\ pc = "term"
        /\ UNCHANGED <<dir, contents, op, file, cluster, following, tail, candidate>>
        /\ candidate \in Entries /\ file \in Names
    BY DEF Terminate, storeVars, ChainType, LocalTypeOK
  <1>2. Wanted = candidate /\ Cached(SectorOf(candidate))
    BY <1>1, HitFacts DEF Terminate, Wanted
  <1>3. /\ Table'[candidate] # 0
        /\ \A d \in Entries : d # candidate => Table'[d] = Table[d]
        /\ powerCuts' = powerCuts
    <2>1. EndOfChain # 0
      BY Constants
    <2> QED
      BY <1>1, <1>2, <2>1, PutStore, Constants DEF Terminate, Put, faultVars
  <1>4. Labelling(region, {})'
    BY TerminateLabels
  <1>5. candidate \in Data
    BY <1>1 DEF Labelling, Allocating
  <1>6. ASSUME NEW c \in Data, c # candidate \/ Table[c] # 0 \/ \E n \in Names : c \in region[n]
        PROVE  Owner'[c] = Owner[c]
    <2>1. CASE \E n \in Names : c \in region[n]
      BY <1>4, <2>1, OwnerOf, NextOwnerOf
    <2>2. CASE \A n \in Names : c \notin region[n]
      <3>1. Table'[c] = 0 <=> Table[c] = 0
        BY <1>3, <1>6, <2>2, Constants
      <3> QED
        BY <1>4, <2>2, <3>1, OwnerOf, NextOwnerOf
    <2> QED
      BY <2>1, <2>2
  <1>7. /\ Owner \in [Data -> Names \cup {"nobody", "limbo"}]
        /\ Owner' \in [Data -> Names \cup {"nobody", "limbo"}]
    BY <1>4, OwnerOf, NextOwnerOf
  <1>8. CASE Table[candidate] # 0 \/ \E n \in Names : candidate \in region[n]
    <2>1. \A c \in Data : Owner'[c] = Owner[c]
      BY <1>6, <1>8
    <2> QED
      BY <1>3, <1>5, <1>7, <2>1
  <1>9. CASE Table[candidate] = 0 /\ \A n \in Names : candidate \notin region[n]
    <2>1. Owner[candidate] = "nobody" /\ Owner'[candidate] = "limbo"
      BY <1>3, <1>4, <1>5, <1>9, OwnerOf, NextOwnerOf
    <2>2. Owner' = [Owner EXCEPT ![candidate] = "limbo"]
      BY <1>6, <1>7, <2>1
    <2> QED
      BY <1>3, <1>5, <2>1, <2>2 DEF Owners!Claim
  <1> QED
    BY <1>8, <1>9

LEMMA WriteEntryOwners ==
    ASSUME ChainType, Saved, NEW region \in [Names -> SUBSET Data], NEW limbo \in SUBSET Data,
           Labelling(region, limbo), WriteEntry
    PROVE  /\ powerCuts' = powerCuts
           /\ Owners!Enter(file, candidate)
           /\ candidate \in Data /\ file \in Names
  <1>1. /\ pc = "entry" /\ file \in Names
        /\ Table' = Table /\ powerCuts' = powerCuts
    BY QuietStore DEF WriteEntry, ChainType, LocalTypeOK
  <1>2. PICK r \in [Names -> SUBSET Data], l \in SUBSET Data :
            Labelling(r, l)' /\ r = [region EXCEPT ![file] = {candidate}]
    BY WriteEntryLabels
  <1>3. /\ candidate \in Data /\ op = "create" /\ dir[file] = 0
        /\ \A n \in Names : candidate \notin region[n]
        /\ Table[candidate] # 0
        /\ region[file] = {}
    BY <1>1, Constants DEF Labelling, Allocating, Creating, Entered
  <1>4. \A n \in Names : \A c : c \in r[n] <=> (c \in region[n] \/ (n = file /\ c = candidate))
    BY <1>1, <1>2, <1>3
  <1>5. Owner[candidate] = "limbo" /\ Owner'[candidate] = file
    BY <1>1, <1>2, <1>3, <1>4, OwnerOf, NextOwnerOf
  <1>6. ASSUME NEW c \in Data, c # candidate PROVE Owner'[c] = Owner[c]
    <2>1. ASSUME NEW n \in Names, c \in region[n] PROVE Owner'[c] = Owner[c]
      <3>1. Owner[c] = n
        BY <2>1, OwnerOf
      <3>2. Owner'[c] = n
        BY <1>2, <1>4, <2>1, NextOwnerOf
      <3> QED
        BY <3>1, <3>2
    <2>2. CASE \A n \in Names : c \notin region[n]
      <3>1. \A n \in Names : c \notin r[n]
        BY <1>4, <1>6, <2>2, Zenon
      <3>2. Owner[c] = IF Table[c] = 0 THEN "nobody" ELSE "limbo"
        BY <2>2, OwnerOf
      <3>3. Owner'[c] = IF Table'[c] = 0 THEN "nobody" ELSE "limbo"
        BY <1>2, <3>1, NextOwnerOf
      <3> QED
        BY <1>1, <3>2, <3>3, Zenon
    <2> QED
      BY <2>1, <2>2
  <1>7. /\ Owner \in [Data -> Names \cup {"nobody", "limbo"}]
        /\ Owner' \in [Data -> Names \cup {"nobody", "limbo"}]
    BY <1>2, OwnerOf, NextOwnerOf
  <1>8. Owner' = [Owner EXCEPT ![candidate] = file]
    BY <1>5, <1>6, <1>7
  <1>9. ASSUME NEW c \in Data, Owner[c] = file PROVE FALSE
    <2>1. CASE \E n \in Names : c \in region[n]
      BY <1>1, <1>3, <1>9, <2>1, OwnerOf
    <2>2. CASE \A n \in Names : c \notin region[n]
      BY <1>1, <1>9, <2>2, OwnerOf, FilesHaveNames
    <2> QED
      BY <2>1, <2>2
  <1> QED
    BY <1>1, <1>3, <1>5, <1>8, <1>9 DEF Owners!Enter, Owners!OwnedBy

LEMMA UnlinkOwners ==
    ASSUME ChainType, NEW region \in [Names -> SUBSET Data], NEW limbo \in SUBSET Data,
           Labelling(region, limbo), Unlink
    PROVE  powerCuts' = powerCuts /\ Owners!Drop(file) /\ file \in Names
  <1>1. /\ pc = "unlink" /\ file \in Names
        /\ Table' = Table /\ powerCuts' = powerCuts
    BY QuietStore DEF Unlink, ChainType, LocalTypeOK
  <1>2. PICK r \in [Names -> SUBSET Data], l \in SUBSET Data :
            Labelling(r, l)' /\ r = [region EXCEPT ![file] = {}]
    BY UnlinkLabels
  <1>3. \A n \in Names : \A c : c \in r[n] <=> (c \in region[n] /\ n # file)
    BY <1>1, <1>2
  <1>4. Owner' \in [Data -> Names \cup {"nobody", "limbo"}]
    BY <1>2, NextOwnerOf
  <1>5. ASSUME NEW c \in Data
        PROVE  Owner'[c] = IF Owner[c] = file THEN "limbo" ELSE Owner[c]
    <2>1. CASE c \in region[file]
      <3>1. Table'[c] # 0
        BY <1>1, <2>1 DEF Labelling, Allocated
      <3>2. \A n \in Names : n # file => c \notin region[n]
        BY <1>1, <2>1 DEF Labelling, Apart
      <3>3. \A n \in Names : c \notin r[n]
        BY <1>3, <3>2
      <3>4. Owner'[c] = "limbo"
        BY <1>2, <3>1, <3>3, NextOwnerOf
      <3>5. Owner[c] = file
        BY <1>1, <2>1, OwnerOf
      <3> QED
        BY <3>4, <3>5
    <2>2. ASSUME NEW n \in Names, c \in region[n], n # file
          PROVE  Owner'[c] = IF Owner[c] = file THEN "limbo" ELSE Owner[c]
      <3>1. Owner[c] = n
        BY <2>2, OwnerOf
      <3>2. Owner'[c] = n
        BY <1>2, <1>3, <2>2, NextOwnerOf
      <3> QED
        BY <2>2, <3>1, <3>2
    <2>3. CASE \A n \in Names : c \notin region[n]
      <3>1. Owner[c] = IF Table[c] = 0 THEN "nobody" ELSE "limbo"
        BY <2>3, OwnerOf
      <3>2. \A n \in Names : c \notin r[n]
        BY <1>3, <2>3
      <3>3. Owner'[c] = IF Table[c] = 0 THEN "nobody" ELSE "limbo"
        BY <1>1, <1>2, <3>2, NextOwnerOf
      <3> QED
        BY <1>1, <3>1, <3>3, FilesHaveNames
    <2> QED
      BY <2>1, <2>2, <2>3
  <1>6. Owner' = [c \in Data |-> IF Owner[c] = file THEN "limbo" ELSE Owner[c]]
    BY <1>4, <1>5
  <1> QED
    BY <1>1, <1>6 DEF Owners!Drop

LEMMA MarkOwners ==
    ASSUME ChainType, NEW region \in [Names -> SUBSET Data], NEW limbo \in SUBSET Data,
           Labelling(region, limbo), Mark, result = "ok"
    PROVE  /\ powerCuts' = powerCuts
           /\ Owner' = Owner \/ Owners!Reclaim(cluster)
           /\ cluster \in Data
  <1>1. pc = "mark"
    BY DEF Mark
  <1>2. Wanted = cluster /\ cluster \in Entries /\ Cached(SectorOf(cluster))
    BY <1>1, GotFacts DEF Mark, Wanted
  <1>3. /\ Table'[cluster] = 0
        /\ \A d \in Entries : d # cluster => Table'[d] = Table[d]
        /\ powerCuts' = powerCuts
    BY <1>1, <1>2, PutStore, Constants DEF Mark, Put, faultVars
  <1>4. Labelling(region, limbo)'
    BY MarkLabels
  <1>5. cluster \in Data /\ \A n \in Names : cluster \notin region[n]
    BY <1>1 DEF Labelling, Walking, Apart
  <1>6. ASSUME NEW c \in Data, c # cluster PROVE Owner'[c] = Owner[c]
    <2>1. CASE \E n \in Names : c \in region[n]
      BY <1>4, <2>1, OwnerOf, NextOwnerOf
    <2>2. CASE \A n \in Names : c \notin region[n]
      <3>1. Table'[c] = Table[c]
        BY <1>3, <1>6, Constants
      <3> QED
        BY <1>4, <2>2, <3>1, OwnerOf, NextOwnerOf
    <2> QED
      BY <2>1, <2>2
  <1>7. /\ Owner \in [Data -> Names \cup {"nobody", "limbo"}]
        /\ Owner' \in [Data -> Names \cup {"nobody", "limbo"}]
    BY <1>4, OwnerOf, NextOwnerOf
  <1>8. /\ Owner[cluster] = IF Table[cluster] = 0 THEN "nobody" ELSE "limbo"
        /\ Owner'[cluster] = "nobody"
    BY <1>3, <1>4, <1>5, OwnerOf, NextOwnerOf
  <1>9. Owner' = [Owner EXCEPT ![cluster] = "nobody"]
    BY <1>6, <1>7, <1>8
  <1>10. Owner[cluster] = "nobody" => Owner' = Owner
    BY <1>7, <1>9
  <1> QED
    BY <1>3, <1>5, <1>8, <1>9, <1>10 DEF Owners!Reclaim

LEMMA CrashOwners ==
    ASSUME ChainType, NEW region \in [Names -> SUBSET Data], NEW limbo \in SUBSET Data,
           Labelling(region, limbo), Crash, NumSectors = 1
    PROVE  Owners!Restart
  <1>1. PICK r \in [Names -> SUBSET Data], l \in SUBSET Data :
            Labelling(r, l)' /\ \A n \in Names : r[n] \subseteq region[n]
    BY CrashLabels
  <1>2. Owner' \in [Data -> Names \cup {"nobody", "limbo"}]
    BY <1>1, NextOwnerOf
  <1>3. ASSUME NEW c \in Data PROVE Owner'[c] \in {Owner[c], "nobody", "limbo"}
    <2>1. ASSUME NEW n \in Names, c \in r[n] PROVE Owner'[c] = n /\ Owner[c] = n
      BY <1>1, <2>1, OwnerOf, NextOwnerOf
    <2>2. CASE \A n \in Names : c \notin r[n]
      BY <1>1, <2>2, NextOwnerOf
    <2> QED
      BY <2>1, <2>2
  <1> QED
    BY <1>2, <1>3 DEF Owners!Restart, Crash, PowerCut

LEMMA StepOwners ==
    ASSUME ChainType, SavedUnlessFaulted, Labelled, Together, Together', [Next]_vars
    PROVE  [Owners!OwnersNext]_Owners!ownerVars
  <1>1. CASE faulted'
    BY <1>1 DEF Owners!OwnersNext
  <1> SUFFICES ASSUME ~faulted'
               PROVE  UNCHANGED <<Owner, powerCuts, faulted>> \/ Owners!Promised
    <2>1. ~faulted' => ~faulted
      BY NotFaulted
    <2> QED
      BY <1>1, <2>1 DEF Owners!OwnersNext, Owners!ownerVars
  <1>2. /\ ~faulted' /\ ~faulted /\ ~UnlinkFails /\ (Ignored /\ pc # "idle" => result = "ok")
        /\ faulted' = faulted
        /\ Saved
    <2>1. ~faulted' /\ ~faulted /\ ~UnlinkFails /\ (Ignored /\ pc # "idle" => result = "ok")
      BY NotFaulted
    <2>2. faulted' \in BOOLEAN /\ faulted \in BOOLEAN
      BY StepChainType DEF ChainType, LocalTypeOK
    <2> QED
      BY <2>1, <2>2 DEF SavedUnlessFaulted
  <1>3. PICK region \in [Names -> SUBSET Data], limbo \in SUBSET Data : Labelling(region, limbo)
    BY <1>2 DEF Labelled, Followed, SomeLabelling
  <1>4. ASSUME Table' = Table, dir' = dir, powerCuts' = powerCuts
        PROVE  UNCHANGED <<Owner, powerCuts, faulted>>
    BY <1>2, <1>4, SameOwner
  <1>5. CASE UNCHANGED vars \/ Lookup \/ Fetch \/ (Transfer /\ ~WriteFirst /\ UNCHANGED <<chainVars, faulted>>)
    <2>1. dir' = dir
      BY <1>5 DEF vars, Lookup, Fetch, chainVars, storeVars
    <2>2. UNCHANGED cacheVars \/ (\E s \in Sectors : Load(s)) \/ (Transfer /\ ~WriteFirst)
      <3>1. Fetch => \E s \in Sectors : Load(s)
        BY Position DEF Fetch
      <3> QED
        BY <1>5, <3>1 DEF Lookup, vars
    <2> QED
      BY <1>4, <2>1, <2>2, QuietStore
  <1>6. CASE WriteFirst /\ UNCHANGED <<chainVars, faulted>>
    <2>1. Table' = Table
      BY <1>6, WriteFirstRefines DEF WriteFirst, ChainType, CInv, WritesLoaded, Array!Persist
    <2> QED
      BY <1>4, <1>6, <2>1 DEF WriteFirst, chainVars, storeVars, faultVars
  <1>7. CASE Crash
    <2>1. NumSectors = 1
      BY <1>7 DEF Together, Crash, PowerCut, ChainType, CInv, CacheTypeOK
    <2> QED
      BY <1>3, <1>7, <2>1, CrashOwners DEF Owners!Promised
  <1>8. CASE WriteEntry
    BY <1>2, <1>3, <1>8, WriteEntryOwners DEF Owners!Promised
  <1>9. CASE Unlink
    BY <1>3, <1>9, UnlinkOwners DEF Owners!Promised
  <1>10. CASE Link
    BY <1>2, <1>3, <1>10, LinkOwners DEF Owners!Promised
  <1>11. CASE Terminate
    BY <1>2, <1>3, <1>11, TerminateOwners DEF Owners!Promised
  <1>12. CASE Mark
    <2>1. result = "ok"
      BY <1>2, <1>12 DEF Mark
    <2> QED
      BY <1>2, <1>3, <1>12, <2>1, MarkOwners DEF Owners!Promised
  <1>13. CASE ChangeFails
    BY <1>2, <1>13 DEF ChangeFails, LoadFailed, Looked
  <1>14. CASE \/ Call \/ ScanNext \/ ScanFull \/ ScanHit \/ Zero \/ ZeroFails
              \/ Sync \/ Synced \/ WriteEntryFails \/ Flush \/ Finish \/ Visit
              \/ NextStop \/ NextFollow \/ NextAllocate \/ FreeNext \/ FreeDone
    <2>1. /\ dir' = dir
          /\ Looked \/ UNCHANGED cacheVars \/ Save \/ CountsFailure
      BY <1>14 DEF Call, Create, WriteFile, Remove, ScanNext, ScanFull, ScanHit, Zero, ZeroFails,
         Sync, Synced, WriteEntryFails, Flush, Finish, Visit, NextStop, NextFollow, NextAllocate,
         FreeNext, FreeDone, MayFail, CountsFailure, cacheVars, faultVars, storeVars
    <2> QED
      BY <1>4, <2>1, QuietStore
  <1> QED
    BY <1>2, <1>5, <1>6, <1>7, <1>8, <1>9, <1>10, <1>11, <1>12, <1>13, <1>14 DEF Next, Run

(* On a volume that was formatted, the driver keeps what FatOwners promises *)
(* the files, whatever is evicted from the cache on the way, until it      *)
(* ignores a failure; across power cuts, if the table is one sector.       *)
THEOREM ChainsKeepOwners ==
    ASSUME Formatted
    PROVE  Spec /\ []Together => ImplementsOwners
  <1>1. ChainInit => Owners!OwnersInit
    <2> SUFFICES ASSUME ChainInit PROVE Owners!OwnersInit
      OBVIOUS
    <2>1. \A n \in Names : FileClusters(n) = {}
      BY DEF ChainInit, FileClusters, ChainOf
    <2>2. \A c \in Data : Table[c] = 0
      BY Formatted, Constants DEF ChainInit, CacheInit, Table, Cached, Formatted
    <2>3. Owner = [c \in Data |-> "nobody"]
      BY <2>1, <2>2 DEF Owner
    <2> QED
      BY <2>3 DEF Owners!OwnersInit, ChainInit, CacheInit
  <1>2. /\ ChainType /\ SavedUnlessFaulted /\ Labelled /\ Together /\ Together' /\ [Next]_vars
        => [Owners!OwnersNext]_Owners!ownerVars
    BY StepOwners
  <1> QED
    BY <1>1, <1>2, ChainTypeHolds, SavedHolds, LabelledHolds, PTL
       DEF Spec, ImplementsOwners, Owners!OwnersSpec
=============================================================================
