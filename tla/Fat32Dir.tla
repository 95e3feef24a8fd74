------------------------------ MODULE Fat32Dir ------------------------------
(***************************************************************************)
(* Directories of fs/fat32.c: the search for a name, the choice of a slot  *)
(* for a new one, making a directory, removing a file, listing.            *)
(*                                                                         *)
(* A call is one step.  What can go wrong inside one between two transfers *)
(* is the subject of FatChain; here the table is an array (FatTable), and  *)
(* what may fail is save_descriptor: the write of a new or a removed       *)
(* entry.  Reads, the zeroing of a new cluster and the write of the two    *)
(* entries of a new directory do not fail here.  A name is its 8.3 form;   *)
(* the directory a path leads to is given by its first cluster.            *)
(***************************************************************************)
EXTENDS Integers, FiniteSets

CONSTANTS
    Names,              \* 8.3 names
    Dot, DotDot,        \* the two names initialize_directory_inside writes
    EntriesPerCluster,  \* 16 in the code
    LastCluster,        \* the last cluster of the volume
    EndOfChain,         \* 0xFFFFFFF in the code
    Volumes             \* what a volume may hold: next and slots

Root      == 2
Clusters  == Root .. LastCluster
SlotIndex == 0 .. EntriesPerCluster - 1

ASSUME DirAssumption ==
    /\ EntriesPerCluster \in Nat \ {0, 1}
    /\ LastCluster \in Nat
    /\ LastCluster >= Root
    /\ EndOfChain \in Nat
    /\ EndOfChain > LastCluster
    /\ {Dot, DotDot} \cap Names = {}
    /\ Dot # DotDot

VARIABLES
    next,       \* the file allocation table: 0, a cluster or EndOfChain
    slots,      \* cluster |-> its bytes read as entries of a directory
    stray,      \* a sector before the first cluster has been written
    damaged,    \* ghost: fat32_make_dir has been called on a full volume
    givenUp     \* ghost: first clusters freed by a removal that left the entry

vars == <<next, slots, stray, damaged, givenUp>>

(* the first byte of an entry tells an unused one and a deleted one; a     *)
(* deleted entry keeps its first cluster                                   *)
Unused == [kind |-> "end", name |-> Dot, start |-> 0]
Slot == [kind  : {"end", "deleted", "file", "dir"},
         name  : Names \cup {Dot, DotDot},
         start : {0} \cup Clusters]

IsFree(c) == next[c] = 0
FreeClusters == {c \in Clusters : IsFree(c)}

(* the cluster find_empty_cluster comes to first, if there is one *)
FirstFree == {c \in FreeClusters : \A b \in FreeClusters : c <= b}

(* The clusters that can be reached from c along the edges: those that are *)
(* in every set that has c in it and that no edge leaves.  An empty file   *)
(* and a volume label of another system have first cluster 0: nothing can  *)
(* be reached from there.                                                  *)
Around(c, edges) ==
    {S \in SUBSET Clusters : c \in S /\ \A e \in edges : e[1] \in S => e[2] \in S}

Reach(c, edges) ==
    LET around == Around(c, edges)
    IN  {b \in Clusters : c \in Clusters /\ \A S \in around : b \in S}

(* The clusters of the chain that begins at c.  (A bound variable is       *)
(* evaluated once: hence \in {Links}, and {Chain(c)} and {Children} below.) *)
Links == {<<b, next[b]>> : b \in {b \in Clusters : next[b] \in Clusters}}
Chain(c) == UNION {Reach(c, edges) : edges \in {Links}}

-----------------------------------------------------------------------------
(* find_node_in_directory.  The entries of a directory, each with its      *)
(* place on the disk; rest is what is left of the chain there.             *)

EntriesOf(d) ==
    UNION {{[cluster |-> c, index |-> i, slot |-> slots[c][i], rest |-> r] :
               i \in SlotIndex, r \in {Chain(c)}} : c \in Chain(d)}

(* the order in which it looks at them *)
Before(e, f) ==
    \/ e.cluster = f.cluster /\ e.index < f.index
    \/ e.cluster # f.cluster /\ f.cluster \in e.rest

First(es) == {e \in es : \A f \in es : ~Before(f, e)}
Last(es)  == {e \in es : \A f \in es : ~Before(e, f)}

InLast(e) == next[e.cluster] = EndOfChain

(* compare_directory *)
Unwritten(e)  == e.slot.kind = "end"
Deleted(e)    == e.slot.kind = "deleted"
InUse(e)      == e.slot.kind \in {"file", "dir"}
Matches(e, n) == InUse(e) /\ e.slot.name = n

(* where the search for n may stop before the chain ends *)
StopsAtDeleted(es, n) == {e \in es : Unwritten(e) \/ Deleted(e) \/ Matches(e, n)}

Stops(es, n) == {e \in es : Unwritten(e) \/ Matches(e, n)}

(* the entry for n, if there is one *)
Hits(d, n) == {e \in First(Stops(EntriesOf(d), n)) : Matches(e, n)}

Found(d, n) == Hits(d, n) # {}

(* the deleted entries the search has met by then; the last one counts *)
Reusable(es, n) ==
    {e \in es : Deleted(e) /\ \A f \in Stops(es, n) : Before(e, f)}

(* The place for a new entry, if there is one.  After the last cluster the *)
(* loop turns once more, with the value that ends the chain for a cluster  *)
(* and the entries of the last cluster still in its buffer: a deleted one  *)
(* among them is taken for an entry of that "cluster".  Where nothing can  *)
(* be reused and nothing is unwritten a cluster is allocated, at the end   *)
(* of the chain that begins with that value: it is zeroed, but change_fat  *)
(* cannot load a sector so far behind the table, and leaves it free and    *)
(* unlinked.                                                               *)
PlacesOneFurther(d, n) ==
    {[how |-> "end", cluster |-> e.cluster, start |-> 0,
      index |-> (e.index + 1) % EntriesPerCluster] : e \in First(Stops(EntriesOf(d), n))}

Places(d, n) ==
    LET es    == EntriesOf(d)
        stops == Stops(es, n)
        reuse == Reusable(es, n)
    IN  IF reuse # {}
        THEN {[how     |-> "deleted",
               cluster |-> IF stops = {} /\ InLast(e) THEN EndOfChain ELSE e.cluster,
               index   |-> e.index, start |-> e.slot.start] : e \in Last(reuse)}
        ELSE IF stops # {}
        THEN {[how |-> "end", cluster |-> e.cluster, index |-> e.index, start |-> 0] :
                 e \in First(stops)}
        ELSE {[how |-> "grown", cluster |-> c, index |-> 0, start |-> 0] : c \in FirstFree}

(* resolve_path goes from entry to entry: the directories there are.  One  *)
(* of cluster 0, which other systems write for the root in '..', is empty  *)
(* to the search.                                                          *)
Visible(d) ==
    LET es == EntriesOf(d)
    IN  {e \in es : InUse(e) /\ \A f \in es : Unwritten(f) => ~Before(f, e)}

Children ==
    UNION {{<<d, e.slot.start>> :
              e \in {e \in Visible(d) : e.slot.kind = "dir" /\ e.slot.start \in Clusters}} :
              d \in Clusters}
Dirs == UNION {Reach(Root, edges) : edges \in {Children}}

-----------------------------------------------------------------------------
(* initialize_directory_inside *)

Inside(c, parent) ==
    [i \in SlotIndex |->
        CASE i = 0 -> [kind |-> "dir", name |-> Dot, start |-> c]
          [] i = 1 -> [kind |-> "dir", name |-> DotDot, start |-> parent]
          [] OTHER -> Unused]

(* fat32_open_file with O_CREAT, and fat32_make_dir, on a name that is not *)
(* found: initialize_node zeroes and takes a cluster and writes the entry, *)
(* which may fail; a directory gets its two entries all the same.          *)
CreateAtUnmarked(p, d, n, kind, written, c) ==
    LET entry == [kind |-> kind, name |-> n, start |-> c]
    IN  /\ slots' = [x \in Clusters |->
              IF x = c /\ kind = "dir" THEN Inside(c, d)
              ELSE [i \in SlotIndex |->
                      IF written /\ x = p.cluster /\ i = p.index THEN entry
                      ELSE IF x = c THEN Unused ELSE slots[x][i]]]
        /\ stray' = (stray \/ (written /\ p.cluster = EndOfChain))
        /\ UNCHANGED <<next, damaged, givenUp>>

CreateAt(p, d, n, kind, written, c) ==
    LET entry == [kind |-> kind, name |-> n, start |-> c]
    IN  /\ next' = [next EXCEPT ![c] = EndOfChain]
        /\ slots' = [x \in Clusters |->
              IF x = c /\ kind = "dir" THEN Inside(c, d)
              ELSE [i \in SlotIndex |->
                      IF written /\ x = p.cluster /\ i = p.index THEN entry
                      ELSE IF x = c THEN Unused ELSE slots[x][i]]]
        /\ stray' = (stray \/ (written /\ p.cluster = EndOfChain))
        /\ UNCHANGED <<damaged, givenUp>>

CreateUnchecked(d, n, written) ==
    /\ ~Found(d, n)
    /\ \E p \in Places(d, n), c \in IF FreeClusters = {} THEN {0} ELSE FirstFree,
          kind \in {"file", "dir"} : CreateAt(p, d, n, kind, written, c)

Create(d, n, written) ==
    /\ ~Found(d, n)
    /\ \E p \in Places(d, n), c \in FirstFree, kind \in {"file", "dir"} :
          CreateAt(p, d, n, kind, written, c)

(* On a full volume initialize_node does nothing, but its result is not    *)
(* looked at: the two entries go to the first cluster of whatever entry is *)
(* in the slot, to a cluster 0 before the first if it is an unwritten one. *)
MakeDirWhenFull(d, n) ==
    /\ ~Found(d, n)
    /\ FreeClusters = {}
    /\ \E p \in Places(d, n) :
          IF p.start \in Clusters
          THEN slots' = [slots EXCEPT ![p.start] = Inside(p.start, d)] /\ UNCHANGED stray
          ELSE stray' = TRUE /\ UNCHANGED slots
    /\ damaged' = TRUE
    /\ UNCHANGED <<next, givenUp>>

(* fat32_remove_file; it refuses a directory.  Whether save_descriptor has *)
(* written the deleted entry is not looked at: the chain is freed all the  *)
(* same, and the name may still be found.                                  *)
Freed(c) ==
    LET gone == Chain(c)
    IN  [b \in Clusters |-> IF b \in gone THEN 0 ELSE next[b]]

Forgotten(c, written) ==
    IF written THEN givenUp \ {c} ELSE givenUp \cup ({c} \cap Clusters)

RemoveCutsDirectory(d, n, written) ==
    \E e \in Hits(d, n) :
        /\ e.slot.kind = "file"
        /\ slots' = IF written THEN [slots EXCEPT ![e.cluster][e.index] = Unused] ELSE slots
        /\ next' = Freed(e.slot.start)
        /\ givenUp' = Forgotten(e.slot.start, written)
        /\ UNCHANGED <<stray, damaged>>

RemoveFile(d, n, written) ==
    \E e \in Hits(d, n) :
        /\ e.slot.kind = "file"
        /\ slots' = IF written
                    THEN [slots EXCEPT ![e.cluster][e.index] =
                             [Unused EXCEPT !.kind = "deleted", !.start = e.slot.start]]
                    ELSE slots
        /\ next' = Freed(e.slot.start)
        /\ givenUp' = Forgotten(e.slot.start, written)
        /\ UNCHANGED <<stray, damaged>>

(* A cluster given up has been taken for another file or directory while   *)
(* its old name can still be found: two names lead to it, and from here on *)
(* nothing is promised.  The model ends there.  A removal that is repeated *)
(* before that, and written, repairs the volume.                           *)
Crossed == \E c \in givenUp : ~IsFree(c)

-----------------------------------------------------------------------------
(* fat32_list_dir: what a buffer for size entries receives, and the        *)
(* result.  Like the search it looks at the last cluster twice when        *)
(* nothing in the directory is unwritten: what is seen is an entry and the *)
(* turn in which it is.                                                    *)

ListedWithDeleted(e) == ~Unwritten(e)

Listed(e) == InUse(e)

Listing(d, size) ==
    LET es      == EntriesOf(d)
        ends    == {e \in es : Unwritten(e)}
        seen    == IF ends # {} THEN {1} \X {e \in es : \A f \in ends : Before(e, f)}
                   ELSE ({1} \X es) \cup ({2} \X {e \in es : InLast(e)})
        put     == {s \in seen : Listed(s[2])}
        ahead(s) == {t \in put : t[1] < s[1] \/ (t[1] = s[1] /\ Before(t[2], s[2]))}
        kept    == {s \in put : Cardinality(ahead(s)) < size}
    IN  [entries |-> kept,
         result  |-> IF ends # {} /\ Cardinality(put) < size THEN 0 ELSE Cardinality(kept)]

-----------------------------------------------------------------------------
TypeOK ==
    /\ next \in [Clusters -> {0, EndOfChain} \cup Clusters]
    /\ slots \in [Clusters -> [SlotIndex -> Slot]]
    /\ \A c \in Clusters, i \in SlotIndex :
          slots[c][i].kind = "dir" /\ slots[c][i].name \in Names => slots[c][i].start \in Clusters
    /\ stray \in BOOLEAN
    /\ givenUp \subseteq Clusters

(* A name stands for one thing: no directory has two entries of one name,  *)
(* whatever slots were given up and used again (find_node_in_directory     *)
(* takes a deleted slot only when it has seen the whole directory).        *)
NoDuplicates ==
    \A d \in Dirs : \A e, f \in Visible(d) : e.slot.name = f.slot.name => e = f

(* the entries that can be found under a name *)
Named == UNION {{e \in Visible(d) : e.slot.name \in Names} : d \in Dirs}

NamedAs(kind) == {e \in Named : e.slot.kind = kind}

(* What fat32.c takes for granted of the volume it is given, and keeps: a  *)
(* chain does not run into itself; what a directory or a file consists of  *)
(* is allocated (but for what a failed removal gave up) and its own; a     *)
(* directory is named once, the root never; nothing in use is behind an    *)
(* unwritten entry; and where a deleted entry leads there is no directory, *)
(* or one that is a single cluster.                                        *)
Loopless == \A c \in Clusters : next[c] \in Clusters => c \notin Chain(next[c])

DirsApart ==
    \A d \in Dirs :
        /\ \A c \in Chain(d) : ~IsFree(c)
        /\ \A g \in Dirs \ {d} : Chain(d) \cap Chain(g) = {}

FilesApart ==
    Crossed \/ \A e \in NamedAs("file") :
        /\ \A c \in Chain(e.slot.start) : ~IsFree(c) \/ c \in givenUp
        /\ \A d \in Dirs : Chain(e.slot.start) \cap Chain(d) = {}
        /\ \A f \in NamedAs("file") \ {e} : Chain(e.slot.start) \cap Chain(f.slot.start) = {}

NamedOnce ==
    \A e \in NamedAs("dir") :
        /\ e.slot.start # Root
        /\ \A f \in NamedAs("dir") \ {e} : e.slot.start # f.slot.start

NothingBehind ==
    \A d \in Dirs : \A e, f \in EntriesOf(d) : Unwritten(e) /\ InUse(f) => ~Before(e, f)

DeletedApart ==
    \A d, g \in Dirs : \A e \in EntriesOf(d) :
        Deleted(e) /\ e.slot.start \in Chain(g) => Chain(g) = {g}

WellFormed ==
    /\ TypeOK /\ NoDuplicates /\ Loopless /\ DirsApart
    /\ FilesApart /\ NamedOnce /\ NothingBehind /\ DeletedApart

Init ==
    /\ \E v \in Volumes : next = v.next /\ slots = v.slots
    /\ stray = FALSE
    /\ damaged = FALSE
    /\ givenUp = {}
    /\ WellFormed

Next ==
    /\ ~Crossed
    /\ \E d \in Dirs, n \in Names :
          \/ \E written \in BOOLEAN : Create(d, n, written) \/ RemoveFile(d, n, written)
          \/ MakeDirWhenFull(d, n)

Spec == Init /\ [][Next]_vars

-----------------------------------------------------------------------------
(* Properties *)

(* Entries that can be found lead to allocated clusters, each to its own,  *)
(* and none to the root's, after any order of initialize_node and          *)
(* delete_fat_chain.  The one entry that leads to a free cluster is that   *)
(* of a removal whose deleted entry was not written, and it has that       *)
(* cluster to itself until a call takes it for another name.               *)
EntriesApart ==
    Crossed \/ \A e \in Named :
        /\ e.slot.start \in Clusters \ givenUp => ~IsFree(e.slot.start)
        /\ Chain(e.slot.start) \cap Chain(Root) = {}
        /\ \A f \in Named \ {e} : Chain(e.slot.start) \cap Chain(f.slot.start) = {}

More == 2 * EntriesPerCluster * LastCluster     \* more than any directory holds

(* fat32_list_dir shows the names find_node_in_directory finds, and each   *)
(* of them once when it says that it has reached the end.                  *)
ListsWhatIsFound ==
    \A d \in Dirs :
        LET l == Listing(d, More)
        IN  /\ {s[2].slot.name : s \in l.entries} = {n \in Names \cup {Dot, DotDot} : Found(d, n)}
            /\ l.result = 0 =>
                   \A s, t \in l.entries : s[2].slot.name = t[2].slot.name => s = t

(* What a call writes into a slot of a directory, unwritten or given up by *)
(* another name, is found afterwards under the name it has.                *)
PlacedIsFound ==
    [][\A d \in Dirs : \A c \in Chain(d), i \in SlotIndex, n \in Names \cup {Dot, DotDot} :
          /\ slots'[c][i] # slots[c][i]
          /\ slots'[c][i].kind \in {"file", "dir"}
          /\ slots'[c][i].name = n
          => Found(d, n)']_vars

(* fs/fat32.c:648 says "If we were by the end of the cluster we need to    *)
(* allocated another cluster": a directory that is full grows.             *)
GrownIsFound ==
    [][\A d \in Dirs, n \in Names :
          Create(d, n, TRUE) /\ (\A p \in Places(d, n) : p.how = "grown") => Found(d, n)']_vars

(* what is found in each directory *)
Tree == INSTANCE DirTree WITH
    Sites <- Clusters, Top <- Root, damaged <- damaged \/ Crossed,
    tree <- LET dirs == Dirs
            IN  [dirs  |-> dirs,
                 found |-> UNION {{<<d, e.slot.name>> : e \in {e \in Visible(d) :
                                                               e.slot.name \in Names}} : d \in dirs}]

(* The directories implement DirTree: no call makes another name appear,   *)
(* vanish or move, and a new directory is empty.  A removal that is not    *)
(* written changes nothing here; one whose cluster is then taken for       *)
(* another name ends what is promised, as a damaged volume does.           *)
ImplementsTree == Tree!TreeSpec
=============================================================================
