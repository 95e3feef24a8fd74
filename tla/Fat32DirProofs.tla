--------------------------- MODULE Fat32DirProofs ---------------------------
(***************************************************************************)
(* Theorems about directories, for every set of names, every size of a     *)
(* cluster and of the volume, and every well-formed content of the volume. *)
(*                                                                         *)
(* No call of this module adds a link to the table once a directory or a   *)
(* file has been made: a chain is taken as one cluster and given up whole. *)
(* So the chain of a directory never changes, and what is to be followed   *)
(* is the content of slots at fixed places.  The invariant is stated in    *)
(* those terms (Kept): of a table nx, of slots sl, of a set D of           *)
(* directories and of the clusters G that were given up, all of them       *)
(* values, so that it can be applied to a state and to the one after it    *)
(* alike.                                                                  *)
(***************************************************************************)
EXTENDS Fat32Dir, FiniteSetTheorems, TLAPS

LEMMA Constants ==
    /\ EntriesPerCluster \in Nat /\ EntriesPerCluster >= 2
    /\ LastCluster \in Nat /\ Root \in Clusters /\ Clusters \subseteq Nat
    /\ EndOfChain \in Nat /\ EndOfChain \notin Clusters /\ 0 \notin Clusters /\ EndOfChain # 0
    /\ SlotIndex \subseteq Nat /\ 0 \in SlotIndex /\ 1 \in SlotIndex
    /\ Dot \notin Names /\ DotDot \notin Names /\ Dot # DotDot
  BY DirAssumption DEF Root, Clusters, SlotIndex

(* What can be reached along edges.                                        *)
LEMMA ReachIs ==
    ASSUME NEW c, NEW edges, NEW b
    PROVE  b \in Reach(c, edges) <=>
               /\ b \in Clusters /\ c \in Clusters
               /\ \A S \in SUBSET Clusters :
                      c \in S /\ (\A e \in edges : e[1] \in S => e[2] \in S) => b \in S
  BY DEF Reach, Around

LinksOf(nx) == {<<b, nx[b]>> : b \in {b \in Clusters : nx[b] \in Clusters}}

(* the chain that begins at c if the table is nx *)
ChainIn(nx, c) == Reach(c, LinksOf(nx))

LEMMA ChainsAre ==
    /\ \A c : Chain(c) = ChainIn(next, c)
    /\ \A c : Chain(c)' = ChainIn(next', c)
  BY DEF Chain, ChainIn, Links, LinksOf

Follows(nx, S) == \A b \in S : nx[b] \in Clusters => nx[b] \in S

LEMMA ChainInIs ==
    ASSUME NEW nx, NEW c, NEW b
    PROVE  b \in ChainIn(nx, c) <=>
               /\ b \in Clusters /\ c \in Clusters
               /\ \A S \in SUBSET Clusters : c \in S /\ Follows(nx, S) => b \in S
  <1>1. ASSUME NEW S \in SUBSET Clusters
        PROVE  (\A e \in LinksOf(nx) : e[1] \in S => e[2] \in S) <=> Follows(nx, S)
    <2>1. ASSUME \A e \in LinksOf(nx) : e[1] \in S => e[2] \in S,
                 NEW x \in S, nx[x] \in Clusters
          PROVE  nx[x] \in S
      <3>1. <<x, nx[x]>> \in LinksOf(nx)
        BY <1>1, <2>1 DEF LinksOf
      <3> QED
        BY <2>1, <3>1
    <2>2. ASSUME Follows(nx, S), NEW e \in LinksOf(nx), e[1] \in S
          PROVE  e[2] \in S
      <3>1. PICK x \in Clusters : nx[x] \in Clusters /\ e = <<x, nx[x]>>
        BY <2>2 DEF LinksOf
      <3> QED
        BY <2>2, <3>1 DEF Follows
    <2> QED
      BY <2>1, <2>2 DEF Follows
  <1> QED
    BY <1>1, ReachIs DEF ChainIn

(* a chain begins at c, stays in the table and goes on *)
LEMMA ChainBasics ==
    ASSUME NEW nx, NEW c \in Clusters
    PROVE  /\ c \in ChainIn(nx, c) /\ ChainIn(nx, c) \in SUBSET Clusters
           /\ Follows(nx, ChainIn(nx, c))
  <1>1. c \in ChainIn(nx, c) /\ ChainIn(nx, c) \in SUBSET Clusters
    BY ChainInIs
  <1>2. ASSUME NEW b \in ChainIn(nx, c), nx[b] \in Clusters
        PROVE  nx[b] \in ChainIn(nx, c)
    <2>1. ASSUME NEW S \in SUBSET Clusters, c \in S, Follows(nx, S)
          PROVE  nx[b] \in S
      BY <1>2, <2>1, ChainInIs DEF Follows
    <2> QED
      BY <1>2, <2>1, ChainInIs
  <1> QED
    BY <1>1, <1>2 DEF Follows

(* and is in every set that does so *)
LEMMA ChainLeast ==
    ASSUME NEW nx, NEW c, NEW S \in SUBSET Clusters, c \in S, Follows(nx, S)
    PROVE  ChainIn(nx, c) \subseteq S
  BY ChainInIs

LEMMA ChainTail ==
    ASSUME NEW nx, NEW c \in Clusters, NEW b \in ChainIn(nx, c)
    PROVE  ChainIn(nx, b) \subseteq ChainIn(nx, c)
  BY ChainBasics, ChainLeast

LEMMA ChainSplit ==
    ASSUME NEW nx, NEW c \in Clusters, NEW b \in ChainIn(nx, c), b # c
    PROVE  nx[c] \in Clusters /\ b \in ChainIn(nx, nx[c])
  <1>1. CASE nx[c] \in Clusters
    <2> DEFINE S == {c} \cup ChainIn(nx, nx[c])
    <2>1. S \in SUBSET Clusters /\ c \in S
      BY <1>1, ChainBasics
    <2>2. Follows(nx, S)
      <3>1. nx[c] \in ChainIn(nx, nx[c]) /\ Follows(nx, ChainIn(nx, nx[c]))
        BY <1>1, ChainBasics
      <3> QED
        BY <3>1 DEF Follows
    <2>3. b \in S
      BY <2>1, <2>2, ChainLeast
    <2> QED
      BY <1>1, <2>3
  <1>2. CASE nx[c] \notin Clusters
    <2>1. {c} \in SUBSET Clusters /\ c \in {c} /\ Follows(nx, {c})
      BY <1>2 DEF Follows
    <2>2. ChainIn(nx, c) \subseteq {c}
      BY <2>1, ChainLeast
    <2> QED
      BY <2>2
  <1> QED
    BY <1>1, <1>2

(* of two clusters of a chain one comes after the other *)
LEMMA ChainTotal ==
    ASSUME NEW nx, NEW c \in Clusters, NEW x \in ChainIn(nx, c), NEW y \in ChainIn(nx, c)
    PROVE  y \in ChainIn(nx, x) \/ x \in ChainIn(nx, y)
  <1> DEFINE S == {b \in Clusters : b \in ChainIn(nx, x) \/ x \in ChainIn(nx, b)}
  <1>0. x \in Clusters /\ y \in Clusters
    BY ChainBasics
  <1>1. S \in SUBSET Clusters /\ c \in S
    OBVIOUS
  <1>2. ASSUME NEW b \in S, nx[b] \in Clusters PROVE nx[b] \in S
    <2>1. CASE b \in ChainIn(nx, x)
      BY <1>0, <1>2, <2>1, ChainBasics DEF Follows
    <2>2. CASE x \in ChainIn(nx, b) /\ x # b
      BY <1>2, <2>2, ChainSplit
    <2>3. CASE x = b
      BY <1>0, <2>3, <2>1, ChainBasics
    <2> QED
      BY <2>1, <2>2, <2>3
  <1>3. y \in S
    BY <1>1, <1>2, ChainLeast DEF Follows
  <1> QED
    BY <1>3

(* but not both, if no chain runs into itself *)
NoLoop(nx) == \A c \in Clusters : nx[c] \in Clusters => c \notin ChainIn(nx, nx[c])

LEMMA ChainOneWay ==
    ASSUME NEW nx, NoLoop(nx), NEW x \in Clusters, NEW y \in ChainIn(nx, x), x # y
    PROVE  x \notin ChainIn(nx, y)
  <1>1. nx[x] \in Clusters /\ y \in ChainIn(nx, nx[x])
    BY ChainSplit
  <1>2. ChainIn(nx, y) \subseteq ChainIn(nx, nx[x])
    BY <1>1, ChainTail
  <1> QED
    BY <1>1, <1>2 DEF NoLoop

(* What becomes of a chain when links are cut elsewhere, and anywhere.     *)
Fewer(nx, ny) == \A b \in Clusters : ny[b] \in Clusters => ny[b] = nx[b]

LEMMA ChainShrinks ==
    ASSUME NEW nx, NEW ny, Fewer(nx, ny), NEW c
    PROVE  ChainIn(ny, c) \subseteq ChainIn(nx, c)
  <1>1. CASE c \in Clusters
    <2>1. Follows(ny, ChainIn(nx, c))
      BY <1>1, ChainBasics DEF Follows, Fewer
    <2> QED
      BY <1>1, <2>1, ChainBasics, ChainLeast
  <1>2. CASE c \notin Clusters
    BY <1>2, ChainInIs
  <1> QED
    BY <1>1, <1>2

LEMMA ChainStays ==
    ASSUME NEW nx, NEW ny, NEW c, \A b \in ChainIn(nx, c) : ny[b] = nx[b]
    PROVE  ChainIn(ny, c) = ChainIn(nx, c)
  <1>1. CASE c \in Clusters
    <2>1. Follows(ny, ChainIn(nx, c))
      BY <1>1, ChainBasics DEF Follows
    <2>2. ChainIn(ny, c) \subseteq ChainIn(nx, c)
      BY <1>1, <2>1, ChainBasics, ChainLeast
    <2>3. Follows(nx, ChainIn(ny, c))
      BY <1>1, <2>2, ChainBasics DEF Follows
    <2>4. ChainIn(nx, c) \subseteq ChainIn(ny, c)
      BY <1>1, <2>3, ChainBasics, ChainLeast
    <2> QED
      BY <2>2, <2>4
  <1>2. CASE c \notin Clusters
    <2>1. \A b : b \notin ChainIn(nx, c)
      BY <1>2, ChainInIs
    <2>2. \A b : b \notin ChainIn(ny, c)
      BY <1>2, ChainInIs
    <2> QED
      BY <2>1, <2>2
  <1> QED
    BY <1>1, <1>2

LEMMA LoopsStayAway ==
    ASSUME NEW nx, NEW ny, NoLoop(nx), Fewer(nx, ny)
    PROVE  NoLoop(ny)
  <1> SUFFICES ASSUME NEW c \in Clusters, ny[c] \in Clusters
               PROVE  c \notin ChainIn(ny, ny[c])
    BY DEF NoLoop
  <1>1. ny[c] = nx[c]
    BY DEF Fewer
  <1>2. ChainIn(ny, ny[c]) \subseteq ChainIn(nx, nx[c])
    BY <1>1, ChainShrinks
  <1> QED
    BY <1>1, <1>2 DEF NoLoop

LEMMA ChainAlone ==
    ASSUME NEW nx, NEW c \in Clusters, nx[c] \notin Clusters
    PROVE  ChainIn(nx, c) = {c}
  BY ChainBasics, ChainSplit

-----------------------------------------------------------------------------
(***************************************************************************)
(* The invariant: what is well formed about the table nx and the slots sl  *)
(* if D are the directories, told from cluster and index.                  *)
(***************************************************************************)
Live(s)   == s.kind \in {"file", "dir"}
IsFile(s) == s.kind = "file" /\ s.name \in Names
IsDir(s)  == s.kind = "dir" /\ s.name \in Names

(* the slot (c, i) is looked at before (b, j) *)
Ahead(nx, c, i, b, j) ==
    \/ c = b /\ i < j
    \/ c # b /\ b \in ChainIn(nx, c)

(* the clusters that directories consist of *)
Held(nx, D) == UNION {ChainIn(nx, d) : d \in D}

Typed(nx, sl) ==
    /\ nx \in [Clusters -> {0, EndOfChain} \cup Clusters]
    /\ sl \in [Clusters -> [SlotIndex -> Slot]]
    /\ \A c \in Clusters, i \in SlotIndex : IsDir(sl[c][i]) => sl[c][i].start \in Clusters

DirsOwn(nx, D) ==
    \A d \in D : /\ \A c \in ChainIn(nx, d) : nx[c] # 0
                 /\ \A g \in D : g # d => ChainIn(nx, d) \cap ChainIn(nx, g) = {}

(* the files in two slots have a cluster in common; the directories in two *)
(* slots are one; two slots have the same name                             *)
FilesMeet(nx, sl, c, i, b, j) ==
    /\ IsFile(sl[c][i]) /\ IsFile(sl[b][j]) /\ (c # b \/ i # j)
    /\ \E x \in ChainIn(nx, sl[c][i].start) : x \in ChainIn(nx, sl[b][j].start)

DirsMeet(sl, c, i, b, j) ==
    /\ IsDir(sl[c][i]) /\ IsDir(sl[b][j]) /\ (c # b \/ i # j)
    /\ sl[c][i].start = sl[b][j].start

NamesMeet(sl, c, i, b, j) ==
    /\ Live(sl[c][i]) /\ Live(sl[b][j]) /\ (c # b \/ i # j)
    /\ sl[c][i].name = sl[b][j].name

(* a cluster that was given up has been taken again *)
Clash(nx, G) == \E c \in G : nx[c] # 0

Theirs(nx, sl, D, G) ==
    \A c \in Held(nx, D), i \in SlotIndex :
        /\ IsFile(sl[c][i]) => \A b \in ChainIn(nx, sl[c][i].start) :
                                  (nx[b] # 0 \/ b \in G) /\ b \notin Held(nx, D)
        /\ \A b \in Held(nx, D), j \in SlotIndex : ~FilesMeet(nx, sl, c, i, b, j)

FilesOwn(nx, sl, D, G) == Clash(nx, G) \/ Theirs(nx, sl, D, G)

DirsOnce(nx, sl, D) ==
    \A c \in Held(nx, D), i \in SlotIndex :
        /\ IsDir(sl[c][i]) => sl[c][i].start # Root
        /\ \A b \in Held(nx, D), j \in SlotIndex : ~DirsMeet(sl, c, i, b, j)

Behind(nx, sl, D) ==
    \A d \in D : \A c, b \in ChainIn(nx, d), i, j \in SlotIndex :
        sl[c][i].kind = "end" /\ Live(sl[b][j]) => ~Ahead(nx, c, i, b, j)

OneName(nx, sl, D) ==
    \A d \in D : \A c, b \in ChainIn(nx, d), i, j \in SlotIndex : ~NamesMeet(sl, c, i, b, j)

DeadEnds(nx, sl, D) ==
    \A c \in Held(nx, D), i \in SlotIndex, g \in D :
        sl[c][i].kind = "deleted" /\ sl[c][i].start \in ChainIn(nx, g) => ChainIn(nx, g) = {g}

Below(nx, sl, D) ==
    \A c \in Held(nx, D), i \in SlotIndex :
        sl[c][i].kind = "dir" /\ sl[c][i].start \in Clusters => sl[c][i].start \in D

Sound(nx, sl, D, G) ==
    /\ Typed(nx, sl) /\ D \in SUBSET Clusters /\ Root \in D /\ G \in SUBSET Clusters
    /\ NoLoop(nx) /\ DirsOwn(nx, D) /\ FilesOwn(nx, sl, D, G) /\ DirsOnce(nx, sl, D)
    /\ Behind(nx, sl, D) /\ OneName(nx, sl, D) /\ DeadEnds(nx, sl, D)

Kept(nx, sl, D, G) == Sound(nx, sl, D, G) /\ Below(nx, sl, D)

LEMMA HeldIs ==
    ASSUME NEW nx, NEW D, NEW c
    PROVE  c \in Held(nx, D) <=> \E d \in D : c \in ChainIn(nx, d)
  BY DEF Held

LEMMA HeldInTable ==
    ASSUME NEW nx, NEW D \in SUBSET Clusters
    PROVE  Held(nx, D) \in SUBSET Clusters /\ D \subseteq Held(nx, D)
  BY ChainBasics, HeldIs

LEMMA AheadStays ==
    ASSUME NEW nx, NEW ny, NEW g \in Clusters, \A x \in ChainIn(nx, g) : ny[x] = nx[x],
           NEW b \in ChainIn(nx, g), NEW i, NEW a, NEW j
    PROVE  Ahead(ny, b, i, a, j) <=> Ahead(nx, b, i, a, j)
  <1>1. b \in Clusters /\ ChainIn(nx, b) \subseteq ChainIn(nx, g)
    BY ChainTail, ChainBasics
  <1>2. ChainIn(ny, b) = ChainIn(nx, b)
    BY <1>1, ChainStays
  <1> QED
    BY <1>2 DEF Ahead

(* With fewer directories there is less to be kept.                        *)
LEMMA SoundOfFewer ==
    ASSUME NEW nx, NEW sl, NEW E, NEW G, Sound(nx, sl, E, G), NEW D \in SUBSET E, Root \in D
    PROVE  Sound(nx, sl, D, G)
  <1>1. Held(nx, D) \subseteq Held(nx, E)
    BY DEF Held
  <1>2. DirsOwn(nx, D)
    BY DEF Sound, DirsOwn
  <1>3. FilesOwn(nx, sl, D, G)
    BY <1>1 DEF Sound, FilesOwn, Theirs
  <1>4. DirsOnce(nx, sl, D)
    BY <1>1 DEF Sound, DirsOnce
  <1>5. Behind(nx, sl, D)
    BY DEF Sound, Behind
  <1>6. OneName(nx, sl, D)
    BY DEF Sound, OneName
  <1>7. DeadEnds(nx, sl, D)
    BY <1>1 DEF Sound, DeadEnds
  <1> QED
    BY <1>2, <1>3, <1>4, <1>5, <1>6, <1>7 DEF Sound

-----------------------------------------------------------------------------
(***************************************************************************)
(* Making a file or a directory.                                           *)
(***************************************************************************)

(* where an entry may be put: over a slot of the directory that is not in  *)
(* use and has no unwritten one before it, or in no directory at all       *)
Puts(nx, sl, D, d, c, pc, pi) ==
    \/ /\ pc \in ChainIn(nx, d) /\ pi \in SlotIndex
       /\ ~Live(sl[pc][pi])
       /\ \A b \in ChainIn(nx, d), j \in SlotIndex :
              sl[b][j].kind = "end" => ~Ahead(nx, b, j, pc, pi)
    \/ pc = c
    \/ pc \notin Clusters

Put(sl, d, c, pc, pi, entry, written) ==
    [x \in Clusters |->
        IF x = c /\ entry.kind = "dir" THEN Inside(c, d)
        ELSE [i \in SlotIndex |->
                IF written /\ x = pc /\ i = pi THEN entry
                ELSE IF x = c THEN Unused ELSE sl[x][i]]]

Making(nx, sl, D, G, d, n, c, pc, pi, entry, written) ==
    /\ Kept(nx, sl, D, G) /\ ~Clash(nx, G) /\ d \in D /\ n \in Names /\ c \in Clusters /\ nx[c] = 0
    /\ written \in BOOLEAN
    /\ entry.kind \in {"file", "dir"} /\ entry = [kind |-> entry.kind, name |-> n, start |-> c]
    /\ Puts(nx, sl, D, d, c, pc, pi)
    /\ \A b \in ChainIn(nx, d), i \in SlotIndex : Live(sl[b][i]) => sl[b][i].name # n

(* the directories afterwards, if all goes well *)
Grown(D, c, entry) == D \cup (IF entry.kind = "dir" THEN {c} ELSE {})

LEMMA InsideFacts ==
    ASSUME NEW c \in Clusters, NEW d \in Clusters
    PROVE  /\ Inside(c, d) \in [SlotIndex -> Slot]
           /\ Inside(c, d)[0] = [kind |-> "dir", name |-> Dot, start |-> c]
           /\ Inside(c, d)[1] = [kind |-> "dir", name |-> DotDot, start |-> d]
           /\ \A i \in SlotIndex : i # 0 /\ i # 1 => Inside(c, d)[i] = Unused
  <1>1. Unused \in Slot /\ [kind |-> "dir", name |-> Dot, start |-> c] \in Slot
        /\ [kind |-> "dir", name |-> DotDot, start |-> d] \in Slot
    BY DEF Slot, Unused
  <1>2. \A i \in SlotIndex :
            Inside(c, d)[i] = IF i = 0 THEN [kind |-> "dir", name |-> Dot, start |-> c]
                              ELSE IF i = 1 THEN [kind |-> "dir", name |-> DotDot, start |-> d]
                              ELSE Unused
    BY DEF Inside
  <1>3. Inside(c, d) = [i \in SlotIndex |-> Inside(c, d)[i]]
    BY DEF Inside
  <1> QED
    BY <1>1, <1>2, <1>3, Constants

(* nothing in use comes behind something unwritten there, no name is there *)
(* twice, and there is no other name than the two                          *)
LEMMA InsideSound ==
    ASSUME NEW c \in Clusters, NEW d \in Clusters, NEW i \in SlotIndex
    PROVE  /\ Inside(c, d)[i].kind \in {"dir", "end"}
           /\ Live(Inside(c, d)[i]) => /\ Inside(c, d)[i].start \in {c, d}
                                       /\ Inside(c, d)[i].name \notin Names
           /\ \A j \in SlotIndex :
                  /\ Inside(c, d)[i].kind = "end" /\ Live(Inside(c, d)[j]) => ~(i < j)
                  /\ /\ Live(Inside(c, d)[i]) /\ Live(Inside(c, d)[j])
                     /\ Inside(c, d)[i].name = Inside(c, d)[j].name
                     => i = j
  <1>1. \A j \in SlotIndex :
            \/ j = 0 /\ Inside(c, d)[j] = [kind |-> "dir", name |-> Dot, start |-> c]
            \/ j = 1 /\ Inside(c, d)[j] = [kind |-> "dir", name |-> DotDot, start |-> d]
            \/ j \in Nat /\ j > 1 /\ Inside(c, d)[j] = Unused
    BY InsideFacts, Constants
  <1>2. \A j \in SlotIndex : Live(Inside(c, d)[j]) <=> j \in {0, 1}
    BY <1>1 DEF Live, Unused
  <1>3. ASSUME NEW j \in SlotIndex, Inside(c, d)[i].kind = "end", Live(Inside(c, d)[j])
        PROVE  ~(i < j)
    <2>1. i > 1 /\ j <= 1 /\ i \in Nat /\ j \in Nat
      BY <1>1, <1>2, <1>3
    <2> QED
      BY <2>1
  <1>4. ASSUME NEW j \in SlotIndex, Live(Inside(c, d)[i]), Live(Inside(c, d)[j]),
               Inside(c, d)[i].name = Inside(c, d)[j].name
        PROVE  i = j
    BY <1>1, <1>2, <1>4, Constants
  <1>5. Inside(c, d)[i].kind \in {"dir", "end"}
    BY <1>1 DEF Unused
  <1>6. Live(Inside(c, d)[i]) => /\ Inside(c, d)[i].start \in {c, d}
                                 /\ Inside(c, d)[i].name \notin Names
    BY <1>1, <1>2, Constants
  <1> QED
    BY <1>3, <1>4, <1>5, <1>6

(* What is where afterwards: a slot of a directory is as it was, or is the *)
(* one written, or it is in the new directory.                             *)
Made(nx, sl, D, d, c, pc, pi, entry, written, ny, tl) ==
    /\ \A b \in Clusters : nx[b] # 0 => ny[b] = nx[b] /\ b # c
    /\ ny[c] = EndOfChain /\ ChainIn(ny, c) = {c}
    /\ \A g \in D : ChainIn(ny, g) = ChainIn(nx, g)
    /\ c \notin Held(nx, D) /\ Held(ny, D) = Held(nx, D)
    /\ Held(ny, Grown(D, c, entry)) = Grown(Held(nx, D), c, entry)
    /\ \A b \in Held(nx, D), i \in SlotIndex :
           \/ tl[b][i] = sl[b][i]
           \/ /\ written /\ b = pc /\ i = pi /\ b \in ChainIn(nx, d)
              /\ tl[b][i] = entry /\ ~Live(sl[b][i])
              /\ \A x \in ChainIn(nx, d), j \in SlotIndex :
                     sl[x][j].kind = "end" => ~Ahead(nx, x, j, b, i)
    /\ entry.kind = "dir" => tl[c] = Inside(c, d)

LEMMA MakingPlaces ==
    ASSUME NEW nx, NEW sl, NEW D, NEW G, NEW d, NEW n, NEW c, NEW pc, NEW pi, NEW entry,
           NEW written, Making(nx, sl, D, G, d, n, c, pc, pi, entry, written),
           NEW ny, ny = [nx EXCEPT ![c] = EndOfChain],
           NEW tl, tl = Put(sl, d, c, pc, pi, entry, written)
    PROVE  Made(nx, sl, D, d, c, pc, pi, entry, written, ny, tl)
  <1>0. /\ nx \in [Clusters -> {0, EndOfChain} \cup Clusters]
        /\ c \in Clusters /\ nx[c] = 0 /\ D \in SUBSET Clusters /\ d \in D /\ DirsOwn(nx, D)
    BY DEF Making, Kept, Sound, Typed
  <1>1. \A b \in Clusters : nx[b] # 0 => ny[b] = nx[b] /\ b # c
    BY <1>0
  <1>2. ny[c] = EndOfChain
    BY <1>0
  <1>3. ChainIn(ny, c) = {c}
    BY <1>0, <1>2, ChainAlone, Constants
  <1>4. ASSUME NEW g \in D
        PROVE  ChainIn(ny, g) = ChainIn(nx, g) /\ c \notin ChainIn(nx, g)
    <2>1. g \in Clusters /\ \A b \in ChainIn(nx, g) : nx[b] # 0 /\ b \in Clusters
      BY <1>0, ChainBasics DEF DirsOwn
    <2>2. \A b \in ChainIn(nx, g) : ny[b] = nx[b]
      BY <1>1, <2>1
    <2>3. ChainIn(ny, g) = ChainIn(nx, g)
      BY <2>1, <2>2, ChainStays
    <2>4. c \notin ChainIn(nx, g)
      BY <1>0, <2>1
    <2> QED
      BY <2>3, <2>4
  <1>5. c \notin Held(nx, D) /\ Held(ny, D) = Held(nx, D)
    <2>1. c \notin Held(nx, D)
      BY <1>4, HeldIs
    <2>2. {ChainIn(ny, g) : g \in D} = {ChainIn(nx, g) : g \in D}
      BY <1>4
    <2> QED
      BY <2>1, <2>2 DEF Held
  <1>6. Held(ny, Grown(D, c, entry)) = Grown(Held(nx, D), c, entry)
    <2>1. ASSUME NEW b
          PROVE  b \in Held(ny, Grown(D, c, entry)) <=>
                     b \in Held(ny, D) \/ (entry.kind = "dir" /\ b = c)
      <3>1. \A g : g \in Grown(D, c, entry) <=> g \in D \/ (entry.kind = "dir" /\ g = c)
        BY DEF Grown
      <3>2. b \in ChainIn(ny, c) <=> b = c
        BY <1>3
      <3> QED
        BY <3>1, <3>2, HeldIs
    <2> QED
      BY <1>5, <2>1 DEF Grown
  <1>7. ASSUME NEW b \in Held(nx, D), NEW i \in SlotIndex
        PROVE  \/ tl[b][i] = sl[b][i]
               \/ /\ written /\ b = pc /\ i = pi /\ b \in ChainIn(nx, d)
                  /\ tl[b][i] = entry /\ ~Live(sl[b][i])
                  /\ \A x \in ChainIn(nx, d), j \in SlotIndex :
                         sl[x][j].kind = "end" => ~Ahead(nx, x, j, b, i)
    <2>1. b \in Clusters /\ b # c
      BY <1>0, <1>5, HeldInTable
    <2>2. tl[b][i] = IF written /\ b = pc /\ i = pi THEN entry ELSE sl[b][i]
      BY <2>1 DEF Put
    <2>3. CASE written /\ b = pc /\ i = pi
      <3>1. Puts(nx, sl, D, d, c, pc, pi) /\ pc # c /\ pc \in Clusters
        BY <2>1, <2>3 DEF Making
      <3> QED
        BY <2>2, <2>3, <3>1 DEF Puts
    <2> QED
      BY <2>2, <2>3
  <1>8. entry.kind = "dir" => tl[c] = Inside(c, d)
    BY <1>0 DEF Put
  <1> QED
    BY <1>1, <1>2, <1>3, <1>4, <1>5, <1>6, <1>7, <1>8 DEF Made

(* whether or not the entry could be written, all is well afterwards *)
LEMMA MakingKeeps ==
    ASSUME NEW nx, NEW sl, NEW D, NEW G, NEW d, NEW n, NEW c, NEW pc, NEW pi, NEW entry,
           NEW written, Making(nx, sl, D, G, d, n, c, pc, pi, entry, written),
           NEW ny, ny = [nx EXCEPT ![c] = EndOfChain],
           NEW tl, tl = Put(sl, d, c, pc, pi, entry, written)
    PROVE  Kept(ny, tl, Grown(D, c, entry), G)
  <1> DEFINE E == Grown(D, c, entry)
             Wrote(b, i) == /\ b = pc /\ i = pi /\ b \in ChainIn(nx, d)
                            /\ tl[b][i] = entry /\ ~Live(sl[b][i])
                            /\ \A x \in ChainIn(nx, d), j \in SlotIndex :
                                   sl[x][j].kind = "end" => ~Ahead(nx, x, j, b, i)
  <1>0. /\ c \in Clusters /\ nx[c] = 0 /\ D \in SUBSET Clusters /\ d \in D /\ n \in Names
        /\ Root \in D /\ G \in SUBSET Clusters /\ Theirs(nx, sl, D, G) /\ Typed(nx, sl) /\ NoLoop(nx) /\ DirsOwn(nx, D)
        /\ DirsOnce(nx, sl, D) /\ Behind(nx, sl, D) /\ OneName(nx, sl, D)
        /\ DeadEnds(nx, sl, D) /\ Below(nx, sl, D)
        /\ entry.kind \in {"file", "dir"} /\ entry.name = n /\ entry.start = c
        /\ entry = [kind |-> entry.kind, name |-> n, start |-> c]
        /\ \A b \in ChainIn(nx, d), i \in SlotIndex : Live(sl[b][i]) => sl[b][i].name # n
    BY DEF Making, Kept, Sound, FilesOwn
  <1>0a. entry.kind \in {"file", "dir"} /\ entry.name = n /\ entry.start = c
    BY <1>0
  <1>0b. d \in D /\ c \in Clusters /\ d \in Clusters
    BY <1>0
  <1>1. /\ \A b \in Clusters : nx[b] # 0 => ny[b] = nx[b] /\ b # c
        /\ ny[c] = EndOfChain /\ ChainIn(ny, c) = {c}
        /\ \A g \in D : ChainIn(ny, g) = ChainIn(nx, g)
        /\ c \notin Held(nx, D) /\ Held(ny, D) = Held(nx, D)
        /\ Held(ny, E) = Grown(Held(nx, D), c, entry)
        /\ \A b \in Held(nx, D), i \in SlotIndex : tl[b][i] = sl[b][i] \/ Wrote(b, i)
        /\ entry.kind = "dir" => tl[c] = Inside(c, d)
    <2>1. Made(nx, sl, D, d, c, pc, pi, entry, written, ny, tl)
      BY MakingPlaces
    <2> QED
      BY <2>1 DEF Made
  <1> HIDE DEF E
  <1>2. /\ D \subseteq E /\ E \subseteq D \cup {c} /\ (c \in E <=> entry.kind = "dir" \/ c \in D)
        /\ E \in SUBSET Clusters /\ Root \in E /\ c \notin D
    BY <1>0, <1>1, HeldInTable DEF E, Grown
  <1>2a. ny[c] # 0
    BY <1>1, Constants
  <1>3. /\ Held(nx, D) \subseteq Held(ny, E) /\ Held(ny, E) \subseteq Held(nx, D) \cup {c}
        /\ c \in Held(ny, E) <=> entry.kind = "dir"
        /\ Held(nx, D) \in SUBSET Clusters
    BY <1>0, <1>1, HeldInTable DEF Grown
  (* a slot of a directory afterwards *)
  <1>4. ASSUME NEW b \in Held(ny, E), NEW i \in SlotIndex
        PROVE  \/ b \in Held(nx, D) /\ b # c /\ tl[b][i] = sl[b][i]
               \/ b \in Held(nx, D) /\ b # c /\ Wrote(b, i)
               \/ entry.kind = "dir" /\ b = c /\ tl[b][i] = Inside(c, d)[i]
    BY <1>1, <1>3
  <1>5. ASSUME NEW i \in SlotIndex
        PROVE  /\ Inside(c, d)[i].kind \in {"dir", "end"}
               /\ Live(Inside(c, d)[i]) => /\ Inside(c, d)[i].start \in {c, d}
                                           /\ Inside(c, d)[i].name \notin Names
    BY <1>0, InsideSound
  <1>6. Typed(ny, tl)
    <2>1. ny \in [Clusters -> {0, EndOfChain} \cup Clusters]
      BY <1>0 DEF Typed
    <2>2. entry \in Slot /\ Unused \in Slot /\ Inside(c, d) \in [SlotIndex -> Slot]
      BY <1>0, InsideFacts DEF Slot, Unused
    <2>3. ASSUME NEW b \in Clusters
          PROVE  tl[b] \in [SlotIndex -> Slot]
      <3>1. CASE b = c /\ entry.kind = "dir"
        BY <1>1, <2>2, <3>1
      <3>2. CASE ~(b = c /\ entry.kind = "dir")
        <4>1. tl[b] = [i \in SlotIndex |->
                          IF written /\ b = pc /\ i = pi THEN entry
                          ELSE IF b = c THEN Unused ELSE sl[b][i]]
          BY <3>2 DEF Put
        <4>2. \A i \in SlotIndex : sl[b][i] \in Slot
          BY <1>0 DEF Typed
        <4> QED
          BY <2>2, <4>1, <4>2
      <3> QED
        BY <3>1, <3>2
    <2>4. tl \in [Clusters -> [SlotIndex -> Slot]]
      BY <2>3 DEF Put
    <2>5. ASSUME NEW b \in Clusters, NEW i \in SlotIndex, IsDir(tl[b][i])
          PROVE  tl[b][i].start \in Clusters
      <3>1. CASE b = c /\ entry.kind = "dir"
        BY <1>0, <1>1, <1>5, <2>5, <3>1 DEF IsDir, Live
      <3>2. CASE ~(b = c /\ entry.kind = "dir")
        <4>1. tl[b][i] = IF written /\ b = pc /\ i = pi THEN entry
                         ELSE IF b = c THEN Unused ELSE sl[b][i]
          BY <3>2 DEF Put
        <4>2. ~IsDir(Unused)
          BY DEF IsDir, Unused
        <4>3. IsDir(sl[b][i]) => sl[b][i].start \in Clusters
          BY <1>0 DEF Typed
        <4> QED
          BY <1>0, <2>5, <4>1, <4>2, <4>3
      <3> QED
        BY <3>1, <3>2
    <2> QED
      BY <2>1, <2>4, <2>5 DEF Typed
  <1>7. NoLoop(ny)
    <2>1. Fewer(nx, ny)
      BY <1>0, Constants DEF Fewer, Typed
    <2> QED
      BY <1>0, <2>1, LoopsStayAway
  <1>8. DirsOwn(ny, E)
    <2>1. ASSUME NEW g \in E
          PROVE  \/ g \in D /\ ChainIn(ny, g) = ChainIn(nx, g) /\ c \notin ChainIn(nx, g)
                 \/ g = c /\ ChainIn(ny, g) = {c}
      BY <1>1, <1>2, HeldIs
    <2>2. \A g \in E : \A b \in ChainIn(ny, g) : ny[b] # 0
      <3> SUFFICES ASSUME NEW g \in E, NEW b \in ChainIn(ny, g)
                   PROVE  ny[b] # 0
        OBVIOUS
      <3>1. CASE g \in D
        <4>1. b \in ChainIn(nx, g) /\ g \in Clusters
          BY <1>0, <1>1, <3>1
        <4>2. nx[b] # 0
          BY <1>0, <3>1, <4>1 DEF DirsOwn
        <4>3. b \in Clusters
          BY <4>1, ChainBasics
        <4> QED
          BY <1>1, <4>2, <4>3
      <3>2. CASE g = c
        <4>1. b = c
          BY <1>1, <3>2
        <4> QED
          BY <1>2a, <4>1
      <3> QED
        BY <2>1, <3>1, <3>2
    <2>3. \A g, f \in E : f # g => ChainIn(ny, g) \cap ChainIn(ny, f) = {}
      <3>1. \A g, f \in D : f # g => ChainIn(nx, g) \cap ChainIn(nx, f) = {}
        BY <1>0 DEF DirsOwn
      <3> SUFFICES ASSUME NEW g \in E, NEW f \in E, f # g
                   PROVE  ChainIn(ny, g) \cap ChainIn(ny, f) = {}
        OBVIOUS
      <3>2. CASE g \in D /\ f \in D
        BY <1>1, <3>1, <3>2
      <3>3. CASE g = c /\ f \in D
        BY <1>2, <2>1, <3>3
      <3>4. CASE g \in D /\ f = c
        BY <1>2, <2>1, <3>4
      <3> QED
        BY <1>2, <3>2, <3>3, <3>4
    <2> QED
      BY <2>2, <2>3 DEF DirsOwn
  (* the chain of a file there was, and what a new entry leads to *)
  <1>9. ASSUME NEW b \in Held(nx, D), NEW i \in SlotIndex, IsFile(sl[b][i]), c \notin G
        PROVE  /\ ChainIn(ny, sl[b][i].start) = ChainIn(nx, sl[b][i].start)
               /\ c \notin ChainIn(nx, sl[b][i].start)
               /\ \A x \in ChainIn(nx, sl[b][i].start) : (ny[x] # 0 \/ x \in G) /\ x \notin Held(nx, D)
    <2>1. \A x \in ChainIn(nx, sl[b][i].start) : (nx[x] # 0 \/ x \in G) /\ x \notin Held(nx, D)
      BY <1>0, <1>9 DEF Theirs
    <2>2. \A x \in Clusters : x # c => ny[x] = nx[x]
      BY <1>0 DEF Typed
    <2>3. \A x \in ChainIn(nx, sl[b][i].start) : x \in Clusters /\ ny[x] = nx[x] /\ x # c
      <3>1. nx[c] = 0 /\ c \notin G
        BY <1>0, <1>9
      <3>2. \A x \in ChainIn(nx, sl[b][i].start) : x \in Clusters
        BY ChainInIs
      <3>3. \A x \in ChainIn(nx, sl[b][i].start) : x # c
        BY <2>1, <3>1
      <3> QED
        BY <2>2, <3>2, <3>3
    <2>4. ChainIn(ny, sl[b][i].start) = ChainIn(nx, sl[b][i].start)
      <3>1. PICK z : z = sl[b][i].start
        OBVIOUS
      <3>2. \A x \in ChainIn(nx, z) : ny[x] = nx[x]
        BY <2>3, <3>1
      <3>3. ChainIn(ny, z) = ChainIn(nx, z)
        BY <3>2, ChainStays, Zenon
      <3> QED
        BY <3>1, <3>3
    <2>5. c \notin ChainIn(nx, sl[b][i].start)
      BY <2>3
    <2>6. \A x \in ChainIn(nx, sl[b][i].start) : (ny[x] # 0 \/ x \in G) /\ x \notin Held(nx, D)
      BY <2>1, <2>3
    <2> QED
      BY <2>4, <2>5, <2>6
  <1>10. ASSUME c \notin G PROVE Theirs(ny, tl, E, G)
    <2>1. ASSUME NEW b \in Held(ny, E), NEW i \in SlotIndex, IsFile(tl[b][i])
          PROVE  \/ b \in Held(nx, D) /\ IsFile(sl[b][i]) /\ tl[b][i] = sl[b][i]
                 \/ b = pc /\ i = pi /\ tl[b][i].start = c /\ c \notin Held(ny, E)
      <3>1. CASE b \in Held(nx, D) /\ tl[b][i] = sl[b][i]
        BY <2>1, <3>1
      <3>2. CASE Wrote(b, i)
        <4>1. entry.kind = "file" /\ tl[b][i].start = c
          BY <1>0, <2>1, <3>2 DEF IsFile
        <4>2. c \notin Held(ny, E)
          BY <1>3, <4>1
        <4> QED
          BY <3>2, <4>1, <4>2
      <3>3. CASE tl[b][i] = Inside(c, d)[i]
        BY <1>5, <2>1, <3>3 DEF IsFile
      <3> QED
        BY <1>4, <3>1, <3>2, <3>3
    <2>2. \A b \in Held(ny, E), i \in SlotIndex : IsFile(tl[b][i]) =>
              \A x \in ChainIn(ny, tl[b][i].start) : (ny[x] # 0 \/ x \in G) /\ x \notin Held(ny, E)
      <3> SUFFICES ASSUME NEW b \in Held(ny, E), NEW i \in SlotIndex, IsFile(tl[b][i]),
                          NEW x \in ChainIn(ny, tl[b][i].start)
                   PROVE  (ny[x] # 0 \/ x \in G) /\ x \notin Held(ny, E)
        OBVIOUS
      <3>1. CASE b \in Held(nx, D) /\ IsFile(sl[b][i]) /\ tl[b][i] = sl[b][i]
        BY <1>3, <1>9, <1>10, <3>1
      <3>2. CASE tl[b][i].start = c /\ c \notin Held(ny, E)
        <4>1. x = c
          BY <1>1, <3>2
        <4> QED
          BY <1>2a, <3>2, <4>1
      <3> QED
        BY <2>1, <3>1, <3>2
    <2>3. ASSUME NEW b \in Held(ny, E), NEW i \in SlotIndex,
                 NEW a \in Held(ny, E), NEW j \in SlotIndex, FilesMeet(ny, tl, b, i, a, j)
          PROVE  FALSE
      <3> DEFINE Was(x, y) == x \in Held(nx, D) /\ IsFile(sl[x][y]) /\ tl[x][y] = sl[x][y]
                 Came(x, y) == x = pc /\ y = pi /\ tl[x][y].start = c
      <3>1. (Was(b, i) \/ Came(b, i)) /\ (Was(a, j) \/ Came(a, j)) /\ (b # a \/ i # j)
        BY <2>1, <2>3 DEF FilesMeet
      <3>2. PICK x : x \in ChainIn(ny, tl[b][i].start) /\ x \in ChainIn(ny, tl[a][j].start)
        BY <2>3 DEF FilesMeet
      <3>3. CASE Was(b, i) /\ Was(a, j)
        <4>1. x \in ChainIn(nx, sl[b][i].start) /\ x \in ChainIn(nx, sl[a][j].start)
          BY <1>9, <1>10, <3>2, <3>3
        <4>2. FilesMeet(nx, sl, b, i, a, j)
          BY <3>1, <3>3, <4>1 DEF FilesMeet
        <4> QED
          BY <1>0, <3>3, <4>2 DEF Theirs
      <3>4. CASE Was(b, i) /\ Came(a, j)
        <4>1. x = c
          BY <1>1, <3>2, <3>4
        <4>2. x \in ChainIn(nx, sl[b][i].start)
          BY <1>9, <1>10, <3>2, <3>4
        <4> QED
          BY <1>9, <1>10, <3>4, <4>1, <4>2
      <3>5. CASE Came(b, i) /\ Was(a, j)
        <4>1. x = c
          BY <1>1, <3>2, <3>5
        <4>2. x \in ChainIn(nx, sl[a][j].start)
          BY <1>9, <1>10, <3>2, <3>5
        <4> QED
          BY <1>9, <1>10, <3>5, <4>1, <4>2
      <3>6. CASE Came(b, i) /\ Came(a, j)
        BY <3>1, <3>6
      <3> QED
        BY <3>1, <3>3, <3>4, <3>5, <3>6
    <2> QED
      BY <2>2, <2>3 DEF Theirs
  <1>10a. FilesOwn(ny, tl, E, G)
    <2>1. CASE c \in G
      BY <1>2a, <2>1 DEF FilesOwn, Clash
    <2>2. CASE c \notin G
      BY <1>10, <2>2 DEF FilesOwn
    <2> QED
      BY <2>1, <2>2
  <1>11. DirsOnce(ny, tl, E)
    <2>1. ASSUME NEW b \in Held(ny, E), NEW i \in SlotIndex, IsDir(tl[b][i])
          PROVE  \/ b \in Held(nx, D) /\ IsDir(sl[b][i]) /\ tl[b][i] = sl[b][i]
                    /\ sl[b][i].start \in D
                 \/ b = pc /\ i = pi /\ tl[b][i].start = c
      <3>1. \/ b \in Held(nx, D) /\ IsDir(sl[b][i]) /\ tl[b][i] = sl[b][i]
            \/ b = pc /\ i = pi /\ tl[b][i].start = c
        <4>1. CASE b \in Held(nx, D) /\ tl[b][i] = sl[b][i]
          BY <2>1, <4>1
        <4>2. CASE Wrote(b, i)
          BY <1>0a, <4>2
        <4>3. CASE tl[b][i] = Inside(c, d)[i]
          BY <1>5, <2>1, <4>3 DEF IsDir, Live
        <4> QED
          BY <1>4, <4>1, <4>2, <4>3
      <3> QED
        BY <1>0, <1>3, <3>1 DEF Below, Typed, IsDir
    <2>2. \A b \in Held(ny, E), i \in SlotIndex : IsDir(tl[b][i]) => tl[b][i].start # Root
      BY <1>0, <1>2, <2>1 DEF DirsOnce
    <2>3. ASSUME NEW b \in Held(ny, E), NEW i \in SlotIndex,
                 NEW a \in Held(ny, E), NEW j \in SlotIndex, DirsMeet(tl, b, i, a, j)
          PROVE  FALSE
      <3> DEFINE Was(x, y) == x \in Held(nx, D) /\ IsDir(sl[x][y]) /\ tl[x][y] = sl[x][y]
                              /\ sl[x][y].start \in D
                 Came(x, y) == x = pc /\ y = pi /\ tl[x][y].start = c
      <3>1. /\ (Was(b, i) \/ Came(b, i)) /\ (Was(a, j) \/ Came(a, j)) /\ (b # a \/ i # j)
            /\ tl[b][i].start = tl[a][j].start
        BY <2>1, <2>3 DEF DirsMeet
      <3>2. CASE Was(b, i) /\ Was(a, j)
        <4>1. DirsMeet(sl, b, i, a, j)
          BY <3>1, <3>2 DEF DirsMeet
        <4> QED
          BY <1>0, <3>2, <4>1 DEF DirsOnce
      <3>3. CASE Was(b, i) /\ Came(a, j)
        BY <1>2, <3>1, <3>3
      <3>4. CASE Came(b, i) /\ Was(a, j)
        BY <1>2, <3>1, <3>4
      <3>5. CASE Came(b, i) /\ Came(a, j)
        BY <3>1, <3>5
      <3> QED
        BY <3>1, <3>2, <3>3, <3>4, <3>5
    <2> QED
      BY <2>2, <2>3 DEF DirsOnce
  (* the slots of one directory *)
  <1>12. ASSUME NEW g \in E, NEW b \in ChainIn(ny, g), NEW i \in SlotIndex
         PROVE  \/ g \in D /\ b \in ChainIn(nx, g) /\ tl[b][i] = sl[b][i]
                \/ g = d /\ b \in ChainIn(nx, g) /\ Wrote(b, i)
                \/ g = c /\ b = c /\ tl[b][i] = Inside(c, d)[i]
    <2>1. CASE g \in D
      <3>1. b \in ChainIn(nx, g) /\ b \in Held(nx, D)
        BY <1>1, <2>1, HeldIs
      <3>2. b \in ChainIn(nx, d) => g = d
        BY <1>0, <2>1, <3>1 DEF DirsOwn
      <3> QED
        BY <1>1, <2>1, <3>1, <3>2
    <2>2. CASE g \notin D
      BY <1>1, <1>2, <2>2
    <2> QED
      BY <2>1, <2>2
  <1>13. ASSUME NEW g \in D, NEW b \in ChainIn(nx, g), NEW i, NEW a, NEW j
         PROVE  Ahead(ny, b, i, a, j) <=> Ahead(nx, b, i, a, j)
    <2>1. g \in Clusters
      BY <1>0
    <2>2. \A x \in ChainIn(nx, g) : ny[x] = nx[x]
      <3>1. \A x \in ChainIn(nx, g) : x \in Clusters /\ nx[x] # 0
        BY <1>0, <2>1, ChainBasics DEF DirsOwn
      <3> QED
        BY <1>1, <3>1
    <2> QED
      BY <2>1, <2>2, AheadStays
  <1>14. Behind(ny, tl, E)
    <2> SUFFICES ASSUME NEW g \in E, NEW b \in ChainIn(ny, g), NEW a \in ChainIn(ny, g),
                        NEW i \in SlotIndex, NEW j \in SlotIndex,
                        tl[b][i].kind = "end", Live(tl[a][j])
                 PROVE  ~Ahead(ny, b, i, a, j)
      BY DEF Behind
    <2>0. \/ g \in D /\ b \in ChainIn(nx, g) /\ tl[b][i] = sl[b][i]
          \/ Wrote(b, i)
          \/ g = c /\ b = c /\ tl[b][i] = Inside(c, d)[i]
      BY <1>12
    <2>0a. \/ g \in D /\ a \in ChainIn(nx, g) /\ tl[a][j] = sl[a][j]
           \/ g = d /\ a \in ChainIn(nx, g) /\ Wrote(a, j)
           \/ g = c /\ a = c /\ tl[a][j] = Inside(c, d)[j]
      BY <1>12
    <2>1. \/ g \in D /\ b \in ChainIn(nx, g) /\ sl[b][i].kind = "end"
          \/ g = c /\ b = c /\ Inside(c, d)[i].kind = "end"
      <3>1. ~Wrote(b, i)
        BY <1>0a
      <3> QED
        BY <2>0, <3>1
    <2>2. \/ g \in D /\ a \in ChainIn(nx, g) /\ Live(sl[a][j])
          \/ g = d /\ a \in ChainIn(nx, g) /\ Wrote(a, j)
          \/ g = c /\ a = c /\ Live(Inside(c, d)[j])
      <3> HIDE DEF Wrote
      <3> QED
        BY <2>0a
    <2>3. CASE g = c
      <3>1. /\ b = c /\ a = c /\ Inside(c, d)[i].kind = "end" /\ Live(Inside(c, d)[j])
        BY <1>0b, <1>2, <2>1, <2>2, <2>3
      <3>2. ~(i < j)
        BY <1>0b, <3>1, InsideSound
      <3> QED
        BY <3>1, <3>2 DEF Ahead
    <2>4. CASE g \in D /\ a \in ChainIn(nx, g) /\ Live(sl[a][j])
      <3>1. ~Ahead(nx, b, i, a, j)
        BY <1>0, <1>2, <2>1, <2>4 DEF Behind
      <3> QED
        BY <1>2, <1>13, <2>1, <2>4, <3>1
    <2>5. CASE g = d /\ a \in ChainIn(nx, g) /\ Wrote(a, j)
      <3>1. b \in ChainIn(nx, g) /\ ~Ahead(nx, b, i, a, j)
        BY <1>0, <1>2, <2>1, <2>5
      <3> QED
        BY <1>0, <1>13, <2>5, <3>1
    <2> QED
      BY <2>2, <2>3, <2>4, <2>5
  <1>15. ASSUME NEW g \in E, NEW b \in ChainIn(ny, g), NEW a \in ChainIn(ny, g),
                NEW i \in SlotIndex, NEW j \in SlotIndex, NamesMeet(tl, b, i, a, j)
         PROVE  FALSE
    <2> DEFINE Was(x, y) == g \in D /\ x \in ChainIn(nx, g) /\ tl[x][y] = sl[x][y]
               Came(x, y) == /\ g = d /\ x \in ChainIn(nx, g) /\ x = pc /\ y = pi
                             /\ tl[x][y].name = n
               New(x, y) == g = c /\ x = c /\ tl[x][y] = Inside(c, d)[y]
    <2>0. Live(tl[b][i]) /\ Live(tl[a][j]) /\ tl[b][i].name = tl[a][j].name /\ (b # a \/ i # j)
      BY <1>15 DEF NamesMeet
    <2>1. (Was(b, i) \/ Came(b, i) \/ New(b, i)) /\ (Was(a, j) \/ Came(a, j) \/ New(a, j))
      BY <1>0, <1>12
    <2>2. CASE Was(b, i) /\ Was(a, j)
      <3>1. NamesMeet(sl, b, i, a, j)
        BY <2>0, <2>2 DEF NamesMeet
      <3> QED
        BY <1>0, <2>2, <3>1 DEF OneName
    <2>3. CASE Was(b, i) /\ Came(a, j)
      BY <1>0, <2>0, <2>3
    <2>4. CASE Came(b, i) /\ Was(a, j)
      BY <1>0, <2>0, <2>4
    <2>5. CASE Came(b, i) /\ Came(a, j)
      BY <2>0, <2>5
    <2>6. CASE New(b, i) /\ New(a, j)
      <3>1. /\ Live(Inside(c, d)[i]) /\ Live(Inside(c, d)[j])
            /\ Inside(c, d)[i].name = Inside(c, d)[j].name /\ i # j
        BY <2>0, <2>6
      <3>2. c \in Clusters /\ d \in Clusters
        BY <1>0
      <3> QED
        BY <3>1, <3>2, InsideSound
    <2>7. g = c => ~Was(b, i) /\ ~Came(b, i) /\ ~Was(a, j) /\ ~Came(a, j)
      BY <1>0, <1>2
    <2> QED
      BY <2>1, <2>2, <2>3, <2>4, <2>5, <2>6, <2>7
  <1>15a. OneName(ny, tl, E)
    BY <1>15 DEF OneName
  <1>16. DeadEnds(ny, tl, E)
    <2> SUFFICES ASSUME NEW b \in Held(ny, E), NEW i \in SlotIndex, NEW g \in E,
                        tl[b][i].kind = "deleted", tl[b][i].start \in ChainIn(ny, g)
                 PROVE  ChainIn(ny, g) = {g}
      BY DEF DeadEnds
    <2>1. CASE g = c
      BY <1>1, <2>1
    <2>2. CASE g \in D
      <3>1. b \in Held(nx, D) /\ tl[b][i] = sl[b][i]
        <4>1. CASE Wrote(b, i)
          BY <1>0, <4>1
        <4>2. CASE tl[b][i] = Inside(c, d)[i]
          BY <1>5, <4>2
        <4> QED
          BY <1>4, <4>1, <4>2
      <3>2. sl[b][i].kind = "deleted" /\ sl[b][i].start \in ChainIn(nx, g)
        BY <1>1, <2>2, <3>1
      <3>3. ChainIn(nx, g) = {g}
        BY <1>0, <2>2, <3>1, <3>2 DEF DeadEnds
      <3> QED
        BY <1>1, <2>2, <3>3
    <2> QED
      BY <1>2, <2>1, <2>2
  <1>17. Below(ny, tl, E)
    <2> SUFFICES ASSUME NEW b \in Held(ny, E), NEW i \in SlotIndex, tl[b][i].kind = "dir",
                        tl[b][i].start \in Clusters
                 PROVE  tl[b][i].start \in E
      BY DEF Below
    <2>1. CASE b \in Held(nx, D) /\ tl[b][i] = sl[b][i]
      BY <1>0, <1>2, <2>1 DEF Below
    <2>2. CASE Wrote(b, i)
      BY <1>0, <1>2, <2>2
    <2>3. CASE entry.kind = "dir" /\ tl[b][i] = Inside(c, d)[i]
      BY <1>0, <1>2, <1>5, <2>3 DEF Live
    <2> QED
      BY <1>4, <2>1, <2>2, <2>3
  <1> QED
    BY <1>0, <1>2, <1>6, <1>7, <1>8, <1>10a, <1>11, <1>14, <1>15a, <1>16, <1>17 DEF Kept, Sound, E

(***************************************************************************)
(* Removing a file, whether or not the deleted entry could be written, and *)
(* making a directory on a full volume.                                    *)
(***************************************************************************)
Removing(nx, sl, D, G, b, i) ==
    /\ Kept(nx, sl, D, G) /\ ~Clash(nx, G)
    /\ b \in Held(nx, D) /\ i \in SlotIndex /\ IsFile(sl[b][i])

Given(f) == [Unused EXCEPT !.kind = "deleted", !.start = f]

Cut(nx, f) == [x \in Clusters |-> IF x \in ChainIn(nx, f) THEN 0 ELSE nx[x]]

Struck(sl, b, i, written) ==
    IF written THEN [sl EXCEPT ![b][i] = Given(sl[b][i].start)] ELSE sl

GivenUp(G, f, written) == IF written THEN G \ {f} ELSE G \cup ({f} \cap Clusters)

Removed(nx, sl, D, b, i, written, ny, tl) ==
    /\ \A x \in Held(nx, D) : ny[x] = nx[x]
    /\ \A g \in D : ChainIn(ny, g) = ChainIn(nx, g)
    /\ Held(ny, D) = Held(nx, D) /\ Held(nx, D) \in SUBSET Clusters
    /\ \A x \in Held(nx, D), y \in SlotIndex :
           \/ (written => ~(x = b /\ y = i)) /\ tl[x][y] = sl[x][y]
           \/ written /\ x = b /\ y = i /\ tl[x][y] = Given(sl[b][i].start)
    /\ sl[b][i].start \notin Held(nx, D)

LEMMA RemovingPlaces ==
    ASSUME NEW nx, NEW sl, NEW D, NEW G, NEW b, NEW i, Removing(nx, sl, D, G, b, i),
           NEW ny, ny = Cut(nx, sl[b][i].start),
           NEW written \in BOOLEAN, NEW tl, tl = Struck(sl, b, i, written)
    PROVE  Removed(nx, sl, D, b, i, written, ny, tl)
  <1>0. /\ Typed(nx, sl) /\ D \in SUBSET Clusters /\ Theirs(nx, sl, D, G)
        /\ b \in Held(nx, D) /\ i \in SlotIndex /\ IsFile(sl[b][i])
        /\ Held(nx, D) \in SUBSET Clusters
    BY HeldInTable DEF Removing, Kept, Sound, FilesOwn
  <1>2. \A x \in ChainIn(nx, sl[b][i].start) : x \notin Held(nx, D)
    BY <1>0 DEF Theirs
  <1>3. \A x \in Held(nx, D) : ny[x] = nx[x]
    BY <1>0, <1>2 DEF Cut
  <1>4. sl[b][i].start \notin Held(nx, D)
    BY <1>0, <1>2, ChainBasics
  <1>5. ASSUME NEW g \in D
        PROVE  ChainIn(ny, g) = ChainIn(nx, g)
    <2>1. \A x \in ChainIn(nx, g) : ny[x] = nx[x]
      BY <1>3, HeldIs
    <2> QED
      BY <2>1, ChainStays
  <1>6. Held(ny, D) = Held(nx, D)
    <2>1. {ChainIn(ny, g) : g \in D} = {ChainIn(nx, g) : g \in D}
      BY <1>5
    <2> QED
      BY <2>1 DEF Held
  <1>7. ASSUME NEW x \in Held(nx, D), NEW y \in SlotIndex
        PROVE  \/ (written => ~(x = b /\ y = i)) /\ tl[x][y] = sl[x][y]
               \/ written /\ x = b /\ y = i /\ tl[x][y] = Given(sl[b][i].start)
    <2>1. sl \in [Clusters -> [SlotIndex -> Slot]]
      BY <1>0 DEF Typed
    <2>2. CASE written
      <3>1. tl = [sl EXCEPT ![b][i] = Given(sl[b][i].start)]
        BY <2>2 DEF Struck
      <3> QED
        BY <1>0, <2>1, <2>2, <3>1
    <2>3. CASE ~written
      BY <2>3 DEF Struck
    <2> QED
      BY <2>2, <2>3
  <1> QED
    BY <1>0, <1>3, <1>4, <1>5, <1>6, <1>7 DEF Removed

LEMMA RemovingKeeps ==
    ASSUME NEW nx, NEW sl, NEW D, NEW G, NEW b, NEW i, Removing(nx, sl, D, G, b, i),
           NEW ny, ny = Cut(nx, sl[b][i].start),
           NEW written \in BOOLEAN, NEW tl, tl = Struck(sl, b, i, written),
           NEW H, H = GivenUp(G, sl[b][i].start, written)
    PROVE  Kept(ny, tl, D, H)
  <1> DEFINE f == sl[b][i].start
  <1>0. /\ D \in SUBSET Clusters /\ Root \in D /\ G \in SUBSET Clusters
        /\ Typed(nx, sl) /\ NoLoop(nx) /\ DirsOwn(nx, D) /\ Theirs(nx, sl, D, G)
        /\ DirsOnce(nx, sl, D) /\ Behind(nx, sl, D) /\ OneName(nx, sl, D)
        /\ DeadEnds(nx, sl, D) /\ Below(nx, sl, D)
        /\ b \in Held(nx, D) /\ i \in SlotIndex /\ IsFile(sl[b][i])
    BY DEF Removing, Kept, Sound, FilesOwn
  <1>0p. Removed(nx, sl, D, b, i, written, ny, tl)
    BY RemovingPlaces
  <1>1. /\ \A x \in Held(nx, D) : ny[x] = nx[x]
        /\ \A g \in D : ChainIn(ny, g) = ChainIn(nx, g)
        /\ Held(ny, D) = Held(nx, D) /\ Held(nx, D) \in SUBSET Clusters
        /\ f \notin Held(nx, D)
    BY <1>0p DEF Removed
  <1>2. ASSUME NEW x \in Held(nx, D), NEW y \in SlotIndex
        PROVE  \/ (written => ~(x = b /\ y = i)) /\ tl[x][y] = sl[x][y]
               \/ written /\ x = b /\ y = i /\ tl[x][y] = Given(f)
    BY <1>0p DEF Removed
  <1>1a. ny = Cut(nx, f) /\ IsFile(sl[b][i]) /\ f = sl[b][i].start
         /\ H = GivenUp(G, f, written)
    BY <1>0
  <1>1b. tl = IF written THEN [sl EXCEPT ![b][i] = Given(f)] ELSE sl
    BY DEF Struck
  <1> HIDE DEF f
  <1>3. Given(f).kind = "deleted" /\ Given(f).start = f /\ Given(f) \in Slot
    <2>1. f \in {0} \cup Clusters
      BY <1>0, <1>1, <1>1a DEF Typed, Slot
    <2> QED
      BY <2>1 DEF Given, Unused, Slot
  <1>4. ASSUME NEW x \in Held(nx, D), NEW y \in SlotIndex, tl[x][y].kind # "deleted"
        PROVE  tl[x][y] = sl[x][y] /\ (written => ~(x = b /\ y = i))
    BY <1>2, <1>3, <1>4
  <1>5. Typed(ny, tl)
    <2>1. /\ nx \in [Clusters -> {0, EndOfChain} \cup Clusters]
          /\ sl \in [Clusters -> [SlotIndex -> Slot]]
          /\ \A c \in Clusters, y \in SlotIndex : IsDir(sl[c][y]) => sl[c][y].start \in Clusters
      BY <1>0 DEF Typed
    <2>2. ny \in [Clusters -> {0, EndOfChain} \cup Clusters]
      BY <1>1a, <2>1 DEF Cut
    <2>4. tl \in [Clusters -> [SlotIndex -> Slot]]
      BY <1>0, <1>1, <1>1b, <1>3, <2>1
    <2>5. ASSUME NEW c \in Clusters, NEW y \in SlotIndex, IsDir(tl[c][y])
          PROVE  tl[c][y].start \in Clusters
      <3>1. tl[c][y] = sl[c][y] \/ tl[c][y] = Given(f)
        BY <1>1b, <2>1
      <3> QED
        BY <1>3, <2>1, <2>5, <3>1 DEF IsDir
    <2> QED
      BY <2>2, <2>4, <2>5 DEF Typed
  <1>6. Fewer(nx, ny) /\ NoLoop(ny)
    <2>1. Fewer(nx, ny)
      BY <1>1a, Constants DEF Cut, Fewer
    <2> QED
      BY <1>0, <2>1, LoopsStayAway
  <1>7. DirsOwn(ny, D)
    <2>1. \A g \in D : \A x \in ChainIn(nx, g) : ny[x] = nx[x]
      BY <1>1, HeldIs
    <2> QED
      BY <1>0, <1>1, <2>1 DEF DirsOwn
  (* what becomes of the clusters of a file that stays in its slot *)
  <1>8. ASSUME NEW x \in Held(nx, D), NEW y \in SlotIndex, IsFile(sl[x][y]),
               written => ~(x = b /\ y = i), NEW z \in ChainIn(ny, sl[x][y].start)
        PROVE  z \in ChainIn(nx, sl[x][y].start) /\ (ny[z] # 0 \/ z \in H)
    <2>1. z \in ChainIn(nx, sl[x][y].start) /\ z \in Clusters
      BY <1>6, <1>8, ChainShrinks, ChainInIs
    <2>2. CASE x = b /\ y = i
      <3>1. f \in Clusters /\ ~written
        BY <1>1a, <1>8, <2>2, ChainInIs
      <3>2. ny[f] = 0
        BY <1>1a, <3>1, ChainBasics DEF Cut
      <3>3. ChainIn(ny, f) = {f}
        BY <3>1, <3>2, ChainAlone, Constants
      <3>4. z = f
        BY <1>1a, <1>8, <2>2, <3>3
      <3>5. z \in H
        BY <1>1a, <3>1, <3>4 DEF GivenUp
      <3> QED
        BY <2>1, <3>5
    <2>3. CASE ~(x = b /\ y = i)
      <3>1. ~FilesMeet(nx, sl, x, y, b, i)
        BY <1>0 DEF Theirs
      <3>2. z \notin ChainIn(nx, f)
        BY <1>1a, <1>8, <2>1, <2>3, <3>1 DEF FilesMeet
      <3>3. ny[z] = nx[z]
        BY <1>1a, <2>1, <3>2 DEF Cut
      <3>4. z # f
        BY <2>1, <3>2, ChainBasics
      <3>5. nx[z] # 0 \/ z \in G
        BY <1>0, <1>8, <2>1 DEF Theirs
      <3>6. z \in G => z \in H
        BY <1>1a, <3>4 DEF GivenUp
      <3> QED
        BY <2>1, <3>3, <3>5, <3>6
    <2> QED
      BY <2>2, <2>3
  <1>9. Theirs(ny, tl, D, H)
    <2>1. ASSUME NEW x \in Held(nx, D), NEW y \in SlotIndex, IsFile(tl[x][y])
          PROVE  tl[x][y] = sl[x][y] /\ IsFile(sl[x][y]) /\ (written => ~(x = b /\ y = i))
      BY <1>4, <2>1 DEF IsFile
    <2>2. ASSUME NEW x \in Held(nx, D), NEW y \in SlotIndex, IsFile(tl[x][y]),
                 NEW z \in ChainIn(ny, tl[x][y].start)
          PROVE  (ny[z] # 0 \/ z \in H) /\ z \notin Held(nx, D)
      <3>1. z \in ChainIn(nx, sl[x][y].start) /\ (ny[z] # 0 \/ z \in H)
        BY <1>8, <2>1, <2>2
      <3> QED
        BY <1>0, <2>1, <2>2, <3>1 DEF Theirs
    <2>3. ASSUME NEW x \in Held(nx, D), NEW y \in SlotIndex,
                 NEW a \in Held(nx, D), NEW j \in SlotIndex, FilesMeet(ny, tl, x, y, a, j)
          PROVE  FALSE
      <3>1. /\ tl[x][y] = sl[x][y] /\ IsFile(sl[x][y]) /\ (written => ~(x = b /\ y = i))
            /\ tl[a][j] = sl[a][j] /\ IsFile(sl[a][j]) /\ (written => ~(a = b /\ j = i))
            /\ (x # a \/ y # j)
        BY <2>1, <2>3 DEF FilesMeet
      <3>2. PICK z : z \in ChainIn(ny, tl[x][y].start) /\ z \in ChainIn(ny, tl[a][j].start)
        BY <2>3 DEF FilesMeet
      <3>3. z \in ChainIn(nx, sl[x][y].start) /\ z \in ChainIn(nx, sl[a][j].start)
        BY <1>8, <3>1, <3>2
      <3>4. FilesMeet(nx, sl, x, y, a, j)
        BY <3>1, <3>3 DEF FilesMeet
      <3> QED
        BY <1>0, <3>4 DEF Theirs
    <2>4. \A x \in Held(nx, D), y \in SlotIndex : IsFile(tl[x][y]) =>
              \A z \in ChainIn(ny, tl[x][y].start) : (ny[z] # 0 \/ z \in H) /\ z \notin Held(nx, D)
      BY <2>2
    <2>5. Held(ny, D) = Held(nx, D)
      BY <1>1
    <2> QED
      BY <2>3, <2>4, <2>5 DEF Theirs
  <1>9a. FilesOwn(ny, tl, D, H) /\ H \in SUBSET Clusters
    BY <1>0, <1>1a, <1>9 DEF FilesOwn, GivenUp
  <1>10. DirsOnce(ny, tl, D)
    <2>1. ASSUME NEW x \in Held(nx, D), NEW y \in SlotIndex, IsDir(tl[x][y])
          PROVE  tl[x][y] = sl[x][y]
      BY <1>4, <2>1 DEF IsDir
    <2>2. ASSUME NEW x \in Held(nx, D), NEW y \in SlotIndex, IsDir(tl[x][y])
          PROVE  tl[x][y].start # Root
      BY <1>0, <2>1, <2>2 DEF DirsOnce
    <2>3. ASSUME NEW x \in Held(nx, D), NEW y \in SlotIndex,
                 NEW a \in Held(nx, D), NEW j \in SlotIndex, DirsMeet(tl, x, y, a, j)
          PROVE  FALSE
      <3>1. tl[x][y] = sl[x][y] /\ tl[a][j] = sl[a][j]
        BY <2>1, <2>3 DEF DirsMeet
      <3>2. DirsMeet(sl, x, y, a, j)
        BY <2>3, <3>1 DEF DirsMeet
      <3> QED
        BY <1>0, <3>2 DEF DirsOnce
    <2> QED
      BY <1>1, <2>2, <2>3 DEF DirsOnce
  <1>11. Behind(ny, tl, D)
    <2> SUFFICES ASSUME NEW g \in D, NEW x \in ChainIn(ny, g), NEW a \in ChainIn(ny, g),
                        NEW y \in SlotIndex, NEW j \in SlotIndex,
                        tl[x][y].kind = "end", Live(tl[a][j])
                 PROVE  ~Ahead(ny, x, y, a, j)
      BY DEF Behind
    <2>1. /\ g \in Clusters /\ x \in ChainIn(nx, g) /\ a \in ChainIn(nx, g)
          /\ x \in Held(nx, D) /\ a \in Held(nx, D)
      BY <1>0, <1>1, HeldIs
    <2>2. tl[x][y] = sl[x][y] /\ tl[a][j] = sl[a][j]
      BY <1>4, <2>1 DEF Live
    <2>3. ~Ahead(nx, x, y, a, j)
      BY <1>0, <2>1, <2>2 DEF Behind
    <2>4. \A z \in ChainIn(nx, g) : ny[z] = nx[z]
      BY <1>1, HeldIs
    <2> QED
      BY <2>1, <2>3, <2>4, AheadStays
  <1>12. OneName(ny, tl, D)
    <2>1. ASSUME NEW g \in D, NEW x \in ChainIn(ny, g), NEW a \in ChainIn(ny, g),
                 NEW y \in SlotIndex, NEW j \in SlotIndex, NamesMeet(tl, x, y, a, j)
          PROVE  FALSE
      <3>1. /\ x \in ChainIn(nx, g) /\ a \in ChainIn(nx, g)
            /\ x \in Held(nx, D) /\ a \in Held(nx, D)
        BY <1>1, HeldIs
      <3>2. tl[x][y] = sl[x][y] /\ tl[a][j] = sl[a][j]
        BY <1>4, <2>1, <3>1 DEF Live, NamesMeet
      <3>3. NamesMeet(sl, x, y, a, j)
        BY <2>1, <3>2 DEF NamesMeet
      <3> QED
        BY <1>0, <3>1, <3>3 DEF OneName
    <2> QED
      BY <2>1 DEF OneName
  <1>13. DeadEnds(ny, tl, D)
    <2> SUFFICES ASSUME NEW x \in Held(nx, D), NEW y \in SlotIndex, NEW g \in D,
                        tl[x][y].kind = "deleted", tl[x][y].start \in ChainIn(nx, g)
                 PROVE  ChainIn(nx, g) = {g}
      BY <1>1 DEF DeadEnds
    <2>1. CASE tl[x][y] = sl[x][y]
      BY <1>0, <2>1 DEF DeadEnds
    <2>2. CASE tl[x][y] = Given(f)
      BY <1>1, <1>3, <2>2, HeldIs
    <2> QED
      BY <1>2, <2>1, <2>2
  <1>14. Below(ny, tl, D)
    <2>1. ASSUME NEW x \in Held(nx, D), NEW y \in SlotIndex, tl[x][y].kind = "dir",
                 tl[x][y].start \in Clusters
          PROVE  tl[x][y].start \in D
      <3>1. tl[x][y] = sl[x][y]
        BY <1>4, <2>1
      <3> QED
        BY <1>0, <2>1, <3>1 DEF Below
    <2> QED
      BY <1>1, <2>1 DEF Below
  <1> QED
    BY <1>0, <1>5, <1>6, <1>7, <1>9a, <1>10, <1>11, <1>12, <1>13, <1>14 DEF Kept, Sound

(* What fat32_make_dir writes on a full volume goes to a cluster that no   *)
(* directory has, or that is all of one.                                   *)
LEMMA DamageKeeps ==
    ASSUME NEW nx, NEW sl, NEW D, NEW G, NEW d \in D, NEW s \in Clusters,
           Kept(nx, sl, D, G),
           \A g \in D : s \in ChainIn(nx, g) => ChainIn(nx, g) = {g},
           NEW tl, tl = [sl EXCEPT ![s] = Inside(s, d)]
    PROVE  Kept(nx, tl, D, G)
  <1>0. /\ D \in SUBSET Clusters /\ Root \in D /\ G \in SUBSET Clusters
        /\ Typed(nx, sl) /\ NoLoop(nx) /\ DirsOwn(nx, D) /\ FilesOwn(nx, sl, D, G)
        /\ DirsOnce(nx, sl, D) /\ Behind(nx, sl, D) /\ OneName(nx, sl, D)
        /\ DeadEnds(nx, sl, D) /\ Below(nx, sl, D)
    BY DEF Kept, Sound
  <1>1. /\ sl \in [Clusters -> [SlotIndex -> Slot]] /\ Held(nx, D) \in SUBSET Clusters
        /\ d \in Clusters
    BY <1>0, HeldInTable DEF Typed
  <1>2. ASSUME NEW x \in Clusters, NEW y \in SlotIndex
        PROVE  \/ x # s /\ tl[x][y] = sl[x][y]
               \/ x = s /\ tl[x][y] = Inside(s, d)[y]
    BY <1>1
  <1>3. ASSUME NEW y \in SlotIndex
        PROVE  /\ Inside(s, d)[y].kind \in {"dir", "end"}
               /\ Live(Inside(s, d)[y]) => /\ Inside(s, d)[y].start \in {s, d}
                                           /\ Inside(s, d)[y].name \notin Names
    BY <1>1, InsideSound
  <1>4. s \in Held(nx, D) => s \in D
    BY HeldIs
  <1>5. ASSUME NEW x \in Clusters, NEW y \in SlotIndex, IsFile(tl[x][y]) \/ IsDir(tl[x][y])
        PROVE  tl[x][y] = sl[x][y]
    BY <1>2, <1>3, <1>5 DEF IsFile, IsDir, Live
  <1>6. Typed(nx, tl)
    <2>1. Inside(s, d) \in [SlotIndex -> Slot]
      BY <1>1, InsideFacts
    <2>2. tl \in [Clusters -> [SlotIndex -> Slot]]
      BY <1>1, <2>1
    <2>3. ASSUME NEW x \in Clusters, NEW y \in SlotIndex, IsDir(tl[x][y])
          PROVE  tl[x][y].start \in Clusters
      <3>1. tl[x][y] = sl[x][y]
        BY <1>5, <2>3
      <3> QED
        BY <1>0, <2>3, <3>1 DEF Typed
    <2> QED
      BY <1>0, <2>2, <2>3 DEF Typed
  <1>7. ASSUME Theirs(nx, sl, D, G) PROVE Theirs(nx, tl, D, G)
    <2>1. ASSUME NEW x \in Held(nx, D), NEW y \in SlotIndex, IsFile(tl[x][y]),
                 NEW z \in ChainIn(nx, tl[x][y].start)
          PROVE  (nx[z] # 0 \/ z \in G) /\ z \notin Held(nx, D)
      <3>1. tl[x][y] = sl[x][y]
        BY <1>1, <1>5, <2>1
      <3> QED
        BY <1>7, <2>1, <3>1 DEF Theirs
    <2>2. ASSUME NEW x \in Held(nx, D), NEW y \in SlotIndex,
                 NEW a \in Held(nx, D), NEW j \in SlotIndex, FilesMeet(nx, tl, x, y, a, j)
          PROVE  FALSE
      <3>1. tl[x][y] = sl[x][y] /\ tl[a][j] = sl[a][j]
        BY <1>1, <1>5, <2>2 DEF FilesMeet
      <3>2. FilesMeet(nx, sl, x, y, a, j)
        BY <2>2, <3>1 DEF FilesMeet
      <3> QED
        BY <1>7, <3>2 DEF Theirs
    <2> QED
      BY <2>1, <2>2 DEF Theirs
  <1>7a. FilesOwn(nx, tl, D, G)
    BY <1>0, <1>7 DEF FilesOwn
  <1>8. DirsOnce(nx, tl, D)
    <2>1. ASSUME NEW x \in Held(nx, D), NEW y \in SlotIndex, IsDir(tl[x][y])
          PROVE  tl[x][y].start # Root
      <3>1. tl[x][y] = sl[x][y]
        BY <1>1, <1>5, <2>1
      <3> QED
        BY <1>0, <2>1, <3>1 DEF DirsOnce
    <2>2. ASSUME NEW x \in Held(nx, D), NEW y \in SlotIndex,
                 NEW a \in Held(nx, D), NEW j \in SlotIndex, DirsMeet(tl, x, y, a, j)
          PROVE  FALSE
      <3>1. tl[x][y] = sl[x][y] /\ tl[a][j] = sl[a][j]
        BY <1>1, <1>5, <2>2 DEF DirsMeet
      <3>2. DirsMeet(sl, x, y, a, j)
        BY <2>2, <3>1 DEF DirsMeet
      <3> QED
        BY <1>0, <3>2 DEF DirsOnce
    <2> QED
      BY <2>1, <2>2 DEF DirsOnce
  (* two slots of one directory: both as they were, or both new *)
  <1>9. ASSUME NEW g \in D, NEW x \in ChainIn(nx, g), NEW a \in ChainIn(nx, g),
               NEW y \in SlotIndex, NEW j \in SlotIndex
        PROVE  \/ tl[x][y] = sl[x][y] /\ tl[a][j] = sl[a][j]
               \/ x = s /\ a = s /\ tl[x][y] = Inside(s, d)[y] /\ tl[a][j] = Inside(s, d)[j]
    <2>1. x \in Clusters /\ a \in Clusters
      BY <1>0, ChainBasics
    <2>2. x = s \/ a = s => x = a
      <3>1. s \in ChainIn(nx, g) => ChainIn(nx, g) = {g}
        OBVIOUS
      <3> QED
        BY <3>1
    <2> QED
      BY <1>2, <2>1, <2>2
  <1>10. Behind(nx, tl, D)
    <2> SUFFICES ASSUME NEW g \in D, NEW x \in ChainIn(nx, g), NEW a \in ChainIn(nx, g),
                        NEW y \in SlotIndex, NEW j \in SlotIndex,
                        tl[x][y].kind = "end", Live(tl[a][j])
                 PROVE  ~Ahead(nx, x, y, a, j)
      BY DEF Behind
    <2>1. CASE tl[x][y] = sl[x][y] /\ tl[a][j] = sl[a][j]
      BY <1>0, <2>1 DEF Behind
    <2>2. CASE x = s /\ a = s /\ tl[x][y] = Inside(s, d)[y] /\ tl[a][j] = Inside(s, d)[j]
      <3>1. ~(y < j)
        BY <1>1, <2>2, InsideSound
      <3> QED
        BY <2>2, <3>1 DEF Ahead
    <2> QED
      BY <1>9, <2>1, <2>2
  <1>11. OneName(nx, tl, D)
    <2>1. ASSUME NEW g \in D, NEW x \in ChainIn(nx, g), NEW a \in ChainIn(nx, g),
                 NEW y \in SlotIndex, NEW j \in SlotIndex, NamesMeet(tl, x, y, a, j)
          PROVE  FALSE
      <3>1. CASE tl[x][y] = sl[x][y] /\ tl[a][j] = sl[a][j]
        <4>1. NamesMeet(sl, x, y, a, j)
          BY <2>1, <3>1 DEF NamesMeet
        <4> QED
          BY <1>0, <4>1 DEF OneName
      <3>2. CASE x = s /\ a = s /\ tl[x][y] = Inside(s, d)[y] /\ tl[a][j] = Inside(s, d)[j]
        <4>1. /\ Live(Inside(s, d)[y]) /\ Live(Inside(s, d)[j]) /\ y # j
              /\ Inside(s, d)[y].name = Inside(s, d)[j].name
          BY <2>1, <3>2 DEF NamesMeet
        <4> QED
          BY <1>1, <4>1, InsideSound
      <3> QED
        BY <1>9, <3>1, <3>2
    <2> QED
      BY <2>1 DEF OneName
  <1>12. DeadEnds(nx, tl, D)
    <2> SUFFICES ASSUME NEW x \in Held(nx, D), NEW y \in SlotIndex, NEW g \in D,
                        tl[x][y].kind = "deleted", tl[x][y].start \in ChainIn(nx, g)
                 PROVE  ChainIn(nx, g) = {g}
      BY DEF DeadEnds
    <2>1. tl[x][y] = sl[x][y]
      BY <1>1, <1>2, <1>3
    <2> QED
      BY <1>0, <2>1 DEF DeadEnds
  <1>13. Below(nx, tl, D)
    <2> SUFFICES ASSUME NEW x \in Held(nx, D), NEW y \in SlotIndex, tl[x][y].kind = "dir",
                        tl[x][y].start \in Clusters
                 PROVE  tl[x][y].start \in D
      BY DEF Below
    <2>1. CASE tl[x][y] = sl[x][y]
      BY <1>0, <2>1 DEF Below
    <2>2. CASE x = s /\ tl[x][y] = Inside(s, d)[y]
      BY <1>3, <1>4, <2>2 DEF Live
    <2> QED
      BY <1>1, <1>2, <2>1, <2>2
  <1> QED
    BY <1>0, <1>6, <1>7a, <1>8, <1>10, <1>11, <1>12, <1>13 DEF Kept, Sound

-----------------------------------------------------------------------------
(***************************************************************************)
(* The definitions of Fat32Dir in these terms.                             *)
(***************************************************************************)
EntryAt(nx, sl, c, i) ==
    [cluster |-> c, index |-> i, slot |-> sl[c][i], rest |-> ChainIn(nx, c)]

LEMMA EntriesAre ==
    \A d, e : e \in EntriesOf(d) <=>
        \E c \in ChainIn(next, d), i \in SlotIndex : e = EntryAt(next, slots, c, i)
  BY ChainsAre DEF EntriesOf, EntryAt

LEMMA EntryFields ==
    ASSUME NEW nx, NEW sl, NEW c, NEW i
    PROVE  /\ EntryAt(nx, sl, c, i).cluster = c /\ EntryAt(nx, sl, c, i).index = i
           /\ EntryAt(nx, sl, c, i).slot = sl[c][i] /\ EntryAt(nx, sl, c, i).rest = ChainIn(nx, c)
           /\ InUse(EntryAt(nx, sl, c, i)) <=> Live(sl[c][i])
           /\ Unwritten(EntryAt(nx, sl, c, i)) <=> sl[c][i].kind = "end"
           /\ Deleted(EntryAt(nx, sl, c, i)) <=> sl[c][i].kind = "deleted"
           /\ \A n : Matches(EntryAt(nx, sl, c, i), n) <=> Live(sl[c][i]) /\ sl[c][i].name = n
           /\ \A b, j : Before(EntryAt(nx, sl, c, i), EntryAt(nx, sl, b, j)) <=> Ahead(nx, c, i, b, j)
           /\ \A b, j : EntryAt(nx, sl, c, i) = EntryAt(nx, sl, b, j) => c = b /\ i = j
  BY DEF EntryAt, InUse, Live, Unwritten, Deleted, Matches, Before, Ahead

LEMMA DirsInTable == Dirs \in SUBSET Clusters /\ Root \in Dirs
  <1>1. \A b : b \in Dirs <=> b \in Reach(Root, Children)
    BY DEF Dirs
  <1> QED
    BY <1>1, ReachIs, Constants

LEMMA ChildIs ==
    ASSUME NEW d, NEW c
    PROVE  <<d, c>> \in Children <=>
               /\ d \in Clusters /\ c \in Clusters
               /\ \E e \in Visible(d) : e.slot.kind = "dir" /\ c = e.slot.start
  BY DEF Children

(* Dirs is the least set that has the root and all that can be seen there. *)
LEMMA DirsLeast ==
    ASSUME NEW S \in SUBSET Clusters, Root \in S,
           \A d \in S : \A e \in Visible(d) :
               e.slot.kind = "dir" /\ e.slot.start \in Clusters => e.slot.start \in S
    PROVE  Dirs \subseteq S
  <1>1. ASSUME NEW e \in Children, e[1] \in S PROVE e[2] \in S
    <2>1. PICK d \in Clusters : \E f \in Visible(d) :
              f.slot.kind = "dir" /\ f.slot.start \in Clusters /\ e = <<d, f.slot.start>>
      BY DEF Children
    <2> QED
      BY <1>1, <2>1
  <1>2. \A b : b \in Dirs <=> b \in Reach(Root, Children)
    BY DEF Dirs
  <1> QED
    BY <1>1, <1>2, ReachIs, Constants

LEMMA DirsClosed ==
    ASSUME NEW d \in Dirs, NEW e \in Visible(d), e.slot.kind = "dir", e.slot.start \in Clusters
    PROVE  e.slot.start \in Dirs
  <1>1. \A b : b \in Dirs <=> b \in Reach(Root, Children)
    BY DEF Dirs
  <1>2. <<d, e.slot.start>> \in Children
    BY DirsInTable, ChildIs
  <1>3. ASSUME NEW S \in SUBSET Clusters, Root \in S,
               \A f \in Children : f[1] \in S => f[2] \in S
        PROVE  e.slot.start \in S
    <2>1. d \in S
      BY <1>1, <1>3, ReachIs
    <2> QED
      BY <1>2, <1>3, <2>1
  <1> QED
    BY <1>1, <1>3, ReachIs

(* what is in use can be seen, if nothing in use is behind an unwritten slot *)
LEMMA VisibleIs ==
    \A D : Behind(next, slots, D) =>
        \A d \in D : \A e : e \in Visible(d) <=>
            \E c \in ChainIn(next, d), i \in SlotIndex :
                Live(slots[c][i]) /\ e = EntryAt(next, slots, c, i)
  <1> SUFFICES ASSUME NEW D, Behind(next, slots, D), NEW d \in D, NEW e
               PROVE  e \in Visible(d) <=>
                          \E c \in ChainIn(next, d), i \in SlotIndex :
                              Live(slots[c][i]) /\ e = EntryAt(next, slots, c, i)
    OBVIOUS
  <1>1. ASSUME e \in Visible(d)
        PROVE  \E c \in ChainIn(next, d), i \in SlotIndex :
                   Live(slots[c][i]) /\ e = EntryAt(next, slots, c, i)
    <2>1. e \in EntriesOf(d) /\ InUse(e)
      BY <1>1 DEF Visible
    <2>2. PICK c \in ChainIn(next, d), i \in SlotIndex : e = EntryAt(next, slots, c, i)
      BY <2>1, EntriesAre
    <2> QED
      BY <2>1, <2>2, EntryFields
  <1>2. ASSUME NEW c \in ChainIn(next, d), NEW i \in SlotIndex,
               Live(slots[c][i]), e = EntryAt(next, slots, c, i)
        PROVE  e \in Visible(d)
    <2>1. e \in EntriesOf(d) /\ InUse(e)
      BY <1>2, EntriesAre, EntryFields
    <2>2. ASSUME NEW f \in EntriesOf(d), Unwritten(f)
          PROVE  ~Before(f, e)
      <3>1. PICK b \in ChainIn(next, d), j \in SlotIndex : f = EntryAt(next, slots, b, j)
        BY EntriesAre
      <3>2. slots[b][j].kind = "end"
        BY <2>2, <3>1, EntryFields
      <3>3. ~Ahead(next, b, j, c, i)
        BY <1>2, <3>2 DEF Behind
      <3> QED
        BY <1>2, <3>1, <3>3, EntryFields
    <2> QED
      BY <2>1, <2>2 DEF Visible
  <1> QED
    BY <1>1, <1>2

LEMMA DirsWithin ==
    \A E \in SUBSET Clusters : Root \in E /\ Below(next, slots, E) => Dirs \subseteq E
  <1> SUFFICES ASSUME NEW E \in SUBSET Clusters, Root \in E, Below(next, slots, E)
               PROVE  Dirs \subseteq E
    OBVIOUS
  <1>1. ASSUME NEW d \in E, NEW e \in Visible(d), e.slot.kind = "dir", e.slot.start \in Clusters
        PROVE  e.slot.start \in E
    <2>1. PICK c \in ChainIn(next, d), i \in SlotIndex : e = EntryAt(next, slots, c, i)
      BY EntriesAre DEF Visible
    <2>2. c \in Held(next, E)
      BY HeldIs
    <2> QED
      BY <1>1, <2>1, <2>2, EntryFields DEF Below
  <1> QED
    BY <1>1, DirsLeast

LEMMA DirsBelow ==
    Typed(next, slots) /\ Behind(next, slots, Dirs) => Below(next, slots, Dirs)
  <1> SUFFICES ASSUME Typed(next, slots), Behind(next, slots, Dirs),
                      NEW c \in Held(next, Dirs), NEW i \in SlotIndex, slots[c][i].kind = "dir",
                      slots[c][i].start \in Clusters
               PROVE  slots[c][i].start \in Dirs
    BY DEF Below
  <1>1. PICK d \in Dirs : c \in ChainIn(next, d)
    BY HeldIs
  <1>3. Live(slots[c][i])
    BY DEF Live
  <1>4. EntryAt(next, slots, c, i) \in Visible(d)
    BY <1>1, <1>3, VisibleIs
  <1> QED
    BY <1>4, DirsClosed, EntryFields

(* Whatever well-kept set of directories there may be, Dirs is in it and is *)
(* well kept.                                                               *)
LEMMA DirsKept ==
    \A E : Kept(next, slots, E, givenUp) => Dirs \subseteq E /\ Kept(next, slots, Dirs, givenUp)
  <1> SUFFICES ASSUME NEW E, Kept(next, slots, E, givenUp)
               PROVE  Dirs \subseteq E /\ Kept(next, slots, Dirs, givenUp)
    OBVIOUS
  <1>1. Dirs \subseteq E
    BY DirsWithin DEF Kept, Sound
  <1>2. Sound(next, slots, Dirs, givenUp)
    BY <1>1, SoundOfFewer, DirsInTable DEF Kept
  <1>3. Below(next, slots, Dirs)
    BY <1>2, DirsBelow DEF Sound
  <1> QED
    BY <1>1, <1>2, <1>3 DEF Kept

(* the entries that can be found and their kind, told from their places *)
LEMMA NamedAsIs ==
    ASSUME Behind(next, slots, Dirs), NEW kind \in {"file", "dir"}, NEW e
    PROVE  e \in NamedAs(kind) <=>
               \E c \in Held(next, Dirs), i \in SlotIndex :
                   /\ e = EntryAt(next, slots, c, i)
                   /\ slots[c][i].kind = kind /\ slots[c][i].name \in Names
  <1>1. ASSUME e \in NamedAs(kind)
        PROVE  \E c \in Held(next, Dirs), i \in SlotIndex :
                   /\ e = EntryAt(next, slots, c, i)
                   /\ slots[c][i].kind = kind /\ slots[c][i].name \in Names
    <2>1. PICK d \in Dirs : e \in Visible(d) /\ e.slot.name \in Names /\ e.slot.kind = kind
      BY <1>1 DEF NamedAs, Named
    <2>2. PICK c \in ChainIn(next, d), i \in SlotIndex : e = EntryAt(next, slots, c, i)
      BY <2>1, VisibleIs
    <2>3. c \in Held(next, Dirs)
      BY HeldIs
    <2> QED
      BY <2>1, <2>2, <2>3, EntryFields
  <1>2. ASSUME NEW c \in Held(next, Dirs), NEW i \in SlotIndex, e = EntryAt(next, slots, c, i),
               slots[c][i].kind = kind, slots[c][i].name \in Names
        PROVE  e \in NamedAs(kind)
    <2>1. PICK d \in Dirs : c \in ChainIn(next, d)
      BY HeldIs
    <2>2. e \in Visible(d)
      BY <1>2, <2>1, VisibleIs DEF Live
    <2>3. e.slot = slots[c][i]
      BY <1>2, EntryFields
    <2> QED
      BY <1>2, <2>2, <2>3 DEF NamedAs, Named
  <1> QED
    BY <1>1, <1>2

LEMMA FileAt ==
    ASSUME Behind(next, slots, Dirs), NEW c \in Held(next, Dirs), NEW i \in SlotIndex
    PROVE  /\ IsFile(slots[c][i]) => EntryAt(next, slots, c, i) \in NamedAs("file")
           /\ IsDir(slots[c][i]) => EntryAt(next, slots, c, i) \in NamedAs("dir")
  BY NamedAsIs DEF IsFile, IsDir

LEMMA ChainsMeet ==
    ASSUME NEW c, NEW b
    PROVE  Chain(c) \cap Chain(b) = {} <=> ~\E x \in ChainIn(next, c) : x \in ChainIn(next, b)
  BY ChainsAre

LEMMA BehindIs == NothingBehind <=> Behind(next, slots, Dirs)
  <1>1. ASSUME NothingBehind PROVE Behind(next, slots, Dirs)
    <2> SUFFICES ASSUME NEW d \in Dirs, NEW c \in ChainIn(next, d), NEW b \in ChainIn(next, d),
                        NEW i \in SlotIndex, NEW j \in SlotIndex,
                        slots[c][i].kind = "end", Live(slots[b][j])
                 PROVE  ~Ahead(next, c, i, b, j)
      BY DEF Behind
    <2> DEFINE e == EntryAt(next, slots, c, i)
               f == EntryAt(next, slots, b, j)
    <2>1. e \in EntriesOf(d) /\ f \in EntriesOf(d)
      BY EntriesAre
    <2>2. Unwritten(e) /\ InUse(f) /\ (Before(e, f) <=> Ahead(next, c, i, b, j))
      BY EntryFields
    <2> QED
      BY <1>1, <2>1, <2>2 DEF NothingBehind
  <1>2. ASSUME Behind(next, slots, Dirs) PROVE NothingBehind
    <2> SUFFICES ASSUME NEW d \in Dirs, NEW e \in EntriesOf(d), NEW f \in EntriesOf(d),
                        Unwritten(e), InUse(f)
                 PROVE  ~Before(e, f)
      BY DEF NothingBehind
    <2>1. PICK c \in ChainIn(next, d), i \in SlotIndex : e = EntryAt(next, slots, c, i)
      BY EntriesAre
    <2>2. PICK b \in ChainIn(next, d), j \in SlotIndex : f = EntryAt(next, slots, b, j)
      BY EntriesAre
    <2>3. slots[c][i].kind = "end" /\ Live(slots[b][j])
      BY <2>1, <2>2, EntryFields
    <2>4. ~Ahead(next, c, i, b, j)
      BY <1>2, <2>3 DEF Behind
    <2> QED
      BY <2>1, <2>2, <2>4, EntryFields
  <1> QED
    BY <1>1, <1>2

LEMMA NamesAre ==
    ASSUME Behind(next, slots, Dirs)
    PROVE  NoDuplicates <=> OneName(next, slots, Dirs)
  <1>1. ASSUME NoDuplicates PROVE OneName(next, slots, Dirs)
    <2>1. ASSUME NEW d \in Dirs, NEW c \in ChainIn(next, d), NEW b \in ChainIn(next, d),
                 NEW i \in SlotIndex, NEW j \in SlotIndex, NamesMeet(slots, c, i, b, j)
          PROVE  FALSE
      <3> DEFINE e == EntryAt(next, slots, c, i)
                 f == EntryAt(next, slots, b, j)
      <3>1. e \in Visible(d) /\ f \in Visible(d)
        BY <2>1, VisibleIs DEF NamesMeet
      <3>2. e.slot.name = f.slot.name
        BY <2>1, EntryFields DEF NamesMeet
      <3>3. e = f
        BY <1>1, <3>1, <3>2 DEF NoDuplicates
      <3>4. c = b /\ i = j
        BY <3>3, EntryFields
      <3> QED
        BY <2>1, <3>4 DEF NamesMeet
    <2> QED
      BY <2>1 DEF OneName
  <1>2. ASSUME OneName(next, slots, Dirs) PROVE NoDuplicates
    <2> SUFFICES ASSUME NEW d \in Dirs, NEW e \in Visible(d), NEW f \in Visible(d),
                        e.slot.name = f.slot.name
                 PROVE  e = f
      BY DEF NoDuplicates
    <2>1. PICK c \in ChainIn(next, d), i \in SlotIndex :
              Live(slots[c][i]) /\ e = EntryAt(next, slots, c, i)
      BY VisibleIs
    <2>2. PICK b \in ChainIn(next, d), j \in SlotIndex :
              Live(slots[b][j]) /\ f = EntryAt(next, slots, b, j)
      BY VisibleIs
    <2>3. slots[c][i].name = slots[b][j].name
      BY <2>1, <2>2, EntryFields
    <2>4. ~NamesMeet(slots, c, i, b, j)
      BY <1>2 DEF OneName
    <2> QED
      BY <2>1, <2>2, <2>3, <2>4 DEF NamesMeet
  <1> QED
    BY <1>1, <1>2

LEMMA DirsApartIs == DirsApart <=> DirsOwn(next, Dirs)
  <1>1. \A d : Chain(d) = ChainIn(next, d)
    BY ChainsAre
  <1>2. \A d, g : g \in Dirs \ {d} <=> g \in Dirs /\ g # d
    OBVIOUS
  <1> QED
    BY <1>1, <1>2 DEF DirsApart, DirsOwn, IsFree

LEMMA FilesApartIs ==
    ASSUME Behind(next, slots, Dirs)
    PROVE  FilesApart <=> FilesOwn(next, slots, Dirs, givenUp)
  <1>0. Crossed <=> Clash(next, givenUp)
    BY DEF Crossed, Clash, IsFree
  <1>1. ASSUME FilesApart, ~Crossed PROVE Theirs(next, slots, Dirs, givenUp)
    <2>1. ASSUME NEW c \in Held(next, Dirs), NEW i \in SlotIndex, IsFile(slots[c][i]),
                 NEW b \in ChainIn(next, slots[c][i].start)
          PROVE  (next[b] # 0 \/ b \in givenUp) /\ b \notin Held(next, Dirs)
      <3> DEFINE e == EntryAt(next, slots, c, i)
      <3>1. e \in NamedAs("file") /\ e.slot = slots[c][i]
        BY <2>1, FileAt, EntryFields
      <3>2. b \in Chain(e.slot.start)
        BY <2>1, <3>1, ChainsAre
      <3>3. (~IsFree(b) \/ b \in givenUp) /\ \A d \in Dirs : b \notin Chain(d)
        BY <1>1, <3>1, <3>2 DEF FilesApart
      <3> QED
        BY <3>3, ChainsAre, HeldIs DEF IsFree
    <2>2. ASSUME NEW c \in Held(next, Dirs), NEW i \in SlotIndex,
                 NEW b \in Held(next, Dirs), NEW j \in SlotIndex, FilesMeet(next, slots, c, i, b, j)
          PROVE  FALSE
      <3> DEFINE e == EntryAt(next, slots, c, i)
                 f == EntryAt(next, slots, b, j)
      <3>1. e \in NamedAs("file") /\ f \in NamedAs("file")
        BY <2>2, FileAt DEF FilesMeet
      <3>2. e # f
        BY <2>2, EntryFields DEF FilesMeet
      <3>3. e.slot = slots[c][i] /\ f.slot = slots[b][j]
        BY EntryFields
      <3>4. Chain(e.slot.start) \cap Chain(f.slot.start) = {}
        BY <1>1, <3>1, <3>2 DEF FilesApart
      <3> QED
        BY <2>2, <3>3, <3>4, ChainsMeet DEF FilesMeet
    <2> QED
      BY <2>1, <2>2 DEF Theirs
  <1>2. ASSUME Theirs(next, slots, Dirs, givenUp) PROVE FilesApart
    <2>1. ASSUME NEW e \in NamedAs("file")
          PROVE  /\ \A c \in Chain(e.slot.start) : ~IsFree(c) \/ c \in givenUp
                 /\ \A d \in Dirs : Chain(e.slot.start) \cap Chain(d) = {}
      <3>1. PICK c \in Held(next, Dirs), i \in SlotIndex :
                e = EntryAt(next, slots, c, i) /\ IsFile(slots[c][i])
        BY NamedAsIs DEF IsFile
      <3>2. e.slot = slots[c][i]
        BY <3>1, EntryFields
      <3>3. \A b \in ChainIn(next, e.slot.start) : (next[b] # 0 \/ b \in givenUp) /\ b \notin Held(next, Dirs)
        BY <1>2, <3>1, <3>2 DEF Theirs
      <3> QED
        BY <3>3, ChainsAre, HeldIs DEF IsFree
    <2>2. ASSUME NEW e \in NamedAs("file"), NEW f \in NamedAs("file"), f # e
          PROVE  Chain(e.slot.start) \cap Chain(f.slot.start) = {}
      <3>1. PICK c \in Held(next, Dirs), i \in SlotIndex :
                e = EntryAt(next, slots, c, i) /\ IsFile(slots[c][i])
        BY NamedAsIs DEF IsFile
      <3>2. PICK b \in Held(next, Dirs), j \in SlotIndex :
                f = EntryAt(next, slots, b, j) /\ IsFile(slots[b][j])
        BY NamedAsIs DEF IsFile
      <3>3. e.slot = slots[c][i] /\ f.slot = slots[b][j] /\ (c # b \/ i # j)
        BY <2>2, <3>1, <3>2, EntryFields
      <3>4. ~FilesMeet(next, slots, c, i, b, j)
        BY <1>2 DEF Theirs
      <3> QED
        BY <3>1, <3>2, <3>3, <3>4, ChainsMeet DEF FilesMeet
    <2> QED
      BY <2>1, <2>2 DEF FilesApart
  <1> QED
    BY <1>0, <1>1, <1>2 DEF FilesOwn, FilesApart

LEMMA NamedOnceIs ==
    ASSUME Behind(next, slots, Dirs)
    PROVE  NamedOnce <=> DirsOnce(next, slots, Dirs)
  <1>1. ASSUME NamedOnce PROVE DirsOnce(next, slots, Dirs)
    <2>1. ASSUME NEW c \in Held(next, Dirs), NEW i \in SlotIndex, IsDir(slots[c][i])
          PROVE  slots[c][i].start # Root
      <3> DEFINE e == EntryAt(next, slots, c, i)
      <3>1. e \in NamedAs("dir") /\ e.slot = slots[c][i]
        BY <2>1, FileAt, EntryFields
      <3> QED
        BY <1>1, <3>1 DEF NamedOnce
    <2>2. ASSUME NEW c \in Held(next, Dirs), NEW i \in SlotIndex,
                 NEW b \in Held(next, Dirs), NEW j \in SlotIndex, DirsMeet(slots, c, i, b, j)
          PROVE  FALSE
      <3> DEFINE e == EntryAt(next, slots, c, i)
                 f == EntryAt(next, slots, b, j)
      <3>1. e \in NamedAs("dir") /\ f \in NamedAs("dir")
        BY <2>2, FileAt DEF DirsMeet
      <3>2. e # f
        BY <2>2, EntryFields DEF DirsMeet
      <3>3. e.slot = slots[c][i] /\ f.slot = slots[b][j]
        BY EntryFields
      <3>4. e.slot.start # f.slot.start
        BY <1>1, <3>1, <3>2 DEF NamedOnce
      <3> QED
        BY <2>2, <3>3, <3>4 DEF DirsMeet
    <2> QED
      BY <2>1, <2>2 DEF DirsOnce
  <1>2. ASSUME DirsOnce(next, slots, Dirs) PROVE NamedOnce
    <2>1. ASSUME NEW e \in NamedAs("dir")
          PROVE  e.slot.start # Root
      <3>1. PICK c \in Held(next, Dirs), i \in SlotIndex :
                e = EntryAt(next, slots, c, i) /\ IsDir(slots[c][i])
        BY NamedAsIs DEF IsDir
      <3> QED
        BY <1>2, <3>1, EntryFields DEF DirsOnce
    <2>2. ASSUME NEW e \in NamedAs("dir"), NEW f \in NamedAs("dir"), f # e
          PROVE  e.slot.start # f.slot.start
      <3>1. PICK c \in Held(next, Dirs), i \in SlotIndex :
                e = EntryAt(next, slots, c, i) /\ IsDir(slots[c][i])
        BY NamedAsIs DEF IsDir
      <3>2. PICK b \in Held(next, Dirs), j \in SlotIndex :
                f = EntryAt(next, slots, b, j) /\ IsDir(slots[b][j])
        BY NamedAsIs DEF IsDir
      <3>3. e.slot = slots[c][i] /\ f.slot = slots[b][j] /\ (c # b \/ i # j)
        BY <2>2, <3>1, <3>2, EntryFields
      <3>4. ~DirsMeet(slots, c, i, b, j)
        BY <1>2 DEF DirsOnce
      <3> QED
        BY <3>1, <3>2, <3>3, <3>4 DEF DirsMeet
    <2> QED
      BY <2>1, <2>2 DEF NamedOnce
  <1> QED
    BY <1>1, <1>2

LEMMA DeletedApartIs == DeletedApart <=> DeadEnds(next, slots, Dirs)
  <1>1. ASSUME DeletedApart PROVE DeadEnds(next, slots, Dirs)
    <2> SUFFICES ASSUME NEW c \in Held(next, Dirs), NEW i \in SlotIndex, NEW g \in Dirs,
                        slots[c][i].kind = "deleted", slots[c][i].start \in ChainIn(next, g)
                 PROVE  ChainIn(next, g) = {g}
      BY DEF DeadEnds
    <2>1. PICK d \in Dirs : c \in ChainIn(next, d)
      BY HeldIs
    <2> DEFINE e == EntryAt(next, slots, c, i)
    <2>2. e \in EntriesOf(d) /\ Deleted(e) /\ e.slot.start \in Chain(g)
      BY <2>1, EntriesAre, EntryFields, ChainsAre
    <2> QED
      BY <1>1, <2>2, ChainsAre DEF DeletedApart
  <1>2. ASSUME DeadEnds(next, slots, Dirs) PROVE DeletedApart
    <2> SUFFICES ASSUME NEW d \in Dirs, NEW g \in Dirs, NEW e \in EntriesOf(d),
                        Deleted(e), e.slot.start \in Chain(g)
                 PROVE  Chain(g) = {g}
      BY DEF DeletedApart
    <2>1. PICK c \in ChainIn(next, d), i \in SlotIndex : e = EntryAt(next, slots, c, i)
      BY EntriesAre
    <2>2. c \in Held(next, Dirs) /\ slots[c][i].kind = "deleted"
          /\ slots[c][i].start \in ChainIn(next, g)
      BY <2>1, EntryFields, ChainsAre, HeldIs
    <2> QED
      BY <1>2, <2>2, ChainsAre DEF DeadEnds
  <1> QED
    BY <1>1, <1>2

LEMMA TypeIs == TypeOK <=> Typed(next, slots) /\ stray \in BOOLEAN /\ givenUp \in SUBSET Clusters
  BY DEF TypeOK, Typed, IsDir

LEMMA WellFormedIs == WellFormed <=> Kept(next, slots, Dirs, givenUp) /\ stray \in BOOLEAN
  <1>1. Loopless <=> NoLoop(next)
    BY ChainsAre DEF Loopless, NoLoop
  <1>2. ASSUME WellFormed PROVE Kept(next, slots, Dirs, givenUp) /\ stray \in BOOLEAN
    <2>1. /\ Behind(next, slots, Dirs) /\ Typed(next, slots) /\ stray \in BOOLEAN
          /\ givenUp \in SUBSET Clusters
      BY <1>2, BehindIs, TypeIs DEF WellFormed
    <2>2. /\ OneName(next, slots, Dirs) /\ NoLoop(next) /\ DirsOwn(next, Dirs)
          /\ FilesOwn(next, slots, Dirs, givenUp) /\ DirsOnce(next, slots, Dirs) /\ DeadEnds(next, slots, Dirs)
      BY <1>1, <1>2, <2>1, NamesAre, DirsApartIs, FilesApartIs, NamedOnceIs, DeletedApartIs
         DEF WellFormed
    <2> QED
      BY <2>1, <2>2, DirsBelow, DirsInTable DEF Kept, Sound
  <1>3. ASSUME Kept(next, slots, Dirs, givenUp), stray \in BOOLEAN PROVE WellFormed
    <2>1. NothingBehind /\ TypeOK /\ Behind(next, slots, Dirs)
      BY <1>3, BehindIs, TypeIs DEF Kept, Sound
    <2>2. NoDuplicates /\ Loopless /\ DirsApart /\ FilesApart /\ NamedOnce /\ DeletedApart
      BY <1>1, <1>3, <2>1, NamesAre, DirsApartIs, FilesApartIs, NamedOnceIs, DeletedApartIs
         DEF Kept, Sound
    <2> QED
      BY <2>1, <2>2 DEF WellFormed
  <1> QED
    BY <1>2, <1>3

-----------------------------------------------------------------------------
(***************************************************************************)
(* What the search finds.                                                  *)
(***************************************************************************)

(* the directory d has an entry in use of the name n *)
Has(nx, sl, d, n) ==
    \E c \in ChainIn(nx, d), i \in SlotIndex : Live(sl[c][i]) /\ sl[c][i].name = n

LEMMA HitIs ==
    \A D, n : Behind(next, slots, D) /\ OneName(next, slots, D) =>
        \A d \in D :
            /\ \A e \in Hits(d, n) :
                  \E c \in ChainIn(next, d), i \in SlotIndex :
                      /\ e = EntryAt(next, slots, c, i)
                      /\ Live(slots[c][i]) /\ slots[c][i].name = n
            /\ \A c \in ChainIn(next, d), i \in SlotIndex :
                  Live(slots[c][i]) /\ slots[c][i].name = n =>
                      EntryAt(next, slots, c, i) \in Hits(d, n)
  <1> SUFFICES ASSUME NEW D, NEW n, Behind(next, slots, D), OneName(next, slots, D), NEW d \in D
               PROVE  /\ \A e \in Hits(d, n) :
                            \E c \in ChainIn(next, d), i \in SlotIndex :
                                /\ e = EntryAt(next, slots, c, i)
                                /\ Live(slots[c][i]) /\ slots[c][i].name = n
                      /\ \A c \in ChainIn(next, d), i \in SlotIndex :
                            Live(slots[c][i]) /\ slots[c][i].name = n =>
                                EntryAt(next, slots, c, i) \in Hits(d, n)
    OBVIOUS
  <1>1. ASSUME NEW e \in Hits(d, n)
        PROVE  \E c \in ChainIn(next, d), i \in SlotIndex :
                   /\ e = EntryAt(next, slots, c, i)
                   /\ Live(slots[c][i]) /\ slots[c][i].name = n
    <2>1. e \in EntriesOf(d) /\ Matches(e, n)
      BY DEF Hits, First, Stops
    <2>2. PICK c \in ChainIn(next, d), i \in SlotIndex : e = EntryAt(next, slots, c, i)
      BY <2>1, EntriesAre
    <2> QED
      BY <2>1, <2>2, EntryFields
  <1>2. ASSUME NEW c \in ChainIn(next, d), NEW i \in SlotIndex,
               Live(slots[c][i]), slots[c][i].name = n
        PROVE  EntryAt(next, slots, c, i) \in Hits(d, n)
    <2> DEFINE e == EntryAt(next, slots, c, i)
    <2>1. e \in EntriesOf(d) /\ Matches(e, n)
      BY <1>2, EntriesAre, EntryFields
    <2>2. ASSUME NEW f \in Stops(EntriesOf(d), n)
          PROVE  ~Before(f, e)
      <3>1. f \in EntriesOf(d) /\ (Unwritten(f) \/ Matches(f, n))
        BY DEF Stops
      <3>2. PICK b \in ChainIn(next, d), j \in SlotIndex : f = EntryAt(next, slots, b, j)
        BY <3>1, EntriesAre
      <3>3. CASE Unwritten(f)
        <4>1. slots[b][j].kind = "end"
          BY <3>2, <3>3, EntryFields
        <4>2. ~Ahead(next, b, j, c, i)
          BY <1>2, <4>1 DEF Behind
        <4> QED
          BY <3>2, <4>2, EntryFields
      <3>4. CASE Matches(f, n)
        <4>1. Live(slots[b][j]) /\ slots[b][j].name = n
          BY <3>2, <3>4, EntryFields
        <4>2. ~NamesMeet(slots, b, j, c, i)
          BY DEF OneName
        <4>3. b = c /\ j = i
          BY <1>2, <4>1, <4>2 DEF NamesMeet
        <4>4. ~Ahead(next, b, j, c, i)
          BY <4>3, Constants DEF Ahead
        <4> QED
          BY <3>2, <4>4, EntryFields
      <3> QED
        BY <3>1, <3>3, <3>4
    <2> HIDE DEF e
    <2> QED
      BY <2>1, <2>2 DEF Hits, First, Stops, e
  <1> QED
    BY <1>1, <1>2

LEMMA FoundIs ==
    \A D, n : Kept(next, slots, D, givenUp) => \A d \in D : Found(d, n) <=> Has(next, slots, d, n)
  <1> SUFFICES ASSUME NEW D, NEW n, Kept(next, slots, D, givenUp), NEW d \in D
               PROVE  Found(d, n) <=> Has(next, slots, d, n)
    OBVIOUS
  <1>1. Behind(next, slots, D) /\ OneName(next, slots, D)
    BY DEF Kept, Sound
  <1>2. ASSUME Found(d, n) PROVE Has(next, slots, d, n)
    <2>1. PICK e : e \in Hits(d, n)
      BY <1>2 DEF Found
    <2> QED
      BY <1>1, <2>1, HitIs DEF Has
  <1>3. ASSUME Has(next, slots, d, n) PROVE Found(d, n)
    <2>1. PICK c \in ChainIn(next, d), i \in SlotIndex : Live(slots[c][i]) /\ slots[c][i].name = n
      BY <1>3 DEF Has
    <2>2. EntryAt(next, slots, c, i) \in Hits(d, n)
      BY <1>1, <2>1, HitIs
    <2> QED
      BY <2>2 DEF Found
  <1> QED
    BY <1>2, <1>3

LEMMA AheadOneWay ==
    ASSUME NEW nx, NoLoop(nx), NEW c \in Clusters, NEW i \in SlotIndex, NEW b, NEW j \in SlotIndex,
           Ahead(nx, c, i, b, j)
    PROVE  ~Ahead(nx, b, j, c, i)
  <1>1. i \in Nat /\ j \in Nat
    BY Constants
  <1>2. CASE c = b
    BY <1>1, <1>2 DEF Ahead
  <1>3. CASE c # b
    BY <1>3, ChainOneWay DEF Ahead
  <1> QED
    BY <1>2, <1>3

LEMMA FirstFreeIs ==
    ASSUME NEW c \in FirstFree, NEW b \in FirstFree
    PROVE  c = b /\ c \in Clusters /\ next[c] = 0
  <1>1. /\ c \in Clusters /\ b \in Clusters /\ next[c] = 0 /\ c <= b /\ b <= c
    BY DEF FirstFree, FreeClusters, IsFree
  <1> QED
    BY <1>1, Constants

(* The slot find_node_in_directory chooses is one an entry may be put in.  *)
LEMMA PlacePuts ==
    ASSUME WellFormed, NEW d \in Dirs, NEW n, ~Found(d, n), NEW p \in Places(d, n),
           NEW c \in FirstFree
    PROVE  Puts(next, slots, Dirs, d, c, p.cluster, p.index)
  <1> DEFINE es == EntriesOf(d)
             reuse == Reusable(es, n)
             stops == Stops(es, n)
  <1>0. Kept(next, slots, Dirs, givenUp) /\ NoLoop(next) /\ d \in Clusters
    BY WellFormedIs, DirsInTable DEF Kept, Sound
  <1>1. ASSUME NEW e \in es
        PROVE  \E b \in ChainIn(next, d), i \in SlotIndex :
                   b \in Clusters /\ e = EntryAt(next, slots, b, i)
    BY <1>0, EntriesAre, ChainBasics
  <1>2. CASE reuse # {}
    <2>1. PICK e \in Last(reuse) :
              /\ p.cluster = IF stops = {} /\ InLast(e) THEN EndOfChain ELSE e.cluster
              /\ p.index = e.index
      BY <1>2 DEF Places
    <2>2. e \in es /\ Deleted(e) /\ \A f \in stops : Before(e, f)
      BY <2>1 DEF Last, Reusable
    <2>3. PICK b \in ChainIn(next, d), i \in SlotIndex :
              b \in Clusters /\ e = EntryAt(next, slots, b, i)
      BY <1>1, <2>2
    <2>4. e.cluster = b /\ e.index = i /\ ~Live(slots[b][i])
      BY <2>2, <2>3, EntryFields DEF Live
    <2>5. ASSUME NEW x \in ChainIn(next, d), NEW j \in SlotIndex, slots[x][j].kind = "end"
          PROVE  ~Ahead(next, x, j, b, i)
      <3> DEFINE f == EntryAt(next, slots, x, j)
      <3>1. f \in stops
        <4>1. f \in es /\ Unwritten(f)
          BY <2>5, EntriesAre, EntryFields
        <4> QED
          BY <4>1 DEF Stops
      <3>2. Ahead(next, b, i, x, j)
        BY <2>2, <2>3, <3>1, EntryFields
      <3> QED
        BY <1>0, <2>3, <3>2, AheadOneWay
    <2>6. CASE p.cluster = EndOfChain
      BY <2>6, Constants DEF Puts
    <2>7. CASE p.cluster = e.cluster
      BY <2>1, <2>4, <2>5, <2>7 DEF Puts
    <2> QED
      BY <2>1, <2>6, <2>7
  <1>3. CASE reuse = {} /\ stops # {}
    <2>1. PICK e \in First(stops) : p.cluster = e.cluster /\ p.index = e.index
      BY <1>3 DEF Places
    <2>2. e \in es /\ (Unwritten(e) \/ Matches(e, n)) /\ \A f \in stops : ~Before(f, e)
      BY <2>1 DEF First, Stops
    <2>3. Unwritten(e)
      <3>1. e \in Hits(d, n) \/ ~Matches(e, n)
        BY <2>1 DEF Hits
      <3> QED
        BY <2>2, <3>1 DEF Found
    <2>4. PICK b \in ChainIn(next, d), i \in SlotIndex :
              b \in Clusters /\ e = EntryAt(next, slots, b, i)
      BY <1>1, <2>2
    <2>5. e.cluster = b /\ e.index = i /\ ~Live(slots[b][i])
      BY <2>3, <2>4, EntryFields DEF Live
    <2>6. ASSUME NEW x \in ChainIn(next, d), NEW j \in SlotIndex, slots[x][j].kind = "end"
          PROVE  ~Ahead(next, x, j, b, i)
      <3> DEFINE f == EntryAt(next, slots, x, j)
      <3>1. f \in stops
        <4>1. f \in es /\ Unwritten(f)
          BY <2>6, EntriesAre, EntryFields
        <4> QED
          BY <4>1 DEF Stops
      <3> QED
        BY <2>2, <2>4, <3>1, EntryFields
    <2> QED
      BY <2>1, <2>5, <2>6 DEF Puts
  <1>4. CASE reuse = {} /\ stops = {}
    <2>1. PICK b \in FirstFree : p.cluster = b
      BY <1>4 DEF Places
    <2>2. b = c
      BY FirstFreeIs
    <2> QED
      BY <2>1, <2>2 DEF Puts
  <1> QED
    BY <1>2, <1>3, <1>4

-----------------------------------------------------------------------------
(***************************************************************************)
(* The calls.                                                              *)
(***************************************************************************)
Entry(n, kind, c) == [kind |-> kind, name |-> n, start |-> c]

LEMMA CreateIs ==
    ASSUME WellFormed, NEW d \in Dirs, NEW n \in Names, NEW written \in BOOLEAN,
           Create(d, n, written),
           ~Crossed
    PROVE  \E p \in Places(d, n), c \in FirstFree, kind \in {"file", "dir"} :
               /\ Making(next, slots, Dirs, givenUp, d, n, c, p.cluster, p.index,
                         Entry(n, kind, c), written)
               /\ next' = [next EXCEPT ![c] = EndOfChain]
               /\ slots' = Put(slots, d, c, p.cluster, p.index, Entry(n, kind, c), written)
  <1>1. PICK p \in Places(d, n), c \in FirstFree, kind \in {"file", "dir"} :
            CreateAt(p, d, n, kind, written, c)
    BY DEF Create
  <1> DEFINE entry == Entry(n, kind, c)
  <1>2. entry.kind = kind /\ entry = [kind |-> entry.kind, name |-> n, start |-> c]
    BY DEF Entry
  <1>3. next' = [next EXCEPT ![c] = EndOfChain]
    BY <1>1 DEF CreateAt
  <1>4. slots' = Put(slots, d, c, p.cluster, p.index, entry, written)
    BY <1>1, <1>2 DEF CreateAt, Put, Entry
  <1>5. ~Found(d, n)
    BY DEF Create
  <1>6. Kept(next, slots, Dirs, givenUp)
    BY WellFormedIs
  <1>7. c \in Clusters /\ next[c] = 0
    BY FirstFreeIs
  <1>8. Puts(next, slots, Dirs, d, c, p.cluster, p.index)
    BY <1>5, PlacePuts
  <1>9. \A b \in ChainIn(next, d), i \in SlotIndex : Live(slots[b][i]) => slots[b][i].name # n
    BY <1>5, <1>6, FoundIs DEF Has
  <1>9a. ~Clash(next, givenUp)
    BY DEF Crossed, Clash, IsFree
  <1>10. Making(next, slots, Dirs, givenUp, d, n, c, p.cluster, p.index, entry, written)
    <2> HIDE DEF entry
    <2> QED
      BY <1>2, <1>6, <1>7, <1>8, <1>9, <1>9a DEF Making
  <1> QED
    BY <1>3, <1>4, <1>10

LEMMA RemoveIs ==
    ASSUME WellFormed, NEW d \in Dirs, NEW n \in Names, NEW written \in BOOLEAN,
           RemoveFile(d, n, written), ~Crossed
    PROVE  \E b \in ChainIn(next, d), i \in SlotIndex :
               /\ Removing(next, slots, Dirs, givenUp, b, i) /\ slots[b][i].name = n
               /\ next' = Cut(next, slots[b][i].start)
               /\ slots' = Struck(slots, b, i, written)
               /\ givenUp' = GivenUp(givenUp, slots[b][i].start, written)
  <1>0. Kept(next, slots, Dirs, givenUp)
    BY WellFormedIs
  <1>1. PICK e \in Hits(d, n) :
            /\ e.slot.kind = "file"
            /\ slots' = IF written
                        THEN [slots EXCEPT ![e.cluster][e.index] = Given(e.slot.start)]
                        ELSE slots
            /\ next' = Freed(e.slot.start)
            /\ givenUp' = Forgotten(e.slot.start, written)
    BY DEF RemoveFile, Given
  <1>2. PICK b \in ChainIn(next, d), i \in SlotIndex :
            e = EntryAt(next, slots, b, i) /\ slots[b][i].name = n
    <2>1. Behind(next, slots, Dirs) /\ OneName(next, slots, Dirs)
      BY <1>0 DEF Kept, Sound
    <2>2. \A g \in Dirs : \A h \in Hits(g, n) :
              \E c \in ChainIn(next, g), i \in SlotIndex :
                  /\ h = EntryAt(next, slots, c, i)
                  /\ Live(slots[c][i]) /\ slots[c][i].name = n
      BY <2>1, HitIs
    <2> QED
      BY <2>2
  <1>3. e.cluster = b /\ e.index = i /\ e.slot = slots[b][i]
    BY <1>2, EntryFields
  <1>4. next' = Cut(next, slots[b][i].start)
    BY <1>1, <1>3, ChainsAre DEF Freed, Cut
  <1>5. Removing(next, slots, Dirs, givenUp, b, i)
    <2>1. ~Clash(next, givenUp)
      BY DEF Crossed, Clash, IsFree
    <2> QED
      BY <1>0, <1>1, <1>2, <1>3, <2>1, HeldIs DEF Removing, IsFile
  <1>6. slots' = Struck(slots, b, i, written)
    BY <1>1, <1>3 DEF Struck
  <1>7. givenUp' = GivenUp(givenUp, slots[b][i].start, written)
    BY <1>1, <1>3 DEF Forgotten, GivenUp
  <1> QED
    BY <1>2, <1>4, <1>5, <1>6, <1>7

LEMMA MakeDirWhenFullIs ==
    ASSUME WellFormed, NEW d \in Dirs, NEW n \in Names, MakeDirWhenFull(d, n)
    PROVE  /\ next' = next /\ givenUp' = givenUp
           /\ \/ slots' = slots
              \/ \E s \in Clusters :
                    /\ slots' = [slots EXCEPT ![s] = Inside(s, d)]
                    /\ \A g \in Dirs : s \in ChainIn(next, g) => ChainIn(next, g) = {g}
  <1>0. Kept(next, slots, Dirs, givenUp)
    BY WellFormedIs
  <1>1. PICK p \in Places(d, n) :
            IF p.start \in Clusters
            THEN slots' = [slots EXCEPT ![p.start] = Inside(p.start, d)]
            ELSE slots' = slots
    BY DEF MakeDirWhenFull
  <1>2. next' = next /\ givenUp' = givenUp
    BY DEF MakeDirWhenFull
  <1>3. CASE p.start \notin Clusters
    BY <1>1, <1>2, <1>3
  <1>4. CASE p.start \in Clusters
    <2>1. PICK e \in Reusable(EntriesOf(d), n) : p.start = e.slot.start
      BY <1>4, Constants DEF Places, Last
    <2>2. e \in EntriesOf(d) /\ Deleted(e)
      BY DEF Reusable
    <2>3. PICK b \in ChainIn(next, d), i \in SlotIndex : e = EntryAt(next, slots, b, i)
      BY <2>2, EntriesAre
    <2>4. b \in Held(next, Dirs) /\ slots[b][i].kind = "deleted" /\ slots[b][i].start = p.start
      BY <2>1, <2>2, <2>3, EntryFields, HeldIs
    <2>5. DeadEnds(next, slots, Dirs)
      BY <1>0 DEF Kept, Sound
    <2>6. \A g \in Dirs : p.start \in ChainIn(next, g) => ChainIn(next, g) = {g}
      BY <2>4, <2>5 DEF DeadEnds
    <2> QED
      BY <1>1, <1>2, <1>4, <2>6
  <1> QED
    BY <1>3, <1>4

(* A call keeps the chains of the directories there are, and what is well  *)
(* formed, of them and of a new one.                                       *)
LEMMA StepKeeps ==
    ASSUME WellFormed, [Next]_vars
    PROVE  \E E : /\ Kept(next', slots', E, givenUp') /\ Dirs \subseteq E
                  /\ \A d \in Dirs : ChainIn(next', d) = ChainIn(next, d)
  <1>0. Kept(next, slots, Dirs, givenUp)
    BY WellFormedIs
  <1>1. CASE UNCHANGED vars
    BY <1>0, <1>1 DEF vars
  <1>2. ASSUME NEW d \in Dirs, NEW n \in Names, NEW written \in BOOLEAN, Create(d, n, written),
               ~Crossed
        PROVE  \E E : /\ Kept(next', slots', E, givenUp') /\ Dirs \subseteq E
                      /\ \A g \in Dirs : ChainIn(next', g) = ChainIn(next, g)
    <2>1. PICK p \in Places(d, n), c \in FirstFree, kind \in {"file", "dir"} :
              /\ Making(next, slots, Dirs, givenUp, d, n, c, p.cluster, p.index,
                        Entry(n, kind, c), written)
              /\ next' = [next EXCEPT ![c] = EndOfChain]
              /\ slots' = Put(slots, d, c, p.cluster, p.index, Entry(n, kind, c), written)
      BY <1>2, CreateIs
    <2> DEFINE E == Grown(Dirs, c, Entry(n, kind, c))
    <2>1a. givenUp' = givenUp
      BY <1>2 DEF Create, CreateAt
    <2>2. Kept(next', slots', E, givenUp')
      BY <2>1, <2>1a, MakingKeeps
    <2>3. Made(next, slots, Dirs, d, c, p.cluster, p.index, Entry(n, kind, c), written, next', slots')
      BY <2>1, MakingPlaces
    <2>4. \A g \in Dirs : ChainIn(next', g) = ChainIn(next, g)
      BY <2>3 DEF Made
    <2>5. Dirs \subseteq E
      BY DEF Grown
    <2> QED
      BY <2>2, <2>4, <2>5
  <1>3. ASSUME NEW d \in Dirs, NEW n \in Names, NEW written \in BOOLEAN,
               RemoveFile(d, n, written), ~Crossed
        PROVE  \E E : /\ Kept(next', slots', E, givenUp') /\ Dirs \subseteq E
                      /\ \A g \in Dirs : ChainIn(next', g) = ChainIn(next, g)
    <2>1. PICK b \in ChainIn(next, d), i \in SlotIndex :
              /\ Removing(next, slots, Dirs, givenUp, b, i)
              /\ next' = Cut(next, slots[b][i].start)
              /\ slots' = Struck(slots, b, i, written)
              /\ givenUp' = GivenUp(givenUp, slots[b][i].start, written)
      BY <1>3, RemoveIs
    <2>2. Kept(next', slots', Dirs, givenUp')
      BY <2>1, RemovingKeeps
    <2>3. Removed(next, slots, Dirs, b, i, written, next', slots')
      BY <2>1, RemovingPlaces
    <2>4. \A g \in Dirs : ChainIn(next', g) = ChainIn(next, g)
      BY <2>3 DEF Removed
    <2> QED
      BY <2>2, <2>4
  <1>4. ASSUME NEW d \in Dirs, NEW n \in Names, MakeDirWhenFull(d, n)
        PROVE  \E E : /\ Kept(next', slots', E, givenUp') /\ Dirs \subseteq E
                      /\ \A g \in Dirs : ChainIn(next', g) = ChainIn(next, g)
    <2>1. /\ next' = next /\ givenUp' = givenUp
          /\ \/ slots' = slots
             \/ \E s \in Clusters :
                   /\ slots' = [slots EXCEPT ![s] = Inside(s, d)]
                   /\ \A g \in Dirs : s \in ChainIn(next, g) => ChainIn(next, g) = {g}
      BY <1>4, MakeDirWhenFullIs
    <2>2. CASE slots' = slots
      BY <1>0, <2>1, <2>2
    <2>3. CASE slots' # slots
      <3>1. PICK s \in Clusters :
                /\ slots' = [slots EXCEPT ![s] = Inside(s, d)]
                /\ \A g \in Dirs : s \in ChainIn(next, g) => ChainIn(next, g) = {g}
        BY <2>1, <2>3
      <3>2. Kept(next, slots', Dirs, givenUp)
        BY <1>0, <3>1, DamageKeeps
      <3> QED
        BY <2>1, <3>2
    <2> QED
      BY <2>2, <2>3
  <1> QED
    BY <1>1, <1>2, <1>3, <1>4 DEF Next

LEMMA StrayStep == stray \in BOOLEAN /\ [Next]_vars => stray' \in BOOLEAN
  <1> SUFFICES ASSUME stray \in BOOLEAN, [Next]_vars PROVE stray' \in BOOLEAN
    OBVIOUS
  <1>1. ASSUME NEW d, NEW n, NEW written \in BOOLEAN, Create(d, n, written)
        PROVE  stray' \in BOOLEAN
    BY <1>1 DEF Create, CreateAt
  <1>2. ASSUME NEW d, NEW n, MakeDirWhenFull(d, n) PROVE stray' \in BOOLEAN
    BY <1>2 DEF MakeDirWhenFull
  <1>3. ASSUME NEW d, NEW n, NEW written \in BOOLEAN, RemoveFile(d, n, written)
        PROVE  stray' \in BOOLEAN
    BY <1>3 DEF RemoveFile
  <1>4. CASE UNCHANGED vars
    BY <1>4 DEF vars
  <1> QED
    BY <1>1, <1>2, <1>3, <1>4 DEF Next

LEMMA WellFormedStep == WellFormed /\ [Next]_vars => WellFormed'
  <1> SUFFICES ASSUME WellFormed, [Next]_vars PROVE WellFormed'
    OBVIOUS
  <1>1. PICK G : Kept(next', slots', G, givenUp')
    BY StepKeeps
  <1>2. (\A E : Kept(next, slots, E, givenUp) => Dirs \subseteq E /\ Kept(next, slots, Dirs, givenUp))'
    BY DirsKept, PTL
  <1>3. Kept(next', slots', Dirs', givenUp')
    BY <1>1, <1>2
  <1>4. (WellFormed <=> Kept(next, slots, Dirs, givenUp) /\ stray \in BOOLEAN)'
    BY WellFormedIs, PTL
  <1>5. stray' \in BOOLEAN
    BY StrayStep, WellFormedIs
  <1> QED
    BY <1>3, <1>4, <1>5

(* What fat32.c takes for granted of a volume it keeps: chains that do not *)
(* run into themselves, directories and files that have their clusters to  *)
(* themselves, each named once, nothing in use where no search comes.  A   *)
(* removal whose entry fat32.c:146 failed to write leaves a name to a      *)
(* cluster that is free; what holds of files holds until it is taken.      *)
THEOREM VolumesStayWellFormed == Spec => []WellFormed
  <1>1. Init => WellFormed
    BY DEF Init
  <1> QED
    BY <1>1, WellFormedStep, PTL DEF Spec

(* Every variable keeps its type: a link leads to a cluster or ends the    *)
(* chain, an entry leads to cluster 0 or to one of the volume, and that of *)
(* a directory with a name of its own to the latter.                       *)
THEOREM DirsTypeCorrect == Spec => []TypeOK
  <1>1. WellFormed => TypeOK
    BY DEF WellFormed
  <1> QED
    BY <1>1, VolumesStayWellFormed, PTL

(* No directory ever has two entries of one name.                          *)
THEOREM NamesAreUnique == Spec => []NoDuplicates
  <1>1. WellFormed => NoDuplicates
    BY DEF WellFormed
  <1> QED
    BY <1>1, VolumesStayWellFormed, PTL

LEMMA NamedIs ==
    ASSUME Behind(next, slots, Dirs), NEW e \in Named
    PROVE  \E c \in Held(next, Dirs), i \in SlotIndex :
               e = EntryAt(next, slots, c, i) /\ (IsFile(slots[c][i]) \/ IsDir(slots[c][i]))
  <1>1. PICK d \in Dirs : e \in Visible(d) /\ e.slot.name \in Names
    BY DEF Named
  <1>2. PICK c \in ChainIn(next, d), i \in SlotIndex :
            Live(slots[c][i]) /\ e = EntryAt(next, slots, c, i)
    BY <1>1, VisibleIs
  <1>3. c \in Held(next, Dirs)
    BY HeldIs
  <1> QED
    BY <1>1, <1>2, <1>3, EntryFields DEF Live, IsFile, IsDir

LEMMA ApartOfWellFormed == WellFormed => EntriesApart
  <1> SUFFICES ASSUME WellFormed, ~Crossed PROVE EntriesApart
    BY DEF EntriesApart
  <1>0. /\ Behind(next, slots, Dirs) /\ Theirs(next, slots, Dirs, givenUp)
        /\ DirsOnce(next, slots, Dirs)
        /\ DirsOwn(next, Dirs) /\ Below(next, slots, Dirs) /\ Root \in Dirs
        /\ Dirs \in SUBSET Clusters /\ Typed(next, slots) /\ Held(next, Dirs) \in SUBSET Clusters
    BY WellFormedIs, HeldInTable DEF Kept, Sound, FilesOwn, Clash, Crossed, IsFree
  (* an entry leads to a file's own clusters or to a directory but the root *)
  <1>1. ASSUME NEW c \in Held(next, Dirs), NEW i \in SlotIndex, IsFile(slots[c][i]) \/ IsDir(slots[c][i])
        PROVE  /\ slots[c][i].start \in Clusters \ givenUp => next[slots[c][i].start] # 0
               /\ IsFile(slots[c][i]) =>
                      \A x \in ChainIn(next, slots[c][i].start) : x \notin Held(next, Dirs)
               /\ IsDir(slots[c][i]) => slots[c][i].start \in Dirs /\ slots[c][i].start # Root
    <2>3. CASE IsFile(slots[c][i])
      <3>1. \A x \in ChainIn(next, slots[c][i].start) :
                (next[x] # 0 \/ x \in givenUp) /\ x \notin Held(next, Dirs)
        BY <1>0, <2>3 DEF Theirs
      <3>2. ~IsDir(slots[c][i])
        BY <2>3 DEF IsFile, IsDir
      <3>3. slots[c][i].start \in Clusters =>
                slots[c][i].start \in ChainIn(next, slots[c][i].start)
        BY ChainBasics
      <3> QED
        BY <3>1, <3>2, <3>3
    <2>4. CASE IsDir(slots[c][i])
      <3>1. slots[c][i].start \in Clusters
        BY <1>0, <2>4 DEF Typed
      <3>2. slots[c][i].start \in Dirs /\ slots[c][i].start # Root
        BY <1>0, <2>4, <3>1 DEF DirsOnce, Below, IsDir
      <3>3. next[slots[c][i].start] # 0
        BY <1>0, <3>1, <3>2, ChainBasics DEF DirsOwn
      <3>4. ~IsFile(slots[c][i])
        BY <2>4 DEF IsFile, IsDir
      <3> QED
        BY <3>2, <3>3, <3>4
    <2> QED
      BY <1>1, <2>3, <2>4
  <1>2. ASSUME NEW e \in Named
        PROVE  /\ e.slot.start \in Clusters \ givenUp => ~IsFree(e.slot.start)
               /\ Chain(e.slot.start) \cap Chain(Root) = {}
    <2>1. PICK c \in Held(next, Dirs), i \in SlotIndex :
              e = EntryAt(next, slots, c, i) /\ (IsFile(slots[c][i]) \/ IsDir(slots[c][i]))
      BY <1>0, NamedIs
    <2>2. e.slot = slots[c][i]
      BY <2>1, EntryFields
    <2>3. CASE IsFile(slots[c][i])
      <3>1. ASSUME NEW x \in ChainIn(next, e.slot.start), x \in ChainIn(next, Root)
            PROVE  FALSE
        <4>1. x \in ChainIn(next, slots[c][i].start)
          BY <2>2
        <4>2. x \in Held(next, Dirs)
          BY <1>0, <3>1, HeldIs
        <4> QED
          BY <1>1, <2>3, <4>1, <4>2
      <3>2. Chain(e.slot.start) \cap Chain(Root) = {}
        BY <3>1, ChainsMeet
      <3> QED
        BY <1>1, <2>2, <2>3, <3>2 DEF IsFree
    <2>4. CASE IsDir(slots[c][i])
      <3>1. ChainIn(next, e.slot.start) \cap ChainIn(next, Root) = {}
        BY <1>0, <1>1, <2>2, <2>4 DEF DirsOwn
      <3> QED
        BY <1>1, <2>2, <2>4, <3>1, ChainsAre DEF IsFree
    <2> QED
      BY <2>1, <2>3, <2>4
  <1>3. ASSUME NEW e \in Named, NEW f \in Named, f # e
        PROVE  Chain(e.slot.start) \cap Chain(f.slot.start) = {}
    <2>1. PICK c \in Held(next, Dirs), i \in SlotIndex :
              e = EntryAt(next, slots, c, i) /\ (IsFile(slots[c][i]) \/ IsDir(slots[c][i]))
      BY <1>0, NamedIs
    <2>2. PICK b \in Held(next, Dirs), j \in SlotIndex :
              f = EntryAt(next, slots, b, j) /\ (IsFile(slots[b][j]) \/ IsDir(slots[b][j]))
      BY <1>0, NamedIs
    <2>3. e.slot = slots[c][i] /\ f.slot = slots[b][j] /\ (c # b \/ i # j)
      BY <1>3, <2>1, <2>2, EntryFields
    <2>4. SUFFICES ASSUME NEW x, x \in ChainIn(next, slots[c][i].start),
                          x \in ChainIn(next, slots[b][j].start)
                   PROVE  FALSE
      BY <2>3, ChainsMeet
    <2>5. CASE IsFile(slots[c][i]) /\ IsFile(slots[b][j])
      <3>1. ~FilesMeet(next, slots, c, i, b, j)
        BY <1>0 DEF Theirs
      <3> QED
        BY <2>3, <2>4, <2>5, <3>1 DEF FilesMeet
    <2>6. CASE IsFile(slots[c][i]) /\ IsDir(slots[b][j])
      <3>1. x \in Held(next, Dirs)
        BY <1>1, <2>4, <2>6, HeldIs
      <3> QED
        BY <1>1, <2>4, <2>6, <3>1
    <2>7. CASE IsDir(slots[c][i]) /\ IsFile(slots[b][j])
      <3>1. x \in Held(next, Dirs)
        BY <1>1, <2>4, <2>7, HeldIs
      <3> QED
        BY <1>1, <2>4, <2>7, <3>1
    <2>8. CASE IsDir(slots[c][i]) /\ IsDir(slots[b][j])
      <3>1. ~DirsMeet(slots, c, i, b, j)
        BY <1>0 DEF DirsOnce
      <3>2. slots[c][i].start # slots[b][j].start
        BY <2>3, <2>8, <3>1 DEF DirsMeet
      <3>3. slots[c][i].start \in Dirs /\ slots[b][j].start \in Dirs
        BY <1>1, <2>8
      <3> QED
        BY <1>0, <2>4, <3>2, <3>3 DEF DirsOwn
    <2> QED
      BY <2>1, <2>2, <2>5, <2>6, <2>7, <2>8
  <1> QED
    BY <1>2, <1>3 DEF EntriesApart

(* Whatever order initialize_node and delete_fat_chain are called in, each *)
(* entry leads to clusters that no other entry leads to, and they are      *)
(* allocated unless the entry is one that fat32_remove_file failed to mark *)
(* as deleted; until a call takes the cluster of such an entry.            *)
THEOREM EntriesStayApart == Spec => []EntriesApart
  BY VolumesStayWellFormed, ApartOfWellFormed, PTL

LEMMA PlacedStep ==
    ASSUME WellFormed, [Next]_vars, NEW dir \in Dirs, NEW c \in Chain(dir), NEW i \in SlotIndex,
           NEW name, slots'[c][i].kind \in {"file", "dir"}, slots'[c][i].name = name
    PROVE  Found(dir, name)'
  <1>1. PICK G : /\ Kept(next', slots', G, givenUp') /\ Dirs \subseteq G
                 /\ \A g \in Dirs : ChainIn(next', g) = ChainIn(next, g)
    BY StepKeeps
  <1>2. (\A D, n : Kept(next, slots, D, givenUp) => \A d \in D : Found(d, n) <=> Has(next, slots, d, n))'
    BY FoundIs, PTL
  <1>3. c \in ChainIn(next', dir)
    BY <1>1, ChainsAre
  <1>4. Has(next', slots', dir, name)
    BY <1>3 DEF Has, Live
  <1>5. \A D, n : Kept(next', slots', D, givenUp') => \A d \in D : Found(d, n)' <=> Has(next', slots', d, n)
    BY <1>2
  <1> QED
    BY <1>1, <1>4, <1>5

(* What a call writes into a slot, whether it was unwritten, deleted or in *)
(* a new cluster, is found afterwards under its name.                      *)
THEOREM PlacedEntriesAreFound == Spec => PlacedIsFound
  <1>1. WellFormed /\ [Next]_vars =>
            [\A d \in Dirs : \A c \in Chain(d), i \in SlotIndex, n \in Names \cup {Dot, DotDot} :
                /\ slots'[c][i] # slots[c][i]
                /\ slots'[c][i].kind \in {"file", "dir"}
                /\ slots'[c][i].name = n
                => Found(d, n)']_vars
    BY PlacedStep
  <1> QED
    BY <1>1, VolumesStayWellFormed, PTL DEF Spec, PlacedIsFound

-----------------------------------------------------------------------------
(***************************************************************************)
(* Listing a directory.                                                    *)
(***************************************************************************)
LEMMA DigitsDiffer ==
    ASSUME NEW b \in Nat, NEW k \in Nat, NEW l \in Nat, k < l,
           NEW i \in Nat, NEW j \in Nat, i < b
    PROVE  k * b + i # l * b + j
  <1>1. PICK r \in Nat : l = k + 1 + r
    <2>1. l - k - 1 \in Nat /\ l = k + 1 + (l - k - 1)
      OBVIOUS
    <2> QED
      BY <2>1
  <1>2. l * b = k * b + b + r * b
    BY <1>1
  <1>3. k * b \in Nat /\ r * b \in Nat /\ l * b \in Nat
    OBVIOUS
  <1>4. PICK x \in Nat, y \in Nat : x = k * b /\ y = r * b
    BY <1>3
  <1> QED
    BY <1>2, <1>4

LEMMA Digits ==
    ASSUME NEW b \in Nat, NEW k \in Nat, NEW l \in Nat, NEW i \in Nat, NEW j \in Nat,
           i < b, j < b, k * b + i = l * b + j
    PROVE  k = l /\ i = j
  <1>1. k = l
    BY DigitsDiffer
  <1>2. PICK x \in Int : x = k * b
    OBVIOUS
  <1> QED
    BY <1>1, <1>2

(* what is seen has fewer elements than a buffer of More entries has room for *)
LEMMA SeenFits ==
    ASSUME NEW d, NEW T \in SUBSET ({1, 2} \X EntriesOf(d))
    PROVE  IsFiniteSet(T) /\ Cardinality(T) < More
  <1> DEFINE row(s) == (s[1] - 1) * LastCluster + s[2].cluster - 1
             code(s) == row(s) * EntriesPerCluster + s[2].index
             f == [s \in T |-> code(s)]
  <1>0. /\ EntriesPerCluster \in Nat /\ EntriesPerCluster >= 2
        /\ LastCluster \in Nat /\ LastCluster >= 2
    BY DirAssumption DEF Root
  <1>1. ASSUME NEW s \in T
        PROVE  \E c \in Clusters, i \in SlotIndex :
                   s[1] \in {1, 2} /\ s[2] = EntryAt(next, slots, c, i)
    <2>1. s[1] \in {1, 2} /\ s[2] \in EntriesOf(d)
      OBVIOUS
    <2> QED
      BY <2>1, EntriesAre, ChainInIs
  <1>2. ASSUME NEW s \in T
        PROVE  /\ s[1] \in {1, 2} /\ s[2].cluster \in Nat /\ s[2].cluster >= 2
               /\ s[2].cluster <= LastCluster /\ s[2].index \in Nat
               /\ s[2].index < EntriesPerCluster
               /\ row(s) = IF s[1] = 1 THEN s[2].cluster - 1 ELSE LastCluster + s[2].cluster - 1
    <2>1. PICK c \in Clusters, i \in SlotIndex :
              s[1] \in {1, 2} /\ s[2] = EntryAt(next, slots, c, i)
      BY <1>1
    <2>2. s[2].cluster = c /\ s[2].index = i
      BY <2>1, EntryFields
    <2>3. c \in Nat /\ c >= 2 /\ c <= LastCluster /\ i \in Nat /\ i < EntriesPerCluster
      BY <1>0 DEF Clusters, SlotIndex, Root
    <2> QED
      BY <1>0, <2>1, <2>2, <2>3
  <1>3. ASSUME NEW s \in T
        PROVE  row(s) \in Nat /\ row(s) >= 1 /\ row(s) <= 2 * LastCluster - 1
    BY <1>0, <1>2
  <1> HIDE DEF row
  <1>4. ASSUME NEW s \in T
        PROVE  code(s) \in 1 .. (More - 1)
    <2>1. PICK k \in Nat, r \in Nat, i \in Nat :
              /\ k = row(s) /\ k + r = 2 * LastCluster - 1 /\ k >= 1 /\ i = s[2].index
              /\ i < EntriesPerCluster
      <3>1. 2 * LastCluster - 1 - row(s) \in Nat
        BY <1>0, <1>3
      <3> QED
        BY <1>0, <1>2, <1>3, <3>1
    <2>2. (k + r) * EntriesPerCluster = k * EntriesPerCluster + r * EntriesPerCluster
      BY <1>0
    <2>3. (2 * LastCluster - 1) * EntriesPerCluster = More - EntriesPerCluster
      BY <1>0 DEF More
    <2>4. /\ k * EntriesPerCluster \in Nat /\ r * EntriesPerCluster \in Nat /\ More \in Nat
          /\ k * EntriesPerCluster >= EntriesPerCluster
      <3>1. k * EntriesPerCluster \in Nat /\ r * EntriesPerCluster \in Nat /\ More \in Nat
        BY <1>0 DEF More
      <3>2. PICK q \in Nat : k = q + 1
        <4>1. k - 1 \in Nat /\ k = (k - 1) + 1
          BY <2>1
        <4> QED
          BY <4>1
      <3>3. k * EntriesPerCluster = q * EntriesPerCluster + EntriesPerCluster
            /\ q * EntriesPerCluster \in Nat
        BY <1>0, <3>2
      <3>4. PICK x \in Nat : x = q * EntriesPerCluster
        BY <3>3
      <3> QED
        BY <1>0, <3>1, <3>3, <3>4
    <2>5. PICK x \in Nat, y \in Nat :
              /\ x = k * EntriesPerCluster /\ y = r * EntriesPerCluster
              /\ x >= EntriesPerCluster /\ x + y = More - EntriesPerCluster /\ More \in Nat
      BY <2>1, <2>2, <2>3, <2>4
    <2>6. x + i \in 1 .. (More - 1)
      BY <1>0, <2>1, <2>5
    <2> QED
      BY <2>1, <2>5, <2>6
  <1>5. ASSUME NEW s \in T, NEW t \in T, code(s) = code(t)
        PROVE  s = t
    <2>1. row(s) = row(t) /\ s[2].index = t[2].index
      BY <1>0, <1>2, <1>3, <1>5, Digits
    <2>2. s[1] = t[1] /\ s[2].cluster = t[2].cluster
      BY <1>0, <1>2, <2>1
    <2>3. PICK c \in Clusters, i \in SlotIndex : s[2] = EntryAt(next, slots, c, i)
      BY <1>1
    <2>4. PICK b \in Clusters, j \in SlotIndex : t[2] = EntryAt(next, slots, b, j)
      BY <1>1
    <2>5. s[2] = t[2]
      BY <2>1, <2>2, <2>3, <2>4, EntryFields
    <2>6. s = <<s[1], s[2]>> /\ t = <<t[1], t[2]>>
      OBVIOUS
    <2> QED
      BY <2>2, <2>5, <2>6
  <1>6. f \in Injection(T, 1 .. (More - 1))
    <2>1. f \in [T -> 1 .. (More - 1)]
      BY <1>4
    <2>2. \A s, t \in T : f[s] = f[t] => s = t
      BY <1>5
    <2> QED
      BY <2>1, <2>2 DEF Injection, IsInjective
  <1>7. /\ IsFiniteSet(1 .. (More - 1)) /\ More \in Nat /\ More >= 1
        /\ Cardinality(1 .. (More - 1)) = More - 1
    <2>1. LastCluster * EntriesPerCluster \in Nat /\ LastCluster * EntriesPerCluster >= 1
      BY <1>0
    <2>2. More = 2 * (LastCluster * EntriesPerCluster)
      BY <1>0 DEF More
    <2>3. PICK x \in Nat : x = LastCluster * EntriesPerCluster
      BY <2>1
    <2>4. More \in Nat /\ More >= 2 /\ 1 \in Int /\ More - 1 \in Int
      BY <2>1, <2>2, <2>3
    <2> QED
      BY <2>4, FS_Interval
  <1>8. IsFiniteSet(T) /\ Cardinality(T) <= More - 1
    <2> HIDE DEF f
    <2> QED
      BY <1>6, <1>7, FS_Injection
  <1> QED
    BY <1>7, <1>8, FS_CardinalityType

LEMMA ListingIs ==
    ASSUME WellFormed, NEW d \in Dirs
    PROVE  LET l == Listing(d, More)
           IN  /\ {s[2].slot.name : s \in l.entries} = {n \in Names \cup {Dot, DotDot} : Found(d, n)}
               /\ l.result = 0 =>
                      \A s, t \in l.entries : s[2].slot.name = t[2].slot.name => s = t
  <1> DEFINE es == EntriesOf(d)
             ends == {e \in es : Unwritten(e)}
             seen == IF ends # {} THEN {1} \X {e \in es : \A f \in ends : Before(e, f)}
                     ELSE ({1} \X es) \cup ({2} \X {e \in es : InLast(e)})
             put == {s \in seen : Listed(s[2])}
             ahead(s) == {t \in put : t[1] < s[1] \/ (t[1] = s[1] /\ Before(t[2], s[2]))}
             kept == {s \in put : Cardinality(ahead(s)) < More}
             result == IF ends # {} /\ Cardinality(put) < More THEN 0 ELSE Cardinality(kept)
  <1>0. /\ Kept(next, slots, Dirs, givenUp) /\ NoLoop(next) /\ Behind(next, slots, Dirs)
        /\ OneName(next, slots, Dirs) /\ Typed(next, slots) /\ d \in Clusters
    BY WellFormedIs, DirsInTable DEF Kept, Sound
  <1>1. Listing(d, More) = [entries |-> kept, result |-> result]
    BY DEF Listing
  <1>2. put \in SUBSET ({1, 2} \X es)
    OBVIOUS
  <1>3. \A s \in put : Cardinality(ahead(s)) < More
    <2> SUFFICES ASSUME NEW s \in put PROVE Cardinality(ahead(s)) < More
      OBVIOUS
    <2>1. ahead(s) \in SUBSET ({1, 2} \X EntriesOf(d))
      BY <1>2
    <2> QED
      BY <2>1, SeenFits
  <1>4. kept = put
    BY <1>3
  <1>5. IsFiniteSet(put) /\ Cardinality(put) < More
    BY <1>2, SeenFits
  (* every entry in use is seen *)
  <1>6. ASSUME NEW c \in ChainIn(next, d), NEW i \in SlotIndex, Live(slots[c][i])
        PROVE  <<1, EntryAt(next, slots, c, i)>> \in put
    <2> DEFINE e == EntryAt(next, slots, c, i)
    <2>1. e \in es /\ InUse(e) /\ c \in Clusters
      BY <1>0, <1>6, EntriesAre, EntryFields, ChainBasics
    <2>2. ASSUME NEW f \in ends PROVE Before(e, f)
      <3>1. PICK b \in ChainIn(next, d), j \in SlotIndex : f = EntryAt(next, slots, b, j)
        BY EntriesAre
      <3>2. slots[b][j].kind = "end" /\ b \in Clusters
        BY <1>0, <3>1, EntryFields, ChainBasics
      <3>3. ~Ahead(next, b, j, c, i)
        BY <1>0, <1>6, <3>2 DEF Behind
      <3>4. Ahead(next, c, i, b, j)
        <4>1. c # b \/ i # j
          BY <1>6, <3>2 DEF Live
        <4>2. i \in Nat /\ j \in Nat
          BY Constants
        <4>3. CASE c = b
          BY <3>3, <4>1, <4>2, <4>3 DEF Ahead
        <4>4. CASE c # b
          BY <1>0, <3>3, <4>4, ChainTotal DEF Ahead
        <4> QED
          BY <4>3, <4>4
      <3> QED
        BY <3>1, <3>4, EntryFields
    <2> HIDE DEF e, es
    <2>3. <<1, e>> \in seen
      BY <2>1, <2>2
    <2> QED
      BY <2>1, <2>3 DEF Listed, e
  (* and what is put in the buffer is in use *)
  <1>7. ASSUME NEW s \in put
        PROVE  \E c \in ChainIn(next, d), i \in SlotIndex :
                   Live(slots[c][i]) /\ s[2] = EntryAt(next, slots, c, i)
    <2>1. s[2] \in es /\ InUse(s[2])
      BY <1>2 DEF Listed
    <2>2. PICK c \in ChainIn(next, d), i \in SlotIndex : s[2] = EntryAt(next, slots, c, i)
      BY <2>1, EntriesAre
    <2> QED
      BY <2>1, <2>2, EntryFields
  <1>8. {s[2].slot.name : s \in put} = {n \in Names \cup {Dot, DotDot} : Found(d, n)}
    <2>1. ASSUME NEW s \in put
          PROVE  s[2].slot.name \in Names \cup {Dot, DotDot} /\ Found(d, s[2].slot.name)
      <3>1. PICK c \in ChainIn(next, d), i \in SlotIndex :
                Live(slots[c][i]) /\ s[2] = EntryAt(next, slots, c, i)
        BY <1>7
      <3>2. s[2].slot = slots[c][i] /\ c \in Clusters
        BY <1>0, <3>1, EntryFields, ChainBasics
      <3>3. slots[c][i].name \in Names \cup {Dot, DotDot}
        BY <1>0, <3>2 DEF Typed, Slot
      <3>4. Has(next, slots, d, slots[c][i].name)
        BY <3>1 DEF Has
      <3> QED
        BY <1>0, <3>2, <3>3, <3>4, FoundIs
    <2>2. ASSUME NEW n \in Names \cup {Dot, DotDot}, Found(d, n)
          PROVE  \E s \in put : n = s[2].slot.name
      <3>1. PICK c \in ChainIn(next, d), i \in SlotIndex : Live(slots[c][i]) /\ slots[c][i].name = n
        BY <1>0, <2>2, FoundIs DEF Has
      <3>2. <<1, EntryAt(next, slots, c, i)>> \in put
        BY <1>6, <3>1
      <3>3. EntryAt(next, slots, c, i).slot.name = n
        BY <3>1, EntryFields
      <3> QED
        BY <3>2, <3>3
    <2> HIDE DEF put
    <2> QED
      BY <2>1, <2>2
  <1>9. ASSUME result = 0, NEW s \in put, NEW t \in put, s[2].slot.name = t[2].slot.name
        PROVE  s = t
    <2>1. CASE ends = {}
      <3>1. Cardinality(put) = 0
        BY <1>4, <1>9, <2>1
      <3>2. put = {}
        BY <1>5, <3>1, FS_EmptySet
      <3> QED
        BY <3>2
    <2>2. CASE ends # {}
      <3>1. s[1] = 1 /\ t[1] = 1 /\ s = <<s[1], s[2]>> /\ t = <<t[1], t[2]>>
        BY <2>2
      <3>2. PICK c \in ChainIn(next, d), i \in SlotIndex :
                Live(slots[c][i]) /\ s[2] = EntryAt(next, slots, c, i)
        BY <1>7
      <3>3. PICK b \in ChainIn(next, d), j \in SlotIndex :
                Live(slots[b][j]) /\ t[2] = EntryAt(next, slots, b, j)
        BY <1>7
      <3>4. slots[c][i].name = slots[b][j].name
        BY <1>9, <3>2, <3>3, EntryFields
      <3>5. ~NamesMeet(slots, c, i, b, j)
        BY <1>0 DEF OneName
      <3>6. c = b /\ i = j
        BY <3>2, <3>3, <3>4, <3>5 DEF NamesMeet
      <3> QED
        BY <3>1, <3>2, <3>3, <3>6
    <2> QED
      BY <2>1, <2>2
  <1> HIDE DEF kept, result, put
  <1> QED
    BY <1>1, <1>4, <1>8, <1>9

LEMMA ListsOfWellFormed == WellFormed => ListsWhatIsFound
  BY ListingIs DEF ListsWhatIsFound

(* fat32_list_dir shows the names the search finds, and each once when it  *)
(* says that it has come to the end.                                       *)
THEOREM ListingShowsWhatIsFound == Spec => []ListsWhatIsFound
  BY VolumesStayWellFormed, ListsOfWellFormed, PTL

-----------------------------------------------------------------------------
(***************************************************************************)
(* The refinement: what the directories are to those who name files.       *)
(***************************************************************************)
FoundIn(nx, sl, D) == {x \in D \X Names : Has(nx, sl, x[1], x[2])}

TreeNow ==
    LET dirs == Dirs
    IN  [dirs  |-> dirs,
         found |-> UNION {{<<d, e.slot.name>> : e \in {e \in Visible(d) :
                                                       e.slot.name \in Names}} : d \in dirs}]

LEMMA TreeIs == WellFormed => TreeNow = [dirs |-> Dirs, found |-> FoundIn(next, slots, Dirs)]
  <1> SUFFICES ASSUME WellFormed
               PROVE  TreeNow = [dirs |-> Dirs, found |-> FoundIn(next, slots, Dirs)]
    OBVIOUS
  <1> DEFINE found == UNION {{<<d, e.slot.name>> : e \in {e \in Visible(d) : e.slot.name \in Names}} :
                                d \in Dirs}
  <1>0. Behind(next, slots, Dirs)
    BY WellFormedIs DEF Kept, Sound
  <1>1. ASSUME NEW x \in found PROVE x \in FoundIn(next, slots, Dirs)
    <2>0. PICK d \in Dirs : \E e \in Visible(d) : e.slot.name \in Names /\ x = <<d, e.slot.name>>
      OBVIOUS
    <2>1. PICK e \in Visible(d) : e.slot.name \in Names /\ x = <<d, e.slot.name>>
      BY <2>0
    <2>2. PICK c \in ChainIn(next, d), i \in SlotIndex :
              Live(slots[c][i]) /\ e = EntryAt(next, slots, c, i)
      BY <1>0, VisibleIs
    <2>3. Has(next, slots, d, e.slot.name)
      BY <2>2, EntryFields DEF Has
    <2> QED
      BY <2>1, <2>3 DEF FoundIn
  <1>2. ASSUME NEW x \in FoundIn(next, slots, Dirs) PROVE x \in found
    <2>1. PICK d \in Dirs, n \in Names : x = <<d, n>> /\ Has(next, slots, d, n)
      BY DEF FoundIn
    <2>2. PICK c \in ChainIn(next, d), i \in SlotIndex : Live(slots[c][i]) /\ slots[c][i].name = n
      BY <2>1 DEF Has
    <2>3. EntryAt(next, slots, c, i) \in Visible(d) /\ EntryAt(next, slots, c, i).slot.name = n
      BY <1>0, <2>2, VisibleIs, EntryFields
    <2> QED
      BY <2>1, <2>3
  <1>3. TreeNow = [dirs |-> Dirs, found |-> found]
    BY DEF TreeNow
  <1> HIDE DEF found
  <1> QED
    BY <1>1, <1>2, <1>3

(* Directories do not go away while their entries stay.                    *)
LEMMA DirsStay ==
    ASSUME WellFormed, WellFormed',
           \A d \in Dirs : ChainIn(next', d) = ChainIn(next, d),
           \A c \in Held(next, Dirs), i \in SlotIndex :
               slots[c][i].kind = "dir" => /\ slots'[c][i].kind = "dir"
                                           /\ slots'[c][i].start = slots[c][i].start
    PROVE  Dirs \subseteq Dirs'
  <1>1. Kept(next, slots, Dirs, givenUp)
    BY WellFormedIs
  <1>2. (WellFormed <=> Kept(next, slots, Dirs, givenUp) /\ stray \in BOOLEAN)'
    BY WellFormedIs, PTL
  <1>3. Kept(next', slots', Dirs', givenUp')
    BY <1>2
  <1>4. PICK S : S = Dirs \cap Dirs'
    OBVIOUS
  <1>5. S \in SUBSET Clusters /\ Root \in S
    BY <1>1, <1>3, <1>4 DEF Kept, Sound
  <1>6. ASSUME NEW d \in S, NEW e \in Visible(d), e.slot.kind = "dir",
               e.slot.start \in Clusters
        PROVE  e.slot.start \in S
    <2>1. PICK c \in ChainIn(next, d), i \in SlotIndex : e = EntryAt(next, slots, c, i)
      BY EntriesAre DEF Visible
    <2>2. c \in Held(next, Dirs) /\ slots[c][i].kind = "dir" /\ e.slot.start = slots[c][i].start
      BY <1>4, <1>6, <2>1, HeldIs, EntryFields
    <2>3. e.slot.start \in Dirs
      BY <1>1, <1>6, <2>2 DEF Kept, Below
    <2>4. c \in Held(next', Dirs')
      BY <1>4, <2>1, HeldIs
    <2>5. e.slot.start \in Dirs'
      BY <1>3, <1>6, <2>2, <2>4 DEF Kept, Below
    <2> QED
      BY <1>4, <2>3, <2>5
  <1>7. Dirs \subseteq S
    BY <1>5, <1>6, DirsLeast
  <1> QED
    BY <1>4, <1>7

LEMMA DirsWithinNext ==
    ASSUME NEW G \in SUBSET Clusters, Root \in G, Below(next', slots', G)
    PROVE  Dirs' \subseteq G
  <1>1. (\A E \in SUBSET Clusters : Root \in E /\ Below(next, slots, E) => Dirs \subseteq E)'
    BY DirsWithin, PTL
  <1> QED
    BY <1>1

LEMMA HasOfSame ==
    ASSUME NEW nx, NEW ny, NEW sl, NEW tl, NEW D, NEW d \in D, ChainIn(ny, d) = ChainIn(nx, d),
           \A b \in Held(nx, D), i \in SlotIndex : tl[b][i] = sl[b][i], NEW n
    PROVE  Has(ny, tl, d, n) <=> Has(nx, sl, d, n)
  <1>1. \A b \in ChainIn(nx, d), i \in SlotIndex : tl[b][i] = sl[b][i]
    BY HeldIs
  <1> QED
    BY <1>1 DEF Has

LEMMA SameTree ==
    ASSUME WellFormed, WellFormed',
           \A d \in Dirs : ChainIn(next', d) = ChainIn(next, d),
           Held(next', Dirs) = Held(next, Dirs),
           \A b \in Held(next, Dirs), i \in SlotIndex : slots'[b][i] = slots[b][i]
    PROVE  Dirs' = Dirs /\ FoundIn(next', slots', Dirs') = FoundIn(next, slots, Dirs)
  <1>1. Dirs \subseteq Dirs'
    BY DirsStay
  <1>2. Below(next, slots, Dirs)
    BY WellFormedIs DEF Kept
  <1>3. Below(next', slots', Dirs)
    BY <1>2 DEF Below
  <1>4. Dirs' \subseteq Dirs
    BY <1>3, DirsInTable, DirsWithinNext
  <1>5. Dirs' = Dirs
    BY <1>1, <1>4
  <1>6. \A d \in Dirs, n \in Names : Has(next', slots', d, n) <=> Has(next, slots, d, n)
    BY HasOfSame
  <1> QED
    BY <1>5, <1>6 DEF FoundIn

LEMMA CreateTree ==
    ASSUME WellFormed, WellFormed', NEW d \in Dirs, NEW n \in Names, NEW written \in BOOLEAN,
           Create(d, n, written), ~Crossed
    PROVE  \/ Dirs' = Dirs /\ FoundIn(next', slots', Dirs') = FoundIn(next, slots, Dirs)
           \/ /\ <<d, n>> \notin FoundIn(next, slots, Dirs)
              /\ FoundIn(next', slots', Dirs') = FoundIn(next, slots, Dirs) \cup {<<d, n>>}
              /\ \/ Dirs' = Dirs
                 \/ \E c \in Clusters \ Dirs : Dirs' = Dirs \cup {c}
  <1>0. /\ Kept(next, slots, Dirs, givenUp) /\ DirsOwn(next, Dirs) /\ Dirs \in SUBSET Clusters
        /\ Root \in Dirs
    BY WellFormedIs DEF Kept, Sound
  <1>1. (WellFormed <=> Kept(next, slots, Dirs, givenUp) /\ stray \in BOOLEAN)'
    BY WellFormedIs, PTL
  <1>2. Kept(next', slots', Dirs', givenUp')
    BY <1>1
  <1>3. PICK p \in Places(d, n), c \in FirstFree, kind \in {"file", "dir"} :
            /\ Making(next, slots, Dirs, givenUp, d, n, c, p.cluster, p.index,
                      Entry(n, kind, c), written)
            /\ next' = [next EXCEPT ![c] = EndOfChain]
            /\ slots' = Put(slots, d, c, p.cluster, p.index, Entry(n, kind, c), written)
    BY CreateIs
  <1>4. PICK entry : entry = Entry(n, kind, c) /\ entry.kind = kind /\ entry.name = n /\ entry.start = c
    <2>1. LET entry == Entry(n, kind, c)
          IN  entry.kind = kind /\ entry.name = n /\ entry.start = c
      BY DEF Entry
    <2> QED
      BY <2>1
  <1>5. c \in Clusters /\ next[c] = 0
    BY FirstFreeIs
  <1>5a. givenUp' = givenUp
    BY DEF Create, CreateAt
  <1>6. Kept(next', slots', Grown(Dirs, c, entry), givenUp')
    <2>1. Kept(next', slots', Grown(Dirs, c, Entry(n, kind, c)), givenUp')
      BY <1>3, <1>5a, MakingKeeps
    <2> QED
      BY <1>4, <2>1
  <1>7. Made(next, slots, Dirs, d, c, p.cluster, p.index, entry, written, next', slots')
    <2>1. Made(next, slots, Dirs, d, c, p.cluster, p.index, Entry(n, kind, c), written, next', slots')
      BY <1>3, MakingPlaces
    <2> QED
      BY <1>4, <2>1
  <1>8. /\ \A g \in Dirs : ChainIn(next', g) = ChainIn(next, g)
        /\ Held(next', Dirs) = Held(next, Dirs) /\ c \notin Held(next, Dirs)
        /\ ChainIn(next', c) = {c} /\ (kind = "dir" => slots'[c] = Inside(c, d))
    BY <1>4, <1>7 DEF Made
  <1>9. ASSUME NEW x \in Held(next, Dirs), NEW y \in SlotIndex, slots'[x][y] # slots[x][y]
        PROVE  /\ x = p.cluster /\ y = p.index /\ x \in ChainIn(next, d)
               /\ slots'[x][y] = entry /\ ~Live(slots[x][y])
    BY <1>7, <1>9 DEF Made
  <1>10. CASE \A x \in Held(next, Dirs), y \in SlotIndex : slots'[x][y] = slots[x][y]
    BY <1>8, <1>10, SameTree
  <1>11. CASE ~\A x \in Held(next, Dirs), y \in SlotIndex : slots'[x][y] = slots[x][y]
    <2>1. PICK b \in Held(next, Dirs), i \in SlotIndex : slots'[b][i] # slots[b][i]
      BY <1>11
    <2>2. b \in ChainIn(next, d) /\ slots'[b][i] = entry /\ ~Live(slots[b][i]) /\ Live(entry)
      BY <1>4, <1>9, <2>1 DEF Live
    <2>3. ASSUME NEW x \in Held(next, Dirs), NEW y \in SlotIndex, x # b \/ y # i
          PROVE  slots'[x][y] = slots[x][y]
      BY <1>9, <2>1, <2>3
    <2>4. ASSUME NEW g \in Dirs, NEW m \in Names
          PROVE  Has(next', slots', g, m) <=> Has(next, slots, g, m) \/ (g = d /\ m = n)
      <3>1. ASSUME Has(next', slots', g, m)
            PROVE  Has(next, slots, g, m) \/ (g = d /\ m = n)
        <4>1. PICK x \in ChainIn(next, g), y \in SlotIndex :
                  Live(slots'[x][y]) /\ slots'[x][y].name = m
          BY <1>8, <3>1 DEF Has
        <4>2. x \in Held(next, Dirs)
          BY HeldIs
        <4>3. CASE x = b /\ y = i
          <5>1. g = d
            BY <1>0, <2>2, <4>3 DEF DirsOwn
          <5> QED
            BY <1>4, <2>2, <4>1, <4>3, <5>1
        <4>4. CASE x # b \/ y # i
          BY <2>3, <4>1, <4>2, <4>4 DEF Has
        <4> QED
          BY <4>3, <4>4
      <3>2. ASSUME Has(next, slots, g, m) PROVE Has(next', slots', g, m)
        <4>1. PICK x \in ChainIn(next, g), y \in SlotIndex :
                  Live(slots[x][y]) /\ slots[x][y].name = m
          BY <3>2 DEF Has
        <4>2. x \in Held(next, Dirs) /\ (x # b \/ y # i)
          BY <2>2, <4>1, HeldIs
        <4>3. slots'[x][y] = slots[x][y]
          BY <2>3, <4>2
        <4> QED
          BY <1>8, <4>1, <4>3 DEF Has
      <3>3. ASSUME g = d, m = n PROVE Has(next', slots', g, m)
        BY <1>4, <1>8, <2>2, <3>3 DEF Has
      <3> QED
        BY <3>1, <3>2, <3>3
    <2>5. Dirs \subseteq Dirs'
      <3>1. ASSUME NEW x \in Held(next, Dirs), NEW y \in SlotIndex, slots[x][y].kind = "dir"
            PROVE  slots'[x][y] = slots[x][y]
        BY <2>2, <2>3, <3>1 DEF Live
      <3> QED
        BY <1>8, <3>1, DirsStay
    <2>6. Dirs' \subseteq Grown(Dirs, c, entry)
      BY <1>6, DirsWithinNext DEF Kept, Sound
    <2>7. <<d, n>> \notin FoundIn(next, slots, Dirs)
      <3>1. ~Has(next, slots, d, n)
        BY <1>0, FoundIs DEF Create
      <3> QED
        BY <3>1 DEF FoundIn
    <2>8. CASE kind = "file"
      <3>1. Dirs' = Dirs
        BY <1>4, <2>5, <2>6, <2>8 DEF Grown
      <3>2. FoundIn(next', slots', Dirs) = FoundIn(next, slots, Dirs) \cup {<<d, n>>}
        BY <2>4 DEF FoundIn
      <3> QED
        BY <2>7, <3>1, <3>2
    <2>9. CASE kind = "dir"
      <3>1. b \in Held(next', Dirs')
        BY <1>8, <2>2, <2>5, HeldIs
      <3>2. c \in Dirs'
        BY <1>2, <1>4, <1>5, <2>2, <2>9, <3>1 DEF Kept, Below
      <3>3. Dirs' = Dirs \cup {c}
        BY <1>4, <2>5, <2>6, <3>2 DEF Grown
      <3>4. c \notin Dirs
        BY <1>0, <1>8, HeldInTable
      <3>5. ASSUME NEW m \in Names PROVE ~Has(next', slots', c, m)
        <4>1. ASSUME NEW y \in SlotIndex, Live(slots'[c][y]) PROVE slots'[c][y].name # m
          BY <1>0, <1>5, <1>8, <2>9, <4>1, InsideSound
        <4> QED
          BY <1>8, <4>1 DEF Has
      <3>6. FoundIn(next', slots', Dirs \cup {c}) = FoundIn(next, slots, Dirs) \cup {<<d, n>>}
        <4>1. ASSUME NEW g \in Dirs \cup {c}, NEW m \in Names
              PROVE  Has(next', slots', g, m) <=>
                         g \in Dirs /\ (Has(next, slots, g, m) \/ (g = d /\ m = n))
          BY <2>4, <3>4, <3>5
        <4> QED
          BY <4>1 DEF FoundIn
      <3> QED
        BY <1>5, <2>7, <3>3, <3>4, <3>6
    <2> QED
      BY <2>8, <2>9
  <1> QED
    BY <1>10, <1>11

LEMMA RemoveTree ==
    ASSUME WellFormed, WellFormed', NEW d \in Dirs, NEW n \in Names, NEW written \in BOOLEAN,
           RemoveFile(d, n, written), ~Crossed
    PROVE  \/ Dirs' = Dirs /\ FoundIn(next', slots', Dirs') = FoundIn(next, slots, Dirs)
           \/ /\ Dirs' = Dirs /\ <<d, n>> \in FoundIn(next, slots, Dirs)
              /\ FoundIn(next', slots', Dirs') = FoundIn(next, slots, Dirs) \ {<<d, n>>}
  <1>0. /\ Kept(next, slots, Dirs, givenUp) /\ DirsOwn(next, Dirs) /\ Dirs \in SUBSET Clusters
        /\ Root \in Dirs /\ OneName(next, slots, Dirs)
    BY WellFormedIs DEF Kept, Sound
  <1>1. PICK b \in ChainIn(next, d), i \in SlotIndex :
            /\ Removing(next, slots, Dirs, givenUp, b, i) /\ slots[b][i].name = n
            /\ next' = Cut(next, slots[b][i].start)
            /\ slots' = Struck(slots, b, i, written)
            /\ givenUp' = GivenUp(givenUp, slots[b][i].start, written)
    BY RemoveIs
  <1>2. Kept(next', slots', Dirs, givenUp')
    BY <1>1, RemovingKeeps
  <1>3. Removed(next, slots, Dirs, b, i, written, next', slots')
    BY <1>1, RemovingPlaces
  <1>4. /\ \A g \in Dirs : ChainIn(next', g) = ChainIn(next, g)
        /\ Held(next', Dirs) = Held(next, Dirs)
    BY <1>3 DEF Removed
  <1>4a. ~written => Dirs' = Dirs /\ FoundIn(next', slots', Dirs') = FoundIn(next, slots, Dirs)
    <2>1. ~written => slots' = slots
      BY <1>1 DEF Struck
    <2> QED
      BY <1>4, <2>1, SameTree
  <1> SUFFICES ASSUME written
               PROVE  /\ Dirs' = Dirs /\ <<d, n>> \in FoundIn(next, slots, Dirs)
                      /\ FoundIn(next', slots', Dirs') = FoundIn(next, slots, Dirs) \ {<<d, n>>}
    BY <1>4a
  <1>5. ASSUME NEW x \in Held(next, Dirs), NEW y \in SlotIndex
        PROVE  \/ ~(x = b /\ y = i) /\ slots'[x][y] = slots[x][y]
               \/ x = b /\ y = i /\ ~Live(slots'[x][y])
    <2>1. ~Live(Given(slots[b][i].start))
      BY DEF Given, Unused, Live
    <2> QED
      BY <1>3, <2>1 DEF Removed
  <1>6. IsFile(slots[b][i]) /\ Live(slots[b][i]) /\ slots[b][i].kind # "dir"
    BY <1>1 DEF Removing, IsFile, Live
  <1>7. Dirs' = Dirs
    <2>1. ASSUME NEW x \in Held(next, Dirs), NEW y \in SlotIndex, slots[x][y].kind = "dir"
          PROVE  slots'[x][y] = slots[x][y]
      BY <1>5, <1>6, <2>1
    <2>2. Dirs \subseteq Dirs'
      BY <1>4, <2>1, DirsStay
    <2>3. Dirs' \subseteq Dirs
      BY <1>2, DirsWithinNext DEF Kept, Sound
    <2> QED
      BY <2>2, <2>3
  <1>8. ASSUME NEW g \in Dirs, NEW m \in Names
        PROVE  Has(next', slots', g, m) <=> Has(next, slots, g, m) /\ ~(g = d /\ m = n)
    <2>1. ASSUME Has(next', slots', g, m)
          PROVE  Has(next, slots, g, m) /\ ~(g = d /\ m = n)
      <3>1. PICK x \in ChainIn(next, g), y \in SlotIndex :
                Live(slots'[x][y]) /\ slots'[x][y].name = m
        BY <1>4, <2>1 DEF Has
      <3>2. x \in Held(next, Dirs)
        BY HeldIs
      <3>3. slots'[x][y] = slots[x][y] /\ (x # b \/ y # i)
        BY <1>5, <3>1, <3>2
      <3>4. ASSUME g = d, m = n PROVE FALSE
        <4>1. ~NamesMeet(slots, x, y, b, i)
          BY <1>0, <3>4 DEF OneName
        <4> QED
          BY <1>1, <1>6, <3>1, <3>3, <3>4, <4>1 DEF NamesMeet
      <3> QED
        BY <3>1, <3>3, <3>4 DEF Has
    <2>2. ASSUME Has(next, slots, g, m), ~(g = d /\ m = n)
          PROVE  Has(next', slots', g, m)
      <3>1. PICK x \in ChainIn(next, g), y \in SlotIndex :
                Live(slots[x][y]) /\ slots[x][y].name = m
        BY <2>2 DEF Has
      <3>2. x \in Held(next, Dirs)
        BY HeldIs
      <3>3. ~(x = b /\ y = i)
        <4>1. x = b => g = d
          BY <1>0 DEF DirsOwn
        <4> QED
          BY <1>1, <2>2, <3>1, <4>1
      <3>4. slots'[x][y] = slots[x][y]
        BY <1>5, <3>2, <3>3
      <3> QED
        BY <1>4, <3>1, <3>4 DEF Has
    <2> QED
      BY <2>1, <2>2
  <1>9. Has(next, slots, d, n)
    BY <1>1, <1>6 DEF Has
  <1>10. <<d, n>> \in FoundIn(next, slots, Dirs)
    BY <1>9 DEF FoundIn
  <1>11. FoundIn(next', slots', Dirs) = FoundIn(next, slots, Dirs) \ {<<d, n>>}
    BY <1>8 DEF FoundIn
  <1> QED
    BY <1>7, <1>10, <1>11

LEMMA TreeStep == WellFormed /\ [Next]_vars => [Tree!TreeNext]_(Tree!treeVars)
  <1> SUFFICES ASSUME WellFormed, [Next]_vars
               PROVE  Tree!TreeNext
    OBVIOUS
  <1>1. WellFormed'
    BY WellFormedStep
  <1>2. (WellFormed => TreeNow = [dirs |-> Dirs, found |-> FoundIn(next, slots, Dirs)])'
    BY TreeIs, PTL
  <1>3. PICK t, u : /\ t = TreeNow /\ u = TreeNow'
                    /\ t = [dirs |-> Dirs, found |-> FoundIn(next, slots, Dirs)]
                    /\ u = [dirs |-> Dirs', found |-> FoundIn(next', slots', Dirs')]
    BY <1>1, <1>2, TreeIs
  <1>3a. /\ t.dirs = Dirs /\ t.found = FoundIn(next, slots, Dirs)
         /\ \A F : [t EXCEPT !.found = F] = [dirs |-> Dirs, found |-> F]
    BY <1>3
  <1>4. ASSUME ~(damaged \/ Crossed), ~(damaged \/ Crossed)', Tree!Nothing(t, u) \/ Tree!NewFile(t, u)
                                     \/ Tree!NewDirectory(t, u) \/ Tree!Forget(t, u)
        PROVE  Tree!TreeNext
    <2>1. \E v \in {TreeNow}, w \in {TreeNow'} : Tree!Nothing(v, w) \/ Tree!NewFile(v, w)
                                     \/ Tree!NewDirectory(v, w) \/ Tree!Forget(v, w)
      BY <1>3, <1>4
    <2> QED
      BY <1>4, <2>1 DEF Tree!TreeNext, TreeNow
  <1>5. (damaged \/ Crossed)' => Tree!TreeNext
    BY DEF Tree!TreeNext
  <1>6. ASSUME UNCHANGED vars PROVE Tree!TreeNext
    <2>1. next' = next /\ slots' = slots /\ Dirs' = Dirs /\ damaged' = damaged /\ Crossed' = Crossed
      BY <1>6 DEF vars, Crossed, IsFree, Dirs, Children, Visible, EntriesOf, Chain, Links
    <2>2. Tree!Nothing(t, u)
      BY <1>3, <2>1 DEF Tree!Nothing
    <2> QED
      BY <1>4, <1>5, <2>1, <2>2
  <1>7. ASSUME NEW d \in Dirs, NEW n \in Names, NEW written \in BOOLEAN, Create(d, n, written),
               ~Crossed
        PROVE  Tree!TreeNext
    <2>0. damaged' = damaged
      BY <1>7 DEF Create, CreateAt
    <2>1. CASE Dirs' = Dirs /\ FoundIn(next', slots', Dirs') = FoundIn(next, slots, Dirs)
      <3>1. Tree!Nothing(t, u)
        BY <1>3, <2>1 DEF Tree!Nothing
      <3> QED
        BY <1>4, <1>5, <1>7, <2>0, <3>1
    <2>2. CASE /\ <<d, n>> \notin FoundIn(next, slots, Dirs) /\ Dirs' = Dirs
               /\ FoundIn(next', slots', Dirs') = FoundIn(next, slots, Dirs) \cup {<<d, n>>}
      <3>1. Tree!NewFile(t, u)
        <4>1. u = [t EXCEPT !.found = t.found \cup {<<d, n>>}]
          BY <1>3, <1>3a, <2>2
        <4> QED
          BY <1>3a, <2>2, <4>1 DEF Tree!NewFile
      <3> QED
        BY <1>4, <1>5, <1>7, <2>0, <3>1
    <2>3. ASSUME <<d, n>> \notin FoundIn(next, slots, Dirs), NEW c \in Clusters \ Dirs,
                 Dirs' = Dirs \cup {c},
                 FoundIn(next', slots', Dirs') = FoundIn(next, slots, Dirs) \cup {<<d, n>>}
          PROVE  Tree!TreeNext
      <3>1. Tree!NewDirectory(t, u)
        <4>1. u = [dirs |-> t.dirs \cup {c}, found |-> t.found \cup {<<d, n>>}]
          BY <1>3, <1>3a, <2>3
        <4> QED
          BY <1>3a, <2>3, <4>1 DEF Tree!NewDirectory
      <3> QED
        BY <1>4, <1>5, <1>7, <2>0, <3>1
    <2> QED
      BY <1>1, <1>7, <2>1, <2>2, <2>3, CreateTree
  <1>8. ASSUME NEW d \in Dirs, NEW n \in Names, NEW written \in BOOLEAN,
               RemoveFile(d, n, written), ~Crossed
        PROVE  Tree!TreeNext
    <2>0. damaged' = damaged
      BY <1>8 DEF RemoveFile
    <2>1. CASE Dirs' = Dirs /\ FoundIn(next', slots', Dirs') = FoundIn(next, slots, Dirs)
      <3>1. Tree!Nothing(t, u)
        BY <1>3, <2>1 DEF Tree!Nothing
      <3> QED
        BY <1>4, <1>5, <1>8, <2>0, <3>1
    <2>2. CASE /\ Dirs' = Dirs /\ <<d, n>> \in FoundIn(next, slots, Dirs)
               /\ FoundIn(next', slots', Dirs') = FoundIn(next, slots, Dirs) \ {<<d, n>>}
      <3>1. Tree!Forget(t, u)
        <4>1. u = [t EXCEPT !.found = t.found \ {<<d, n>>}]
          BY <1>3, <1>3a, <2>2
        <4> QED
          BY <1>3a, <2>2, <4>1 DEF Tree!Forget
      <3> QED
        BY <1>4, <1>5, <1>8, <2>0, <3>1
    <2> QED
      BY <1>1, <1>8, <2>1, <2>2, RemoveTree
  <1>9. ASSUME NEW d \in Dirs, NEW n \in Names, MakeDirWhenFull(d, n)
        PROVE  Tree!TreeNext
    <2>1. damaged'
      BY <1>9 DEF MakeDirWhenFull
    <2> QED
      BY <1>5, <2>1
  <1> QED
    BY <1>6, <1>7, <1>8, <1>9 DEF Next

LEMMA TreeStart == Init => Tree!TreeInit
  <1> SUFFICES ASSUME Init PROVE Tree!TreeInit
    OBVIOUS
  <1>1. WellFormed /\ ~(damaged \/ Crossed)
    BY DEF Init, Crossed
  <1>2. PICK t : t = TreeNow /\ t = [dirs |-> Dirs, found |-> FoundIn(next, slots, Dirs)]
    BY <1>1, TreeIs
  <1>3. FoundIn(next, slots, Dirs) \subseteq Dirs \X Names
    BY DEF FoundIn
  <1>4. /\ t \in [dirs : SUBSET Clusters, found : SUBSET (Clusters \X Names)]
        /\ Root \in t.dirs /\ \A x \in t.found : x[1] \in t.dirs
    BY <1>2, <1>3, DirsInTable
  <1> QED
    BY <1>1, <1>2, <1>4 DEF Tree!TreeInit, TreeNow

(* The directories implement DirTree: a call makes one name appear or      *)
(* vanish, and no other, as long as no directory is made on a full volume  *)
(* and no call takes the cluster of an entry that a removal left behind.   *)
THEOREM DirectoriesImplementTree == Spec => ImplementsTree
  BY TreeStart, TreeStep, VolumesStayWellFormed, PTL DEF Spec, ImplementsTree, Tree!TreeSpec
=============================================================================
