----------------------------- MODULE MCFat32Dir -----------------------------
(***************************************************************************)
(* Clusters of three entries: a directory below the root is full after its *)
(* first file.  One volume is freshly formatted; the others were made by   *)
(* another system: the root directory of one is a chain of two clusters,   *)
(* with a file, an empty file of first cluster 0 and deleted entries in    *)
(* it; the other has a directory whose '..' is cluster 0.                  *)
(***************************************************************************)
EXTENDS Fat32Dir, TLC

CONSTANTS x, y, z, dot, dotdot

MCNames      == {x, y, z}
MCEndOfChain == LastCluster + 1
Symmetry     == Permutations(Names)

Empty   == [i \in SlotIndex |-> Unused]
Gone(c) == [Unused EXCEPT !.kind = "deleted", !.start = c]

Fresh == [next  |-> [c \in Clusters |-> IF c = Root THEN EndOfChain ELSE 0],
          slots |-> [c \in Clusters |-> Empty]]

Used(m, n) ==
    [next  |-> [c \in Clusters |->
                   IF c = Root THEN 4 ELSE IF c \in {3, 4} THEN EndOfChain ELSE 0],
     slots |-> [c \in Clusters |->
                   IF c # Root THEN Empty
                   ELSE [i \in SlotIndex |->
                           CASE i = 0 -> Gone(5)
                             [] i = 1 -> [kind |-> "file", name |-> m, start |-> 3]
                             [] OTHER -> [kind |-> "file", name |-> n, start |-> 0]]]]

Nested(m) ==
    [next  |-> [c \in Clusters |-> IF c \in {Root, 3} THEN EndOfChain ELSE 0],
     slots |-> [c \in Clusters |->
                   IF c = Root
                   THEN [Empty EXCEPT ![0] = [kind |-> "dir", name |-> m, start |-> 3]]
                   ELSE IF c = 3 THEN [Inside(3, Root) EXCEPT ![1].start = 0] ELSE Empty]]

MCVolumes ==
    {Fresh} \cup UNION {{Nested(m)} \cup {Used(m, n) : n \in Names \ {m}} : m \in Names}
=============================================================================
