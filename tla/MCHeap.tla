------------------------------- MODULE MCHeap -------------------------------
(***************************************************************************)
(* Small heaps for TLC.  A header is 2 units, so a free block may be too   *)
(* small for a header, just large enough for one, or empty.                *)
(***************************************************************************)
EXTENDS Heap

MCHeapSize == 14
MCHeader   == 2
MCSizes    == {0, 1, 2, 3, 5}
=============================================================================
