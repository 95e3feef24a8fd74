------------------------------- MODULE MCVfs -------------------------------
(* Two letters that may be given and one past the end of the table.         *)
EXTENDS Vfs, TLC

MCClusters == {3, 4}
MCLetters  == {1, 2, 17}
Symmetry   == Permutations(Slots)
=============================================================================
