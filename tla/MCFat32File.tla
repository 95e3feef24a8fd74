---------------------------- MODULE MCFat32File ----------------------------
(***************************************************************************)
(* Clusters of two bytes: a file of five bytes needs three of them.        *)
(***************************************************************************)
EXTENDS Fat32File, TLC

CONSTANTS file1, file2, node1, node2

MCBuffers == {<<>>, <<1>>, <<1, 2, 1>>}
Plain     == {<<0>>, <<0, 0>>}
Symmetric == Permutations({file1, file2}) \cup Permutations({node1, node2})

MCFiles   == {file1, file2}
MCHandles == {node1, node2}
NoneBad   == {{}}
OneBad    == {{}, {1}}
=============================================================================
