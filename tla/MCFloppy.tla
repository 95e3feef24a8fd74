------------------------------ MODULE MCFloppy ------------------------------
(* Two cylinders of two tracks of three sectors, more than a transfer moves *)
(* at once.  The requests: one sector; a track, in two turns; three sectors *)
(* over the end of a track and over the end of a cylinder.                 *)
EXTENDS Floppy

MCRequests == {<<1, 0>>, <<3, 0>>, <<3, 2>>, <<3, 4>>}
MCGarbage  == {0, 255}
=============================================================================
