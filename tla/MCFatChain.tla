----------------------------- MODULE MCFatChain -----------------------------
(***************************************************************************)
(* Two files on a small volume whose table is formatted as mkfs leaves it: *)
(* entries 0 and 1 reserved, the directory in cluster 2.                   *)
(***************************************************************************)
EXTENDS FatChain

CONSTANTS a, b

MCNames      == {a, b}
MCEndOfChain == NumSectors * EntriesPerSector
MCStored     == Values
MCDisks      == {[s \in Sectors |-> [o \in Offsets |->
                    IF s * EntriesPerSector + o <= 2 THEN EndOfChain ELSE 0]]}
MCGarbage    == {[o \in Offsets |-> 0]}
=============================================================================
