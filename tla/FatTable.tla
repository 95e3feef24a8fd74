------------------------------ MODULE FatTable ------------------------------
(***************************************************************************)
(* What the rest of the FAT32 driver takes the file allocation table to    *)
(* be: an array of entries.  A write changes the one entry it names; the   *)
(* medium holds the array as it was at some moment of the past, and a      *)
(* power cut goes back to that moment and to no mixture of moments.        *)
(***************************************************************************)
EXTENDS Integers

CONSTANTS
    Entries,    \* indices of the table
    Values      \* what an entry may hold

VARIABLES
    table,      \* the array as the driver reads it
    durable,    \* the array a restart would find
    restarts    \* how often the power has gone

tableVars == <<table, durable, restarts>>

TableInit ==
    /\ table \in [Entries -> Values]
    /\ durable = table
    /\ restarts = 0

Write(c, v) ==
    /\ table' = [table EXCEPT ![c] = v]
    /\ UNCHANGED <<durable, restarts>>

Persist ==
    /\ durable' = table
    /\ UNCHANGED <<table, restarts>>

PowerLoss ==
    /\ table' = durable
    /\ restarts' = restarts + 1
    /\ UNCHANGED durable

TableNext ==
    \/ \E c \in Entries, v \in Values : Write(c, v)
    \/ Persist
    \/ PowerLoss

TableSpec == TableInit /\ [][TableNext]_tableVars
=============================================================================
