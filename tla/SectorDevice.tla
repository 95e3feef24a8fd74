---------------------------- MODULE SectorDevice ----------------------------
(***************************************************************************)
(* What a disk driver promises its callers (vfs_device_read and            *)
(* vfs_device_write): a call moves the sectors asked for, in order, between *)
(* the buffer and the disk, and no others; a read returns what is stored.   *)
(* A failure is reported, but for that of the last sector of a write,       *)
(* which the disk still holds back (behind) when the call returns.          *)
(*                                                                         *)
(* Nothing is promised once the driver spoke to a disk that was not ready   *)
(* (overrun).                                                              *)
(***************************************************************************)
EXTENDS Integers, Sequences

CONSTANTS NoCall, Kinds

VARIABLES
    disk,       \* disk[d][s]: the sectors of each drive
    kind,       \* what each drive is
    call,       \* the request being served, or NoCall
    moved,      \* the sectors moved so far
    behind,     \* what the disk has accepted and not stored: at most one
    lost,       \* a sector accepted in this call was not stored
    reply,
    overrun

abstractVars == <<disk, kind, call, moved, behind, lost, reply, overrun>>

Init ==
    /\ call = NoCall /\ moved = <<>>
    /\ behind = {} /\ lost = FALSE
    /\ reply = 0 /\ overrun = FALSE

Call ==
    /\ call = NoCall
    /\ call' # NoCall
    /\ moved' = <<>> /\ lost' = FALSE
    /\ UNCHANGED <<disk, behind, reply>>

At == call.lba + Len(moved)

ReadSector ==
    /\ call # NoCall /\ call.op = "read"
    /\ Len(moved) < call.count
    /\ behind = {}
    /\ moved' = Append(moved, disk[call.drive][At])
    /\ UNCHANGED <<disk, call, behind, lost, reply>>

WriteSector ==
    /\ call # NoCall /\ call.op = "write"
    /\ Len(moved) < call.count
    /\ behind = {} /\ ~lost
    /\ moved' = Append(moved, call.data[Len(moved) + 1])
    /\ behind' = {[drive |-> call.drive, lba |-> At, data |-> call.data[Len(moved) + 1]]}
    /\ UNCHANGED <<disk, call, lost, reply>>

Store ==
    /\ \E b \in behind : disk' = [disk EXCEPT ![b.drive][b.lba] = b.data]
    /\ behind' = {}
    /\ UNCHANGED <<call, moved, lost, reply>>

Lose ==
    /\ behind # {}
    /\ behind' = {}
    /\ lost' = (lost \/ moved # <<>>)
    /\ UNCHANGED <<disk, call, moved, reply>>

Return ==
    /\ call # NoCall
    /\ call' = NoCall
    /\ CASE call.op = "identify" -> (reply' = 0) <=> (kind[call.drive] = "ata")
         [] OTHER -> \/ reply' = 0 /\ Len(moved) = call.count
                     \/ reply' = 1 /\ Len(moved) < call.count
    /\ UNCHANGED <<disk, moved, behind, lost>>

Next ==
    /\ UNCHANGED kind
    /\ Call \/ ReadSector \/ WriteSector \/ Store \/ Lose \/ Return

Promised == overrun' \/ Next

Spec == Init /\ [][Promised]_abstractVars
=============================================================================
