------------------------------- MODULE AtaPio -------------------------------
(***************************************************************************)
(* drivers/ata/ata.c: identify_ata, ata_pio_read and ata_pio_write, one     *)
(* access to the controller after the other, against a channel of two      *)
(* drives that works at its own pace.                                      *)
(*                                                                         *)
(* The drives are external: a command and each sector take a while, in     *)
(* which the drive is busy (BSY) and ignores its registers, as it does     *)
(* while it waits for data to be moved (DRQ).  A sector is moved in one    *)
(* step.  The registers hold digits of base Radix; the drive register has  *)
(* two fields, the drive and the highest digit of the sector (top).        *)
(***************************************************************************)
EXTENDS Integers, Sequences, FiniteSets

CONSTANTS
    Sectors,    \* on a drive
    Radix,      \* values of a register (256)
    Top,        \* values of the four bits of the sector in the drive register (16)
    Firsts,     \* the first sectors of reads and writes
    Writes,     \* the sequences of sectors that are written
    MaxCount,   \* sectors of the longest read
    Kinds,      \* the kinds of each drive
    Junk,       \* what a read finds in the data register without DRQ
    NoCall

Drives == {0, 1}    \* master, slave

(* A caller of the device and what it asks for.                             *)
Requests ==
    LET drives == [op : {"identify"}, drive : Drives, lba : {0}, count : {0}]
        reads  == [op : {"read"}, drive : Drives, lba : Firsts, count : 1 .. MaxCount]
        writes == {[op |-> "write", drive |-> d, lba |-> l, count |-> Len(w), data |-> w] :
                       d \in Drives, l \in Firsts, w \in Writes}
    IN  drives \cup reads \cup writes

(* Callers ask for a sector or a cluster, at least one sector and at most  *)
(* 128, so the outer loop of a transfer, of passes of 256 sectors, is      *)
(* taken once.  What is in a sector is reduced to a number.                *)
ASSUME AtaAssumption ==
    /\ Radix \in Nat \ {0}
    /\ Top \in Nat \ {0}
    /\ Sectors \in Nat
    /\ Sectors <= Radix * Radix * Radix * Top
    /\ Firsts \subseteq 0 .. Sectors - 1
    /\ Writes \subseteq Seq(Nat)
    /\ \A w \in Writes : Len(w) >= 1 /\ Len(w) < Radix * Radix
    /\ MaxCount \in Nat
    /\ MaxCount < Radix * Radix
    /\ NoCall \notin Requests

VARIABLES
    kind,       \* "ata", "atapi", "broken" or "none"
    floating,   \* no drive pulls the data lines down
    disk,
    task,       \* the registers
    state,      \* of the drive with a command: "idle", "busy", "drq", "failed"
    active,     \* that drive
    command,    \* and the command it executes
    at, left,   \* the sector it has reached, and how many are left
    pc, call, moved, reply,
    identified, \* the drives ata_init has looked at
    usable,     \* and those it registered
    (* ghosts *)
    behind, lost, overrun

driveVars  == <<state, active, command, at, left>>
driverVars == <<pc, call, moved, reply, identified, usable>>
ghostVars  == <<behind, lost, overrun>>
vars == <<kind, floating, disk, task, driveVars, driverVars, ghostVars>>

(* what the registers hold, and what a write to one of them sets           *)
Fields    == {"drive", "top", "count", "lo", "mid", "hi"}
FieldsOf(r) == IF r = "drive" THEN {"drive", "top"} ELSE {r}

Sector(t) == t["lo"] + Radix * t["mid"] + Radix * Radix * t["hi"]
                 + Radix * Radix * Radix * t["top"]

ValueWithoutTop(c, f) ==
    CASE f = "drive" -> c.drive
      [] f = "top"   -> 0
      [] f = "count" -> c.count
      [] f = "lo"    -> c.lba % Radix
      [] f = "mid"   -> (c.lba \div Radix) % Radix
      [] f = "hi"    -> (c.lba \div (Radix * Radix)) % Radix

(* the value each field is given for a call; the sector of identify is 0   *)
Value(c, f) ==
    CASE f = "drive" -> c.drive
      [] f = "top"   -> (c.lba \div (Radix * Radix * Radix)) % Top
      [] f = "count" -> c.count
      [] f = "lo"    -> c.lba % Radix
      [] f = "mid"   -> (c.lba \div Radix) % Radix
      [] f = "hi"    -> (c.lba \div (Radix * Radix)) % Radix

Selected == task["drive"]
There(d) == kind[d] # "none"
Engaged  == state \in {"busy", "drq"}

(* the bits of the status register                                         *)
Mine(s)  == There(Selected) /\ Selected = active /\ state = s
BSY      == floating \/ Mine("busy")
DRQ      == floating \/ Mine("drq")
ERR      == floating \/ Mine("failed")

Init ==
    /\ kind \in [Drives -> Kinds]
    /\ floating \in {b \in BOOLEAN : b => \A d \in Drives : kind[d] = "none"}
    /\ disk = [d \in Drives |-> [s \in 0 .. Sectors - 1 |-> 0]]
    /\ task = [f \in Fields |-> 0]
    /\ state = "idle" /\ active = 0 /\ command = "none"
    /\ at = 0 /\ left = 0
    /\ pc = "idle" /\ call = NoCall /\ moved = <<>> /\ reply = 0
    /\ identified = {} /\ usable = {}
    /\ behind = {} /\ lost = FALSE /\ overrun = FALSE

-----------------------------------------------------------------------------
(* the drive *)

Drive == Engaged /\ UNCHANGED <<kind, floating, task, active, driverVars, overrun>>

(* it finds the sector to read, or is ready for the first to write, or for *)
(* its description                                                          *)
Ready ==
    /\ Drive
    /\ state = "busy" /\ behind = {}
    /\ kind[active] = "ata"
    /\ state' = "drq"
    /\ UNCHANGED <<disk, command, at, left, behind, lost>>

(* it cannot; one that is no plain disk answers identify with an error     *)
Fails ==
    /\ Drive
    /\ state = "busy"
    /\ command = "identify" => kind[active] # "ata"
    /\ state' = "failed"
    /\ lost' = (lost \/ (behind # {} /\ moved # <<>>))
    /\ behind' = {}
    /\ UNCHANGED <<disk, command, at, left>>

Stores ==
    /\ Drive
    /\ \E b \in behind : disk' = [disk EXCEPT ![b.drive][b.lba] = b.data]
    /\ behind' = {}
    /\ state' = IF left > 0 THEN "drq" ELSE "idle"
    /\ UNCHANGED <<command, at, left, lost>>

-----------------------------------------------------------------------------
(* the driver: the calls *)

(* bound: no call follows one that overran                                 *)
Start(c) ==
    /\ pc = "idle"
    /\ ~overrun
    /\ call' = c
    /\ moved' = <<>>
    /\ lost' = FALSE
    /\ UNCHANGED <<kind, floating, disk, task, driveVars, reply, usable, behind, overrun>>

(* ata_init asks the master first; it registers what identify_ata accepts  *)
Identify(d) ==
    /\ Start([op |-> "identify", drive |-> d, lba |-> 0, count |-> 0])
    /\ identified = 0 .. d - 1
    /\ identified' = identified \cup {d}
    /\ pc' = "float"

ReadCall(d, l, n) ==
    /\ Start([op |-> "read", drive |-> d, lba |-> l, count |-> n])
    /\ d \in usable
    /\ l + n <= Sectors
    /\ pc' = "drive"
    /\ UNCHANGED identified

(* nothing is written before ata_init is through                           *)
WriteCall(d, l, w) ==
    /\ Start([op |-> "write", drive |-> d, lba |-> l, count |-> Len(w), data |-> w])
    /\ identified = Drives
    /\ d \in usable
    /\ l + Len(w) <= Sectors
    /\ pc' = "drive"
    /\ UNCHANGED identified

-----------------------------------------------------------------------------
(* the driver: the registers *)

Driver(from, to) ==
    /\ pc = from
    /\ pc' = to
    /\ UNCHANGED <<kind, floating, call, identified>>

Returns(from, code) ==
    /\ pc = from
    /\ pc' = "idle"
    /\ call' = NoCall
    /\ reply' = code
    /\ usable' = usable \cup
           {d \in Drives : call.op = "identify" /\ code = 0 /\ d = call.drive}
    /\ UNCHANGED <<kind, floating, disk, task, moved, identified, ghostVars>>

(* a drive that is engaged ignores the write                               *)
WriteRegister(r, to) ==
    /\ Driver(r, to)
    /\ task' = IF Engaged THEN task
               ELSE [f \in Fields |-> IF f \in FieldsOf(r) THEN Value(call, f) ELSE task[f]]
    /\ overrun' = (overrun \/ Engaged)
    /\ UNCHANGED <<disk, driveVars, moved, reply, usable, behind, lost>>

WriteRegisters ==
    \/ WriteRegister("drive", IF call.op = "identify" THEN "lo" ELSE "count")
    \/ WriteRegister("count", "lo")
    \/ WriteRegister("lo", "mid")
    \/ WriteRegister("mid", "hi")
    \/ WriteRegister("hi", "command")

Command ==
    /\ Driver("command", IF call.op = "identify" THEN "status" ELSE "poll")
    /\ overrun' = (overrun \/ Engaged)
    /\ IF Engaged \/ ~There(Selected)
       THEN UNCHANGED driveVars
       ELSE /\ state' = "busy"
            /\ active' = Selected
            /\ command' = call.op
            /\ at' = Sector(task)
            /\ left' = task["count"]
    /\ UNCHANGED <<disk, task, moved, reply, usable, behind, lost>>

-----------------------------------------------------------------------------
(* ata_pio_read and ata_pio_write: the loop over the sectors *)

PollDone == ~BSY \/ ERR

PollReady ==
    /\ PollDone /\ ~ERR
    /\ Driver("poll", "move")
    /\ UNCHANGED <<disk, task, driveVars, moved, reply, usable, ghostVars>>

PollError ==
    /\ PollDone /\ ERR
    /\ Returns("poll", 1)
    /\ UNCHANGED driveVars

(* ata_read_bytes: the drive looks for the next sector, if there is one    *)
ReadBytes ==
    /\ Driver("move", "wait")
    /\ call.op = "read"
    /\ IF DRQ /\ command = "read" /\ at < Sectors
       THEN /\ moved' = Append(moved, disk[active][at])
            /\ left' = left - 1
            /\ at' = at + 1
            /\ state' = IF left > 1 THEN "busy" ELSE "idle"
            /\ UNCHANGED <<active, command>>
       ELSE /\ moved' = Append(moved, Junk)
            /\ UNCHANGED driveVars
    /\ UNCHANGED <<disk, task, reply, usable, ghostVars>>

(* ata_write_bytes: the drive is busy until the sector is stored           *)
WriteBytes ==
    /\ Driver("move", "wait")
    /\ call.op = "write"
    /\ LET v == call.data[Len(moved) + 1] IN
       /\ moved' = Append(moved, v)
       /\ IF DRQ /\ command = "write" /\ at < Sectors
          THEN /\ behind' = {[drive |-> active, lba |-> at, data |-> v]}
               /\ left' = left - 1
               /\ at' = at + 1
               /\ state' = "busy"
               /\ UNCHANGED <<active, command>>
          ELSE UNCHANGED <<driveVars, behind>>
    /\ UNCHANGED <<disk, task, reply, usable, lost, overrun>>

(* 15 reads of the status register, whatever they say                      *)
WaitedNext ==
    /\ Driver("wait", "poll")
    /\ Len(moved) < call.count
    /\ UNCHANGED <<disk, task, driveVars, moved, reply, usable, ghostVars>>

WaitedLast ==
    /\ Returns("wait", 0)
    /\ Len(moved) >= call.count
    /\ UNCHANGED driveVars

-----------------------------------------------------------------------------
(* identify_ata *)

NotFloating ==
    /\ ~floating
    /\ Driver("float", "drive")
    /\ UNCHANGED <<disk, task, driveVars, moved, reply, usable, ghostVars>>

Floating ==
    /\ floating
    /\ Returns("float", 1)
    /\ UNCHANGED driveVars

(* a drive that is there shows at least one bit (DRDY)                     *)
StatusZero ==
    /\ ~There(Selected)
    /\ Returns("status", 4)
    /\ UNCHANGED driveVars

StatusSet ==
    /\ There(Selected)
    /\ Driver("status", "identifying")
    /\ UNCHANGED <<disk, task, driveVars, moved, reply, usable, ghostVars>>

(* the signature of a packet device in the registers of the sector         *)
OtherDevice ==
    /\ ~BSY
    /\ kind[Selected] = "atapi"
    /\ Returns("identifying", 2)
    /\ UNCHANGED driveVars

IdentifyErrorAfterData ==
    /\ ~BSY /\ DRQ /\ ERR
    /\ kind[Selected] # "atapi"
    /\ Returns("identifying", 3)
    /\ UNCHANGED driveVars

IdentifyError ==
    /\ ~BSY /\ ERR
    /\ kind[Selected] # "atapi"
    /\ Returns("identifying", 3)
    /\ UNCHANGED driveVars

ReadWords ==
    /\ ~BSY /\ DRQ
    /\ Returns("identifying", 0)
    /\ state' = "idle"
    /\ UNCHANGED <<active, command, at, left>>

-----------------------------------------------------------------------------
DriveStep  == Ready \/ Fails \/ Stores

DriverStep == \/ WriteRegisters \/ Command
              \/ PollReady \/ PollError
              \/ ReadBytes \/ WriteBytes \/ WaitedNext \/ WaitedLast
              \/ NotFloating \/ Floating \/ StatusZero \/ StatusSet
              \/ OtherDevice \/ IdentifyError \/ ReadWords

Calls == \E d \in Drives :
    \/ Identify(d)
    \/ \E l \in Firsts :
           \/ \E n \in 1 .. MaxCount : ReadCall(d, l, n)
           \/ \E w \in Writes : WriteCall(d, l, w)

Next == DriveStep \/ DriverStep \/ Calls

Spec == Init /\ [][Next]_vars
FairSpec == Spec /\ WF_vars(DriverStep) /\ WF_vars(DriveStep)

-----------------------------------------------------------------------------
Device == INSTANCE SectorDevice

(* As long as the driver never writes to the registers of a drive that is  *)
(* still storing a sector, it is the device SectorDevice describes.        *)
ImplementsSectorDevice == Device!Spec

(* Every call returns, whatever the drive answers and when: both loops     *)
(* over the status register end (ata.c:67, 152, 162).                      *)
CallsReturn == pc # "idle" ~> pc = "idle"
=============================================================================
