---------------------------- MODULE AtaPioProofs ----------------------------
(***************************************************************************)
(* The driver of the disks is the device SectorDevice describes, for every *)
(* number of sectors, whatever is written, whatever the drives are and     *)
(* however fast they work, until it speaks to one that is not ready.       *)
(***************************************************************************)
EXTENDS AtaPio, TLAPS

Registers == {"drive", "count", "lo", "mid", "hi"}

(***************************************************************************)
(* The inductive invariant.  It speaks of a driver that has written to no  *)
(* drive that was engaged.                                                 *)
(***************************************************************************)
CallTypes ==
    /\ call.op \in {"identify", "read", "write"} /\ call.drive \in Drives
    /\ call.lba \in Nat /\ call.count \in Nat
    /\ call.op = "identify" => call.lba = 0
    /\ call.op # "identify" =>
           call.drive \in usable /\ call.count >= 1 /\ call.lba + call.count <= Sectors
    /\ call.op = "write" => call.data \in Seq(Nat) /\ Len(call.data) = call.count

Setting == pc \in {"drive", "count", "lo", "mid", "hi", "command"}
Serving == pc \in {"poll", "move", "wait"}
Identifying == pc \in {"status", "identifying"}

DriverTypes ==
    /\ pc = "idle" \/ pc = "float" \/ Setting \/ Serving \/ Identifying
    /\ pc = "idle" <=> call = NoCall
    /\ pc # "idle" => CallTypes
    /\ moved \in Seq(Nat)
    /\ usable \subseteq Drives
    /\ \A d \in usable : kind[d] = "ata"
    /\ floating => \A d \in Drives : kind[d] = "none"

Held(b) == b \in [drive : Drives, lba : 0 .. Sectors - 1, data : Nat]

DriveTypes ==
    /\ disk \in [Drives -> [0 .. Sectors - 1 -> Nat]]
    /\ task \in [Fields -> Nat]
    /\ state \in {"idle", "busy", "drq", "failed"}
    /\ active \in Drives
    /\ at \in Nat /\ left \in Nat
    /\ behind = {} \/ \E b : behind = {b} /\ Held(b)
    /\ lost \in BOOLEAN
    /\ behind # {} => state = "busy" /\ command = "write" /\ kind[active] = "ata"
    /\ state = "drq" => kind[active] = "ata"
    /\ command = "identify" /\ state = "failed" => kind[active] # "ata"

(* the registers fill up with the call *)
Set(r) == task[r] = Value(call, r)

RegistersSet ==
    /\ pc \in {"float", "status", "identifying"} => call.op = "identify"
    /\ pc = "count" \/ Serving => call.op # "identify"
    /\ (Setting \/ Identifying) /\ call.op = "identify" => ~floating
    /\ pc = "float" \/ Setting => moved = <<>> /\ ~lost
    /\ pc \in {"count", "lo", "mid", "hi", "command"} \/ Serving \/ Identifying =>
           Set("drive") /\ Set("top")
    /\ pc \in {"lo", "mid", "hi", "command"} /\ call.op # "identify" => Set("count")
    /\ pc \in {"mid", "hi", "command"} => Set("lo")
    /\ pc \in {"hi", "command"} => Set("mid")
    /\ pc = "command" => Set("hi")

(* the drive and the driver agree on how far they are *)
InStep ==
    /\ Serving =>
           /\ active = call.drive /\ command = call.op
           /\ at = call.lba + Len(moved)
           /\ left = call.count - Len(moved)
           /\ lost => state = "failed"
           /\ state \in {"busy", "drq"} /\ behind = {} => left > 0
           /\ state = "idle" => left = 0 /\ pc = "wait"
    /\ pc \in {"poll", "move"} => left > 0
    /\ pc = "move" => state = "drq"
    /\ Identifying /\ There(call.drive) =>
           active = call.drive /\ command = "identify" /\ state \in {"busy", "drq", "failed"}
    /\ pc = "identifying" => There(call.drive)

Good == DriverTypes /\ DriveTypes /\ RegistersSet /\ InStep

GoodUntilOverrun == (overrun \in BOOLEAN) /\ (~overrun => Good)

-----------------------------------------------------------------------------
(***************************************************************************)
(* The digits of a sector's number.                                        *)
(***************************************************************************)
LEMMA Division ==
    ASSUME NEW n \in Nat, NEW r \in Nat \ {0}
    PROVE  /\ n \div r \in Nat /\ n % r \in Nat
           /\ n = r * (n \div r) + (n % r) /\ n % r < r
  <1>1. n \div r \in Nat
    OBVIOUS
  <1>2. n % r \in Nat
    OBVIOUS
  <1>3. n % r < r
    OBVIOUS
  <1>4. n = r * (n \div r) + (n % r)
    OBVIOUS
  <1> QED
    BY <1>1, <1>2, <1>3, <1>4

LEMMA Quotient ==
    ASSUME NEW r \in Nat \ {0}, NEW q \in Nat, NEW k \in Nat, k < r,
           NEW n \in Nat, n = r * q + k
    PROVE  n \div r = q
  OBVIOUS

LEMMA SmallRemainder ==
    ASSUME NEW n \in Nat, NEW r \in Nat \ {0}, n < r
    PROVE  n % r = n
  OBVIOUS

LEMMA Products ==
    ASSUME NEW r \in Nat, NEW a \in Nat, NEW b \in Nat
    PROVE  r * (a + b) = r * a + r * b /\ r * (r * a) = r * r * a
  <1>1. r * (a + b) = r * a + r * b
    OBVIOUS
  <1>2. r * (r * a) = r * r * a
    OBVIOUS
  <1> QED
    BY <1>1, <1>2

LEMMA TwoDigits ==
    ASSUME NEW n \in Nat, NEW r \in Nat \ {0}
    PROVE  \E p, low \in Nat :
               /\ n = r * r * p + low /\ low < r * r
               /\ low = (n % r) + r * ((n \div r) % r)
               /\ p = n \div (r * r)
  <1>1. PICK q \in Nat, k \in Nat : n = r * q + k /\ k < r /\ q = n \div r /\ k = n % r
    BY Division
  <1>2. PICK p \in Nat, m \in Nat : q = r * p + m /\ m < r /\ p = q \div r /\ m = q % r
    BY Division
  <1>3. r * r \in Nat \ {0} /\ r * m + k \in Nat
    OBVIOUS
  <1>4. n = r * r * p + (r * m + k)
    <2>1. n = r * (r * p + m) + k
      BY <1>1, <1>2
    <2>2. r * p \in Nat
      BY <1>2
    <2>3. r * (r * p + m) = r * (r * p) + r * m /\ r * (r * p) = r * r * p
      BY <2>2, Products
    <2> QED
      BY <2>1, <2>3, <1>3
  <1>5. r * m + k < r * r
    <2>1. m + 1 <= r
      BY <1>2
    <2>2. r * (m + 1) <= r * r
      BY <2>1
    <2> QED
      BY <1>1, <2>2
  <1>6. n \div (r * r) = p
    BY <1>3, <1>4, <1>5, Quotient
  <1>7. r * m + k = (n % r) + r * ((n \div r) % r)
    <2>1. r * m \in Nat /\ r * m + k = k + r * m
      OBVIOUS
    <2>2. m = (n \div r) % r /\ k = n % r
      BY <1>1, <1>2, Zenon
    <2> QED
      BY <2>1, <2>2, Zenon
  <1> QED
    BY <1>3, <1>4, <1>5, <1>6, <1>7, Zenon

LEMMA Digits ==
    ASSUME NEW n \in Nat, NEW r \in Nat \ {0}, NEW t \in Nat \ {0}, n < r * r * r * t
    PROVE  (n % r) + r * ((n \div r) % r) + r * r * ((n \div (r * r)) % r)
               + r * r * r * ((n \div (r * r * r)) % t) = n
  <1>1. PICK p \in Nat, low \in Nat :
            /\ n = r * r * p + low /\ low < r * r
            /\ low = (n % r) + r * ((n \div r) % r)
            /\ p = n \div (r * r)
    BY TwoDigits
  <1>2. PICK u \in Nat, h \in Nat : p = r * u + h /\ h < r /\ u = p \div r /\ h = p % r
    BY Division
  <1>3. PICK s \in Nat \ {0} : s = r * r
    OBVIOUS
  <1>4. PICK c \in Nat \ {0} : c = s * r
    BY <1>3
  <1>5. s * h \in Nat /\ c * u \in Nat /\ s * h + low \in Nat
    OBVIOUS
  <1>6. n = c * u + (s * h + low)
    <2>1. n = s * (r * u + h) + low
      BY <1>1, <1>2, <1>3
    <2>2. r * u \in Nat
      OBVIOUS
    <2>3. s * (r * u + h) = s * (r * u) + s * h
      BY <2>2, Products
    <2>4. s * (r * u) = c * u
      BY <1>4
    <2> QED
      BY <1>5, <2>1, <2>3, <2>4
  <1>7. s * h + low < c
    <2>1. h + 1 <= r
      BY <1>2
    <2>2. s * (h + 1) <= s * r
      BY <2>1
    <2>3. low < s
      BY <1>1, <1>3
    <2>4. s * (h + 1) = s * h + s
      OBVIOUS
    <2> QED
      BY <1>4, <1>5, <2>2, <2>3, <2>4
  <1>8. n \div c = u
    BY <1>5, <1>6, <1>7, Quotient
  <1>9. u < t
    <2>1. CASE u >= t
      <3>1. c * u >= c * t
        BY <2>1
      <3>2. n < c * t
        BY <1>3, <1>4
      <3> QED
        BY <1>5, <1>6, <3>1, <3>2
    <2> QED
      BY <2>1
  <1>10. u % t = u
    BY <1>9, SmallRemainder
  <1>11. /\ (n \div (r * r * r)) % t = u /\ (n \div (r * r)) % r = h
         /\ r * r * r = c /\ r * r = s
    BY <1>1, <1>2, <1>3, <1>4, <1>8, <1>10
  <1>12. (n % r) + r * ((n \div r) % r) = low
    BY <1>1
  <1>13. low + s * h + c * u = n
    BY <1>5, <1>6
  <1> QED
    BY <1>11, <1>12, <1>13

-----------------------------------------------------------------------------
(***************************************************************************)
(* Steps of the drive.                                                     *)
(***************************************************************************)
Implements == [Device!Next]_Device!abstractVars

LEMMA InitGood == Init => Good /\ overrun = FALSE /\ Device!Init
  <1> SUFFICES ASSUME Init PROVE Good /\ overrun = FALSE /\ Device!Init
    OBVIOUS
  <1>1. DriverTypes
    BY DEF Init, DriverTypes
  <1>2. DriveTypes
    BY DEF Init, DriveTypes, Fields, Drives
  <1>3. RegistersSet /\ InStep
    BY DEF Init, RegistersSet, InStep, Setting, Serving, Identifying
  <1> QED
    BY <1>1, <1>2, <1>3 DEF Good, Init, Device!Init

LEMMA ReadyStep ==
    ASSUME Good, Ready, ~overrun'
    PROVE  Good' /\ Implements
  <1>1. /\ UNCHANGED <<kind, floating, disk, task, active, command, at, left, driverVars, ghostVars>>
        /\ state = "busy" /\ behind = {} /\ kind[active] = "ata" /\ state' = "drq"
    BY DEF Ready, Drive, ghostVars
  <1> USE DEF driverVars, ghostVars
  <1>2. DriverTypes'
    BY <1>1 DEF Good, DriverTypes, CallTypes, Setting, Serving, Identifying
  <1>3. DriveTypes'
    BY <1>1 DEF Good, DriveTypes
  <1>4. RegistersSet'
    BY <1>1 DEF Good, RegistersSet, Setting, Serving, Identifying, Set
  <1>5. InStep'
    BY <1>1 DEF Good, InStep, Serving, Identifying, There
  <1>6. Implements
    BY <1>1 DEF Implements, Device!abstractVars
  <1> QED
    BY <1>2, <1>3, <1>4, <1>5, <1>6 DEF Good

LEMMA FailsStep ==
    ASSUME Good, Fails, ~overrun'
    PROVE  Good' /\ Implements
  <1>1. /\ UNCHANGED <<kind, floating, disk, task, active, command, at, left, driverVars, overrun>>
        /\ state = "busy" /\ state' = "failed" /\ behind' = {}
        /\ command = "identify" => kind[active] # "ata"
        /\ lost' = (lost \/ (behind # {} /\ moved # <<>>))
    BY DEF Fails, Drive
  <1>2. lost \in BOOLEAN
    BY DEF Good, DriveTypes
  <1> USE DEF driverVars
  <1>3. DriverTypes'
    BY <1>1 DEF Good, DriverTypes, CallTypes, Setting, Serving, Identifying
  <1>4. DriveTypes'
    BY <1>1, <1>2 DEF Good, DriveTypes
  <1>5. RegistersSet'
    BY <1>1 DEF Good, RegistersSet, Setting, Serving, Identifying, Set
  <1>6. InStep'
    BY <1>1 DEF Good, InStep, Serving, Identifying, There
  <1>7. Implements
    <2>1. CASE behind = {}
      BY <1>1, <1>2, <2>1 DEF Implements, Device!abstractVars
    <2>2. CASE behind # {}
      <3>1. lost' = (lost \/ moved # <<>>)
        BY <1>1, <1>2, <2>2
      <3>2. Device!Lose
        BY <1>1, <2>2, <3>1 DEF Device!Lose
      <3> QED
        BY <1>1, <3>2 DEF Implements, Device!Next
    <2> QED
      BY <2>1, <2>2
  <1> QED
    BY <1>3, <1>4, <1>5, <1>6, <1>7 DEF Good

LEMMA StoresStep ==
    ASSUME Good, Stores, ~overrun'
    PROVE  Good' /\ Implements
  <1>1. /\ UNCHANGED <<kind, floating, task, active, command, at, left, driverVars, lost, overrun>>
        /\ behind # {} /\ behind' = {}
        /\ state' = IF left > 0 THEN "drq" ELSE "idle"
    BY DEF Stores, Drive
  <1>2. PICK b : behind = {b} /\ Held(b) /\ disk' = [disk EXCEPT ![b.drive][b.lba] = b.data]
    BY DEF Good, DriveTypes, Stores
  <1>3. state = "busy" /\ command = "write" /\ kind[active] = "ata" /\ left \in Nat
    BY <1>1 DEF Good, DriveTypes
  <1> USE DEF driverVars
  <1>4. disk' \in [Drives -> [0 .. Sectors - 1 -> Nat]]
    <2>1. b.drive \in Drives /\ b.lba \in 0 .. Sectors - 1 /\ b.data \in Nat
      BY <1>2 DEF Held
    <2>2. disk \in [Drives -> [0 .. Sectors - 1 -> Nat]]
      BY DEF Good, DriveTypes
    <2>3. [disk[b.drive] EXCEPT ![b.lba] = b.data] \in [0 .. Sectors - 1 -> Nat]
      BY <2>1, <2>2
    <2> QED
      BY <1>2, <2>1, <2>2, <2>3
  <1>5. DriverTypes'
    BY <1>1 DEF Good, DriverTypes, CallTypes, Setting, Serving, Identifying
  <1>6. DriveTypes'
    BY <1>1, <1>3, <1>4 DEF Good, DriveTypes
  <1>7. RegistersSet'
    BY <1>1 DEF Good, RegistersSet, Setting, Serving, Identifying, Set
  <1>8. InStep'
    BY <1>1, <1>3 DEF Good, InStep, Serving, Identifying, There
  <1>9. Device!Store
    BY <1>1, <1>2 DEF Device!Store
  <1> QED
    BY <1>1, <1>5, <1>6, <1>7, <1>8, <1>9 DEF Good, Implements, Device!Next

-----------------------------------------------------------------------------
(***************************************************************************)
(* A call, and the registers written for it.                               *)
(***************************************************************************)
LEMMA StartStep ==
    ASSUME Good, NEW c \in Requests, Start(c), CallTypes',
           \/ pc' = "float" /\ c.op = "identify"
           \/ pc' = "drive" /\ c.op # "identify"
    PROVE  Good' /\ Implements
  <1>1. /\ UNCHANGED <<kind, floating, disk, task, state, active, command, at, left,
                       reply, usable, behind, overrun>>
        /\ call' = c /\ moved' = <<>> /\ lost' = FALSE
        /\ pc = "idle" /\ pc' \in {"float", "drive"}
    BY DEF Start, driveVars
  <1>2. call' # NoCall
    BY <1>1, AtaAssumption
  <1>3. DriverTypes'
    BY <1>1, <1>2 DEF Good, DriverTypes, Setting, Serving, Identifying
  <1>4. DriveTypes'
    BY <1>1 DEF Good, DriveTypes
  <1>5. RegistersSet'
    BY <1>1 DEF RegistersSet, Setting, Serving, Identifying
  <1>6. InStep'
    BY <1>1 DEF InStep, Serving, Identifying
  <1>7. Device!Call
    BY <1>1, <1>2 DEF Good, DriverTypes, Device!Call
  <1> QED
    BY <1>1, <1>3, <1>4, <1>5, <1>6, <1>7 DEF Good, Implements, Device!Next

LEMMA CallStep ==
    ASSUME Good, Calls
    PROVE  Good' /\ Implements
  <1>1. PICK d \in Drives :
            \/ Identify(d)
            \/ \E l \in Firsts :
                   \/ \E n \in 1 .. MaxCount : ReadCall(d, l, n)
                   \/ \E w \in Writes : WriteCall(d, l, w)
    BY DEF Calls
  <1>2. CASE Identify(d)
    <2> DEFINE c == [op |-> "identify", drive |-> d, lba |-> 0, count |-> 0]
    <2>1. c \in Requests
      BY DEF Requests
    <2>2. Start(c) /\ pc' = "float"
      BY <1>2 DEF Identify
    <2>3. call' = c
      BY <2>2 DEF Start
    <2>4. CallTypes'
      BY <2>3 DEF CallTypes
    <2>5. c.op = "identify"
      OBVIOUS
    <2> HIDE DEF c
    <2> QED
      BY <2>1, <2>2, <2>4, <2>5, StartStep
  <1>3. ASSUME NEW l \in Firsts, NEW n \in 1 .. MaxCount, ReadCall(d, l, n)
        PROVE  Good' /\ Implements
    <2> DEFINE c == [op |-> "read", drive |-> d, lba |-> l, count |-> n]
    <2>1. c \in Requests
      BY DEF Requests
    <2>2. Start(c) /\ pc' = "drive" /\ d \in usable /\ l + n <= Sectors
      BY <1>3 DEF ReadCall
    <2>3. call' = c /\ usable' = usable
      BY <2>2 DEF Start
    <2>4. CallTypes'
      BY <2>2, <2>3, AtaAssumption DEF CallTypes
    <2>5. c.op # "identify"
      OBVIOUS
    <2> HIDE DEF c
    <2> QED
      BY <2>1, <2>2, <2>4, <2>5, StartStep
  <1>4. ASSUME NEW l \in Firsts, NEW w \in Writes, WriteCall(d, l, w)
        PROVE  Good' /\ Implements
    <2> DEFINE c == [op |-> "write", drive |-> d, lba |-> l, count |-> Len(w), data |-> w]
    <2>1. c \in Requests
      BY DEF Requests
    <2>2. Start(c) /\ pc' = "drive" /\ d \in usable /\ l + Len(w) <= Sectors
      BY <1>4 DEF WriteCall
    <2>3. call' = c /\ usable' = usable
      BY <2>2 DEF Start
    <2>4. w \in Seq(Nat) /\ Len(w) \in Nat /\ Len(w) >= 1
      BY AtaAssumption
    <2>5. CallTypes'
      BY <2>2, <2>3, <2>4, AtaAssumption DEF CallTypes
    <2>6. c.op # "identify"
      OBVIOUS
    <2> HIDE DEF c
    <2> QED
      BY <2>1, <2>2, <2>5, <2>6, StartStep
  <1> QED
    BY <1>1, <1>2, <1>3, <1>4

LEMMA ValueTypes ==
    ASSUME CallTypes, NEW f \in Fields
    PROVE  Value(call, f) \in Nat
  <1>1. /\ Radix \in Nat \ {0} /\ Radix * Radix \in Nat \ {0}
        /\ Radix * Radix * Radix \in Nat \ {0} /\ Top \in Nat \ {0}
    BY AtaAssumption
  <1>2. call.lba \in Nat /\ call.drive \in Nat /\ call.count \in Nat
    BY DEF CallTypes, Drives
  <1>3. /\ call.lba \div Radix \in Nat /\ call.lba \div (Radix * Radix) \in Nat
        /\ call.lba \div (Radix * Radix * Radix) \in Nat
    BY <1>1, <1>2, Division
  <1>4. /\ call.lba % Radix \in Nat /\ (call.lba \div Radix) % Radix \in Nat
        /\ (call.lba \div (Radix * Radix)) % Radix \in Nat
        /\ (call.lba \div (Radix * Radix * Radix)) % Top \in Nat
    BY <1>1, <1>2, <1>3, Division
  <1> QED
    BY <1>2, <1>4 DEF Value, Fields

LEMMA RegisterStep ==
    ASSUME Good, overrun = FALSE, WriteRegisters, ~overrun'
    PROVE  Good' /\ Implements
  <1>1. PICK r \in Registers, to \in {"lo", "count", "mid", "hi", "command"} :
            /\ WriteRegister(r, to)
            /\ r = "drive" => to = IF call.op = "identify" THEN "lo" ELSE "count"
            /\ r = "count" => to = "lo"
            /\ r = "lo" => to = "mid"
            /\ r = "mid" => to = "hi"
            /\ r = "hi" => to = "command"
    BY DEF WriteRegisters, Registers
  <1>2. ~Engaged /\ overrun' = overrun
    BY <1>1 DEF WriteRegister, Engaged
  <1>3. /\ UNCHANGED <<kind, floating, call, disk, state, active, command, at, left,
                       moved, reply, usable, behind, lost, overrun>>
        /\ pc = r /\ pc' = to
        /\ task' = [f \in Fields |-> IF f \in FieldsOf(r) THEN Value(call, f) ELSE task[f]]
    BY <1>1, <1>2 DEF WriteRegister, Driver, driveVars
  <1>4. CallTypes /\ task \in [Fields -> Nat]
    BY <1>3 DEF Good, DriverTypes, DriveTypes, Registers
  <1>5. task' \in [Fields -> Nat]
    <2>1. \A f \in Fields : Value(call, f) \in Nat /\ task[f] \in Nat
      BY <1>4, ValueTypes
    <2> QED
      BY <1>3, <2>1
  <1>6. Set(r)' /\ (r = "drive" => Set("top")')
    BY <1>3 DEF Set, FieldsOf, Fields, Registers
  <1>7. \A f \in Fields : Set(f) => Set(f)'
    BY <1>3 DEF Set
  <1>8. DriverTypes'
    BY <1>3, <1>4 DEF Good, DriverTypes, CallTypes, Setting, Serving, Identifying, Registers
  <1>9. DriveTypes'
    BY <1>3, <1>5 DEF Good, DriveTypes
  <1>10. RegistersSet'
    BY <1>1, <1>3, <1>6, <1>7
       DEF Good, RegistersSet, Setting, Serving, Identifying, Registers, Fields
  <1>11. InStep'
    BY <1>1, <1>3 DEF InStep, Serving, Identifying, Registers
  <1>12. Implements
    BY <1>3 DEF Implements, Device!abstractVars
  <1> QED
    BY <1>8, <1>9, <1>10, <1>11, <1>12 DEF Good

-----------------------------------------------------------------------------
(***************************************************************************)
(* The command, and the loop over the sectors.                             *)
(***************************************************************************)
LEMMA CommandStep ==
    ASSUME Good, overrun = FALSE, Command, ~overrun'
    PROVE  Good' /\ Implements
  <1>1. ~Engaged /\ overrun' = overrun
    BY DEF Command, Engaged
  <1>2. /\ UNCHANGED <<kind, floating, call, disk, task, moved, reply, usable, behind, lost, overrun>>
        /\ pc = "command"
        /\ pc' = IF call.op = "identify" THEN "status" ELSE "poll"
    BY <1>1 DEF Command, Driver
  <1>3. /\ CallTypes /\ task \in [Fields -> Nat]
        /\ Set("drive") /\ Set("top") /\ Set("lo") /\ Set("mid") /\ Set("hi")
        /\ call.op # "identify" => Set("count")
        /\ moved = <<>> /\ ~lost /\ behind = {}
    BY <1>1, <1>2 DEF Good, DriverTypes, DriveTypes, RegistersSet, Setting, Engaged
  <1>4. Selected = call.drive
    BY <1>3 DEF Set, Value, Selected
  <1>5. Sector(task) \in Nat
    <2>1. /\ task["lo"] \in Nat /\ task["mid"] \in Nat /\ task["hi"] \in Nat
          /\ task["top"] \in Nat /\ Radix \in Nat
      BY <1>3, AtaAssumption DEF Fields
    <2>2. /\ Radix * task["mid"] \in Nat /\ Radix * Radix * task["hi"] \in Nat
          /\ Radix * Radix * Radix * task["top"] \in Nat
      BY <2>1
    <2> QED
      BY <2>1, <2>2 DEF Sector
  <1>6. ASSUME call.op # "identify"
        PROVE  Sector(task) = call.lba
    <2>1. call.lba < Radix * Radix * Radix * Top
      <3>1. call.lba \in Nat /\ call.count >= 1 /\ call.count \in Nat /\ call.lba + call.count <= Sectors
        BY <1>3, <1>6 DEF CallTypes
      <3>2. Radix * Radix * Radix * Top \in Nat
        BY AtaAssumption
      <3> QED
        BY <3>1, <3>2, AtaAssumption
    <2>2. /\ task["lo"] = call.lba % Radix
          /\ task["mid"] = (call.lba \div Radix) % Radix
          /\ task["hi"] = (call.lba \div (Radix * Radix)) % Radix
          /\ task["top"] = (call.lba \div (Radix * Radix * Radix)) % Top
      BY <1>3 DEF Set, Value
    <2>3. call.lba \in Nat /\ Radix \in Nat \ {0} /\ Top \in Nat \ {0}
      BY <1>3, AtaAssumption DEF CallTypes
    <2>4. (call.lba % Radix) + Radix * ((call.lba \div Radix) % Radix)
              + Radix * Radix * ((call.lba \div (Radix * Radix)) % Radix)
              + Radix * Radix * Radix * ((call.lba \div (Radix * Radix * Radix)) % Top)
              = call.lba
      BY <2>1, <2>3, Digits
    <2> QED
      BY <2>2, <2>4, Zenon DEF Sector
  <1>7. call.op # "identify" => There(Selected) /\ kind[call.drive] = "ata" /\ task["count"] = call.count
    BY <1>2, <1>3, <1>4 DEF Good, DriverTypes, CallTypes, There, Set, Value
  <1>8. \/ There(Selected) /\ state' = "busy" /\ active' = call.drive /\ command' = call.op
           /\ at' = Sector(task) /\ left' = task["count"]
        \/ ~There(Selected) /\ call.op = "identify"
           /\ UNCHANGED <<state, active, command, at, left>>
    BY <1>1, <1>4, <1>7 DEF Command, driveVars
  <1>9. DriverTypes'
    BY <1>2 DEF Good, DriverTypes, CallTypes, Setting, Serving, Identifying
  <1>10. DriveTypes'
    <2>1. task["count"] \in Nat /\ call.drive \in Drives
      BY <1>3 DEF Fields, CallTypes
    <2> QED
      BY <1>2, <1>3, <1>5, <1>8, <2>1 DEF Good, DriveTypes
  <1>11. RegistersSet'
    BY <1>2, <1>3 DEF Good, RegistersSet, Setting, Serving, Identifying, Set
  <1>12. InStep'
    <2>1. CASE call.op = "identify"
      BY <1>2, <1>4, <1>8, <2>1 DEF InStep, Serving, Identifying, There
    <2>2. CASE call.op # "identify"
      <3>1. /\ call.lba \in Nat /\ call.count \in Nat /\ call.count >= 1
        BY <1>3, <2>2 DEF CallTypes
      <3>2. /\ pc' = "poll" /\ state' = "busy" /\ active' = call.drive /\ command' = call.op
            /\ at' = call.lba /\ left' = call.count
        BY <1>2, <1>6, <1>7, <1>8, <2>2
      <3>3. Len(moved') = 0
        BY <1>2, <1>3
      <3> QED
        BY <1>2, <1>3, <3>1, <3>2, <3>3 DEF InStep, Serving, Identifying
    <2> QED
      BY <2>1, <2>2
  <1>13. Implements
    BY <1>2 DEF Implements, Device!abstractVars
  <1> QED
    BY <1>9, <1>10, <1>11, <1>12, <1>13 DEF Good

(* While a transfer is served its drive is there and selected.              *)
LEMMA ServingFacts ==
    ASSUME Good, Serving
    PROVE  /\ CallTypes /\ call.op # "identify" /\ call # NoCall
           /\ ~floating /\ Selected = call.drive /\ There(Selected)
           /\ active = call.drive /\ kind[active] = "ata"
           /\ command = call.op /\ Len(moved) \in Nat
           /\ at = call.lba + Len(moved) /\ left = call.count - Len(moved) /\ left \in Nat
  <1>1. CallTypes /\ call # NoCall /\ Len(moved) \in Nat /\ left \in Nat
    BY DEF Good, DriverTypes, DriveTypes, Serving
  <1>2. call.op # "identify" /\ Selected = call.drive
    BY DEF Good, RegistersSet, Set, Value, Selected
  <1>3. kind[call.drive] = "ata" /\ call.drive \in Drives
    BY <1>1, <1>2 DEF Good, DriverTypes, CallTypes
  <1>4. ~floating /\ There(Selected)
    BY <1>2, <1>3 DEF Good, DriverTypes, There
  <1> QED
    BY <1>1, <1>2, <1>3, <1>4 DEF Good, InStep

(* A step of the driver that moves nothing.                                 *)
LEMMA PollReadyStep ==
    ASSUME Good, PollReady
    PROVE  Good' /\ Implements
  <1>1. /\ UNCHANGED <<kind, floating, call, disk, task, state, active, command, at, left,
                       moved, reply, usable, behind, lost, overrun>>
        /\ pc = "poll" /\ pc' = "move" /\ ~BSY /\ ~ERR
    BY DEF PollReady, PollDone, Driver, driveVars, ghostVars
  <1>2. Serving
    BY <1>1 DEF Serving
  <1>3. state = "drq"
    <2>1. state # "busy" /\ state # "failed"
      BY <1>1, <1>2, ServingFacts DEF BSY, ERR, Mine
    <2>2. state # "idle"
      BY <1>1, <1>2 DEF Good, InStep
    <2> QED
      BY <2>1, <2>2 DEF Good, DriveTypes
  <1>4. DriverTypes'
    BY <1>1 DEF Good, DriverTypes, CallTypes, Setting, Serving, Identifying
  <1>5. DriveTypes'
    BY <1>1 DEF Good, DriveTypes
  <1>6. RegistersSet'
    BY <1>1 DEF Good, RegistersSet, Setting, Serving, Identifying, Set
  <1>7. InStep'
    BY <1>1, <1>3 DEF Good, InStep, Serving, Identifying
  <1>8. Implements
    BY <1>1 DEF Implements, Device!abstractVars
  <1> QED
    BY <1>4, <1>5, <1>6, <1>7, <1>8 DEF Good

LEMMA WaitedNextStep ==
    ASSUME Good, WaitedNext
    PROVE  Good' /\ Implements
  <1>1. /\ UNCHANGED <<kind, floating, call, disk, task, state, active, command, at, left,
                       moved, reply, usable, behind, lost, overrun>>
        /\ pc = "wait" /\ pc' = "poll" /\ Len(moved) < call.count
    BY DEF WaitedNext, Driver, driveVars, ghostVars
  <1>2. Serving
    BY <1>1 DEF Serving
  <1>3. left > 0
    BY <1>1, <1>2, ServingFacts DEF CallTypes
  <1>4. DriverTypes'
    BY <1>1 DEF Good, DriverTypes, CallTypes, Setting, Serving, Identifying
  <1>5. DriveTypes'
    BY <1>1 DEF Good, DriveTypes
  <1>6. RegistersSet'
    BY <1>1 DEF Good, RegistersSet, Setting, Serving, Identifying, Set
  <1>7. InStep'
    BY <1>1, <1>3 DEF Good, InStep, Serving, Identifying
  <1>8. Implements
    BY <1>1 DEF Implements, Device!abstractVars
  <1> QED
    BY <1>4, <1>5, <1>6, <1>7, <1>8 DEF Good

(* At a transfer the disk has the sector the call is at.                    *)
LEMMA MoveFacts ==
    ASSUME Good, pc = "move"
    PROVE  /\ Serving /\ state = "drq" /\ DRQ /\ at < Sectors
           /\ left > 0 /\ Len(moved) < call.count
           /\ behind = {} /\ ~lost /\ at \in 0 .. Sectors - 1
  <1>1. Serving /\ state = "drq" /\ left > 0 /\ behind = {} /\ ~lost
    BY DEF Good, InStep, DriveTypes, Serving
  <1>2. DRQ
    BY <1>1, ServingFacts DEF DRQ, Mine
  <1>3. /\ Len(moved) < call.count /\ at < Sectors /\ at \in Nat
    BY <1>1, ServingFacts, AtaAssumption DEF CallTypes
  <1> QED
    BY <1>1, <1>2, <1>3, AtaAssumption

LEMMA ReadBytesStep ==
    ASSUME Good, ReadBytes
    PROVE  Good' /\ Implements
  <1>1. /\ UNCHANGED <<kind, floating, call, disk, task, active, command, reply, usable,
                       behind, lost, overrun>>
        /\ pc = "move" /\ pc' = "wait" /\ call.op = "read"
    BY DEF ReadBytes, Driver, driveVars, ghostVars
  <1>2. /\ Serving /\ state = "drq" /\ DRQ /\ at < Sectors /\ left > 0
        /\ Len(moved) < call.count /\ behind = {} /\ ~lost /\ at \in 0 .. Sectors - 1
    BY <1>1, MoveFacts
  <1>3. /\ CallTypes /\ call # NoCall /\ active = call.drive /\ command = "read"
        /\ Len(moved) \in Nat /\ at = call.lba + Len(moved)
        /\ left = call.count - Len(moved) /\ left \in Nat
    BY <1>1, <1>2, ServingFacts
  <1>4. /\ moved' = Append(moved, disk[active][at])
        /\ left' = left - 1 /\ at' = at + 1
        /\ state' = IF left > 1 THEN "busy" ELSE "idle"
    BY <1>2, <1>3 DEF ReadBytes
  <1>5. disk[active][at] \in Nat /\ moved \in Seq(Nat)
    BY <1>2 DEF Good, DriveTypes, DriverTypes
  <1>6. moved' \in Seq(Nat) /\ Len(moved') = Len(moved) + 1
    BY <1>4, <1>5
  <1>7. DriverTypes'
    BY <1>1, <1>6 DEF Good, DriverTypes, CallTypes, Setting, Serving, Identifying
  <1>8. DriveTypes'
    <2>1. behind' = {} /\ command' = "read" /\ state' \in {"busy", "idle"}
      BY <1>1, <1>2, <1>3, <1>4
    <2>2. at \in Nat /\ left \in Nat /\ left > 0
      BY <1>2, <1>3 DEF Good, DriveTypes
    <2>3. at' \in Nat /\ left' \in Nat
      BY <1>4, <2>2
    <2> QED
      BY <1>1, <2>1, <2>3 DEF Good, DriveTypes
  <1>9. RegistersSet'
    BY <1>1 DEF Good, RegistersSet, Setting, Serving, Identifying, Set
  <1>10. InStep'
    <2>1. call.count \in Nat /\ call.lba \in Nat
      BY <1>3 DEF CallTypes
    <2>2. at' = call.lba + Len(moved')
      BY <1>3, <1>4, <1>6, <2>1
    <2>3. left' = call.count - Len(moved')
      BY <1>3, <1>4, <1>6, <2>1
    <2> QED
      BY <1>1, <1>2, <1>3, <1>4, <2>2, <2>3 DEF InStep, Serving, Identifying
  <1>11. Device!ReadSector
    BY <1>1, <1>2, <1>3, <1>4 DEF Device!ReadSector, Device!At
  <1> QED
    BY <1>1, <1>7, <1>8, <1>9, <1>10, <1>11 DEF Good, Implements, Device!Next

LEMMA WriteBytesStep ==
    ASSUME Good, WriteBytes
    PROVE  Good' /\ Implements
  <1>1. /\ UNCHANGED <<kind, floating, call, disk, task, active, command, reply, usable, lost, overrun>>
        /\ pc = "move" /\ pc' = "wait" /\ call.op = "write"
    BY DEF WriteBytes, Driver, driveVars
  <1>2. /\ Serving /\ state = "drq" /\ DRQ /\ at < Sectors /\ left > 0
        /\ Len(moved) < call.count /\ behind = {} /\ ~lost /\ at \in 0 .. Sectors - 1
    BY <1>1, MoveFacts
  <1>3. /\ CallTypes /\ call # NoCall /\ active = call.drive /\ command = "write"
        /\ kind[active] = "ata"
        /\ Len(moved) \in Nat /\ at = call.lba + Len(moved)
        /\ left = call.count - Len(moved) /\ left \in Nat
    BY <1>1, <1>2, ServingFacts
  <1> DEFINE v == call.data[Len(moved) + 1]
             b == [drive |-> active, lba |-> at, data |-> v]
  <1>4. /\ moved' = Append(moved, v)
        /\ behind' = {b}
        /\ left' = left - 1 /\ at' = at + 1 /\ state' = "busy"
    BY <1>2, <1>3 DEF WriteBytes
  <1>5. v \in Nat /\ moved \in Seq(Nat) /\ active \in Drives
    <2>1. call.data \in Seq(Nat) /\ Len(call.data) = call.count /\ call.count \in Nat
      BY <1>1, <1>3 DEF CallTypes
    <2>2. Len(moved) + 1 \in 1 .. Len(call.data)
      BY <1>2, <1>3, <2>1
    <2> QED
      BY <2>1, <2>2 DEF Good, DriveTypes, DriverTypes
  <1>6. moved' \in Seq(Nat) /\ Len(moved') = Len(moved) + 1
    BY <1>4, <1>5
  <1>7. at' = at + 1 /\ left' = left - 1
    BY <1>4
  <1>8. /\ at = call.lba + Len(moved) /\ left = call.count - Len(moved)
        /\ Len(moved) \in Nat
    BY <1>3
  <1>9. DriverTypes'
    BY <1>1, <1>6 DEF Good, DriverTypes, CallTypes, Setting, Serving, Identifying
  <1>10. DriveTypes'
    <2>1. Held(b)
      BY <1>2, <1>5 DEF Held
    <2>2. left' \in Nat /\ at' \in Nat
      BY <1>2, <1>3, <1>4
    <2> HIDE DEF b
    <2>3. PICK x : x = b
      OBVIOUS
    <2>4. behind' = {x} /\ Held(x)
      BY <1>4, <2>1, <2>3
    <2>5. Held(x)'
      BY <1>1, <2>4 DEF Held
    <2>6. /\ behind' = {x} /\ state' = "busy" /\ command' = "write"
          /\ kind'[active'] = "ata"
      BY <1>1, <1>3, <1>4, <2>4
    <2> QED
      BY <1>1, <2>2, <2>5, <2>6 DEF Good, DriveTypes
  <1>11. RegistersSet'
    BY <1>1 DEF Good, RegistersSet, Setting, Serving, Identifying, Set
  <1>12. InStep'
    <2>1. call.count \in Nat /\ call.lba \in Nat
      BY <1>3 DEF CallTypes
    <2>2. at' = call.lba + Len(moved') /\ left' = call.count - Len(moved')
      <3>1. Len(moved') = Len(moved) + 1
        BY <1>6
      <3>2. PICK lba \in Nat, count \in Nat, n \in Nat :
                lba = call.lba /\ count = call.count /\ n = Len(moved)
        BY <1>8, <2>1
      <3>3. at = lba + n /\ left = count - n
        BY <1>8, <3>2, Zenon
      <3>4. at' = (lba + n) + 1 /\ left' = (count - n) - 1 /\ Len(moved') = n + 1
        BY <1>7, <3>1, <3>2, <3>3, Zenon
      <3>5. (lba + n) + 1 = lba + (n + 1) /\ (count - n) - 1 = count - (n + 1)
        BY <3>2
      <3> QED
        BY <3>2, <3>4, <3>5, Zenon
    <2>3. behind' # {}
      BY <1>4
    <2> QED
      BY <1>1, <1>2, <1>3, <1>4, <2>2, <2>3 DEF InStep, Serving, Identifying
  <1>13. Device!WriteSector
    BY <1>1, <1>2, <1>3, <1>4 DEF Device!WriteSector, Device!At
  <1> QED
    BY <1>1, <1>9, <1>10, <1>11, <1>12, <1>13 DEF Good, Implements, Device!Next

-----------------------------------------------------------------------------
(***************************************************************************)
(* A call returns what the device promises, if its code is the right one.  *)
(***************************************************************************)
RightCode(code) ==
    /\ call.op = "identify" => (code = 0 <=> kind[call.drive] = "ata")
    /\ call.op # "identify" =>
           \/ code = 0 /\ Len(moved) = call.count
           \/ code = 1 /\ Len(moved) < call.count

LEMMA ReturnStep ==
    ASSUME Good, NEW from, NEW code, Returns(from, code), from # "idle", RightCode(code),
           UNCHANGED <<active, command, at, left>>,
           state' = state \/ (state' = "idle" /\ behind = {})
    PROVE  Good' /\ Implements
  <1>1. /\ UNCHANGED <<kind, floating, disk, task, moved, behind, lost, overrun>>
        /\ pc # "idle" /\ pc' = "idle" /\ call' = NoCall /\ reply' = code
    BY DEF Returns, ghostVars
  <1>2. CallTypes /\ call # NoCall
    BY <1>1 DEF Good, DriverTypes
  <1>3. usable' \subseteq Drives /\ \A d \in usable' : kind[d] = "ata"
    <2>1. usable' = usable \cup
              {d \in Drives : call.op = "identify" /\ code = 0 /\ d = call.drive}
      BY DEF Returns
    <2> QED
      BY <2>1 DEF Good, DriverTypes, RightCode
  <1>4. DriverTypes'
    BY <1>1, <1>3 DEF Good, DriverTypes
  <1>5. DriveTypes'
    BY <1>1 DEF Good, DriveTypes
  <1>6. RegistersSet' /\ InStep'
    BY <1>1 DEF RegistersSet, InStep, Setting, Serving, Identifying
  <1>7. Device!Return
    BY <1>1, <1>2 DEF Device!Return, RightCode
  <1> QED
    BY <1>1, <1>4, <1>5, <1>6, <1>7 DEF Good, Implements, Device!Next

LEMMA PollErrorStep ==
    ASSUME Good, PollError
    PROVE  Good' /\ Implements
  <1>1. /\ Returns("poll", 1) /\ UNCHANGED <<active, command, at, left>> /\ state' = state
        /\ pc = "poll"
    BY DEF PollError, Returns, driveVars
  <1>2. Serving
    BY <1>1 DEF Serving
  <1>3. left > 0
    BY <1>1 DEF Good, InStep
  <1>4. RightCode(1)
    BY <1>2, <1>3, ServingFacts DEF RightCode, CallTypes
  <1> QED
    BY <1>1, <1>4, ReturnStep

LEMMA WaitedLastStep ==
    ASSUME Good, WaitedLast
    PROVE  Good' /\ Implements
  <1>1. /\ Returns("wait", 0) /\ UNCHANGED <<active, command, at, left>> /\ state' = state
        /\ pc = "wait" /\ Len(moved) >= call.count
    BY DEF WaitedLast, Returns, driveVars
  <1>2. Serving
    BY <1>1 DEF Serving
  <1>3. Len(moved) = call.count
    BY <1>1, <1>2, ServingFacts DEF CallTypes
  <1>4. RightCode(0)
    BY <1>2, <1>3, ServingFacts DEF RightCode
  <1> QED
    BY <1>1, <1>4, ReturnStep

-----------------------------------------------------------------------------
(***************************************************************************)
(* identify_ata.                                                           *)
(***************************************************************************)
LEMMA NotFloatingStep ==
    ASSUME Good, NotFloating
    PROVE  Good' /\ Implements
  <1>1. /\ UNCHANGED <<kind, floating, call, disk, task, state, active, command, at, left,
                       moved, reply, usable, behind, lost, overrun>>
        /\ pc = "float" /\ pc' = "drive" /\ ~floating
    BY DEF NotFloating, Driver, driveVars, ghostVars
  <1>2. DriverTypes'
    BY <1>1 DEF Good, DriverTypes, CallTypes, Setting, Serving, Identifying
  <1>3. DriveTypes'
    BY <1>1 DEF Good, DriveTypes
  <1>4. RegistersSet' /\ InStep'
    BY <1>1 DEF Good, RegistersSet, InStep, Setting, Serving, Identifying, Set
  <1>5. Implements
    BY <1>1 DEF Implements, Device!abstractVars
  <1> QED
    BY <1>2, <1>3, <1>4, <1>5 DEF Good

LEMMA FloatingStep ==
    ASSUME Good, Floating
    PROVE  Good' /\ Implements
  <1>1. /\ Returns("float", 1) /\ UNCHANGED <<active, command, at, left>> /\ state' = state
        /\ pc = "float" /\ floating
    BY DEF Floating, Returns, driveVars
  <1>2. call.op = "identify" /\ call.drive \in Drives
    BY <1>1 DEF Good, DriverTypes, RegistersSet, CallTypes
  <1>3. kind[call.drive] = "none"
    BY <1>1, <1>2 DEF Good, DriverTypes
  <1>4. RightCode(1)
    BY <1>2, <1>3 DEF RightCode
  <1> QED
    BY <1>1, <1>4, ReturnStep

LEMMA IdentifyingFacts ==
    ASSUME Good, Identifying
    PROVE  /\ call.op = "identify" /\ call.drive \in Drives /\ ~floating
           /\ Selected = call.drive /\ pc # "idle"
           /\ There(Selected) =>
                  active = Selected /\ command = "identify"
                  /\ state \in {"busy", "drq", "failed"}
  <1>1. pc \in {"status", "identifying"}
    BY DEF Identifying
  <1>2. call.op = "identify" /\ ~floating /\ Set("drive") /\ call.drive \in Drives
    BY <1>1 DEF Good, RegistersSet, Identifying, DriverTypes, CallTypes
  <1>3. Selected = call.drive
    BY <1>2 DEF Set, Value, Selected
  <1> QED
    BY <1>1, <1>2, <1>3 DEF Good, InStep

LEMMA StatusSetStep ==
    ASSUME Good, StatusSet
    PROVE  Good' /\ Implements
  <1>1. /\ UNCHANGED <<kind, floating, call, disk, task, state, active, command, at, left,
                       moved, reply, usable, behind, lost, overrun>>
        /\ pc = "status" /\ pc' = "identifying" /\ There(Selected)
    BY DEF StatusSet, Driver, driveVars, ghostVars
  <1>2. Identifying
    BY <1>1 DEF Identifying
  <1>3. There(call.drive)
    BY <1>1, <1>2, IdentifyingFacts
  <1>4. DriverTypes'
    BY <1>1 DEF Good, DriverTypes, CallTypes, Setting, Serving, Identifying
  <1>5. DriveTypes'
    BY <1>1 DEF Good, DriveTypes
  <1>6. RegistersSet'
    BY <1>1 DEF Good, RegistersSet, Setting, Serving, Identifying, Set
  <1>7. InStep'
    BY <1>1, <1>3 DEF Good, InStep, Serving, Identifying, There
  <1>8. Implements
    BY <1>1 DEF Implements, Device!abstractVars
  <1> QED
    BY <1>4, <1>5, <1>6, <1>7, <1>8 DEF Good

LEMMA IdentifyReturns ==
    ASSUME Good, StatusZero \/ OtherDevice \/ IdentifyError \/ ReadWords
    PROVE  Good' /\ Implements
  <1>1. CASE StatusZero
    <2>1. /\ Returns("status", 4) /\ UNCHANGED <<active, command, at, left>> /\ state' = state
          /\ pc = "status" /\ ~There(Selected)
      BY <1>1 DEF StatusZero, Returns, driveVars
    <2>2. Identifying
      BY <2>1 DEF Identifying
    <2>3. RightCode(4)
      BY <2>1, <2>2, IdentifyingFacts DEF RightCode, There
    <2> QED
      BY <2>1, <2>3, ReturnStep
  <1>2. CASE OtherDevice
    <2>1. /\ Returns("identifying", 2) /\ UNCHANGED <<active, command, at, left>> /\ state' = state
          /\ pc = "identifying" /\ kind[Selected] = "atapi"
      BY <1>2 DEF OtherDevice, Returns, driveVars
    <2>2. Identifying
      BY <2>1 DEF Identifying
    <2>3. RightCode(2)
      BY <2>1, <2>2, IdentifyingFacts DEF RightCode
    <2> QED
      BY <2>1, <2>3, ReturnStep
  <1>3. CASE IdentifyError
    <2>1. /\ Returns("identifying", 3) /\ UNCHANGED <<active, command, at, left>> /\ state' = state
          /\ pc = "identifying" /\ ERR
      BY <1>3 DEF IdentifyError, Returns, driveVars
    <2>2. Identifying
      BY <2>1 DEF Identifying
    <2>3. There(Selected) /\ Selected = active /\ state = "failed"
      BY <2>1, <2>2, IdentifyingFacts DEF ERR, Mine
    <2>4. kind[call.drive] # "ata"
      BY <2>2, <2>3, IdentifyingFacts DEF Good, DriveTypes
    <2>5. RightCode(3)
      BY <2>2, <2>4, IdentifyingFacts DEF RightCode
    <2> QED
      BY <2>1, <2>5, ReturnStep
  <1>4. CASE ReadWords
    <2>1. /\ Returns("identifying", 0) /\ UNCHANGED <<active, command, at, left>>
          /\ pc = "identifying" /\ DRQ /\ state' = "idle"
      BY <1>4 DEF ReadWords, Returns
    <2>2. Identifying
      BY <2>1 DEF Identifying
    <2>3. There(Selected) /\ Selected = active /\ state = "drq"
      BY <2>1, <2>2, IdentifyingFacts DEF DRQ, Mine
    <2>4. kind[call.drive] = "ata" /\ behind = {}
      BY <2>2, <2>3, IdentifyingFacts DEF Good, DriveTypes
    <2>5. RightCode(0)
      BY <2>2, <2>4, IdentifyingFacts DEF RightCode
    <2> QED
      BY <2>1, <2>4, <2>5, ReturnStep
  <1> QED
    BY <1>1, <1>2, <1>3, <1>4

-----------------------------------------------------------------------------
(***************************************************************************)
(* Every step keeps the invariant and is one the device promises.          *)
(***************************************************************************)
LEMMA GoodStep ==
    ASSUME Good, overrun = FALSE, Next, ~overrun'
    PROVE  Good' /\ Implements
  <1>1. CASE DriveStep
    BY <1>1, ReadyStep, FailsStep, StoresStep DEF DriveStep
  <1>2. CASE DriverStep
    BY <1>2, RegisterStep, CommandStep, PollReadyStep, PollErrorStep, ReadBytesStep,
       WriteBytesStep, WaitedNextStep, WaitedLastStep, NotFloatingStep, FloatingStep,
       StatusSetStep, IdentifyReturns
       DEF DriverStep
  <1>3. CASE Calls
    BY <1>3, CallStep
  <1> QED
    BY <1>1, <1>2, <1>3 DEF Next

(* What overran stays so.                                                   *)
LEMMA OverrunStays ==
    ASSUME overrun \in BOOLEAN, Next
    PROVE  overrun' \in BOOLEAN /\ (overrun => overrun')
  <1>1. UNCHANGED overrun \/ overrun' = (overrun \/ Engaged)
    <2>1. CASE DriveStep
      BY <2>1 DEF DriveStep, Ready, Fails, Stores, Drive
    <2>2. CASE DriverStep
      BY <2>2 DEF DriverStep, WriteRegisters, WriteRegister, Command, PollReady, PollError,
         ReadBytes, WriteBytes, WaitedNext, WaitedLast, NotFloating, Floating, StatusZero,
         StatusSet, OtherDevice, IdentifyError, ReadWords, Returns, ghostVars
    <2>3. CASE Calls
      BY <2>3 DEF Calls, Identify, ReadCall, WriteCall, Start
    <2> QED
      BY <2>1, <2>2, <2>3 DEF Next
  <1>2. Engaged \in BOOLEAN
    BY DEF Engaged
  <1> QED
    BY <1>1, <1>2

LEMMA StutterGood ==
    ASSUME GoodUntilOverrun, UNCHANGED vars
    PROVE  GoodUntilOverrun'
  BY DEF GoodUntilOverrun, Good, DriverTypes, DriveTypes, RegistersSet, InStep, CallTypes,
     Setting, Serving, Identifying, Set, There, vars, driveVars, driverVars, ghostVars

(***************************************************************************)
(* ata_pio_read and ata_pio_write move, in order, the sectors they are     *)
(* asked for and no others, a read returns what the disk holds, a failure  *)
(* of all but the last sector of a write is returned, and ata_init         *)
(* registers exactly the drives that are plain disks (ata.c:18 to 187), as *)
(* long as the driver speaks to no drive that is busy or waits for data.   *)
(***************************************************************************)
THEOREM AtaPioIsADevice == Spec => ImplementsSectorDevice
  <1>1. Init => GoodUntilOverrun /\ Device!Init
    BY InitGood DEF GoodUntilOverrun
  <1>2. GoodUntilOverrun /\ [Next]_vars =>
            GoodUntilOverrun' /\ [Device!Promised]_Device!abstractVars
    <2> SUFFICES ASSUME GoodUntilOverrun, [Next]_vars
                 PROVE  GoodUntilOverrun' /\ [Device!Promised]_Device!abstractVars
      OBVIOUS
    <2>1. CASE UNCHANGED vars
      BY <2>1, StutterGood DEF vars, ghostVars, driverVars, Device!abstractVars
    <2>2. CASE Next /\ overrun'
      BY <2>2, OverrunStays DEF GoodUntilOverrun, Device!Promised
    <2>3. CASE Next /\ ~overrun'
      <3>1. overrun = FALSE /\ overrun' \in BOOLEAN
        BY <2>3, OverrunStays DEF GoodUntilOverrun
      <3>2. Good' /\ Implements
        BY <2>3, <3>1, GoodStep DEF GoodUntilOverrun
      <3> QED
        BY <3>1, <3>2 DEF GoodUntilOverrun, Implements, Device!Promised
    <2> QED
      BY <2>1, <2>2, <2>3
  <1> QED
    BY <1>1, <1>2, PTL DEF Spec, ImplementsSectorDevice, Device!Spec
=============================================================================
