---------------------------- MODULE FloppyProofs ----------------------------
(***************************************************************************)
(* Floppy: that the driver and the controller never get out of step when   *)
(* the transfers go by DMA, and that a call that returns 0 has moved its   *)
(* sectors, for every geometry, any requests and any number of calls and   *)
(* tries.                                                                  *)
(***************************************************************************)
EXTENDS Floppy, SequenceTheorems, TLAPS

Commands == [dir : {"read", "write"}, cylinder : Int, head : Int, sector : Int, final : Int]

(* the types of what the handshake depends on                              *)
HandshakeTypes ==
    /\ mode \in {"dma", "pio"}
    /\ pc \in {"idle", "turn", "seek", "command", "wait", "reset", "sense", "reply", "poll"}
    /\ stage \in {"seek0", "seek1", "transfer"}
    /\ phase \in {"idle", "busy", "result"}
    /\ call \in [dir : {"read", "write"}, sectors : Int, lba : Int]
    /\ seg \in [cylinder : Int, head : Int, sector : Int, sectors : Int, final : Int]
    /\ command \in Commands
    /\ total \in Int /\ track \in Int
    /\ seeking \subseteq Int /\ sensed \subseteq Int
    /\ reply \in Seq(Int) /\ out \in Seq(Int)
    /\ phase = "result" <=> out # <<>>

(* nothing under way, no interrupt to come and none to sense               *)
Quiet == phase = "idle" /\ seeking = {} /\ sensed = {} /\ floppy_dma_waiting = 1

Seeking == phase = "idle" /\ seeking # {} /\ sensed = {} /\ floppy_dma_waiting = 1
Sought  == phase = "idle" /\ seeking = {} /\ sensed # {} /\ floppy_dma_waiting = 0
Moving  == phase = "busy" /\ seeking = {} /\ sensed = {} /\ floppy_dma_waiting = 1
Moved   == phase = "result" /\ seeking = {} /\ sensed = {} /\ floppy_dma_waiting = 0
           /\ Len(out) = 7

(* where the driver is, and what the controller then does: the flag is     *)
(* clear exactly while an interrupt has not been waited for                 *)
InStep ==
    /\ pc # "poll"
    /\ pc \in {"idle", "turn", "seek", "command"} => Quiet
    /\ pc = "seek" => stage # "transfer"
    /\ pc = "command" => stage = "transfer"
    /\ pc = "wait" /\ stage # "transfer" => Seeking \/ Sought
    /\ pc = "wait" /\ stage = "transfer" => Moving \/ Moved
    /\ pc = "reset" => IF stage = "transfer" THEN Moved ELSE Sought
    /\ pc = "sense" => /\ stage # "transfer" /\ phase = "idle" /\ seeking = {}
                       /\ sensed # {} /\ floppy_dma_waiting = 1
    /\ pc = "reply" => /\ phase # "busy" /\ seeking = {} /\ sensed = {}
                       /\ floppy_dma_waiting = 1
                       /\ Len(reply) + Len(out) = Asked
    /\ pc # "reply" => reply = <<>>

HInv == HandshakeTypes /\ (mode = "dma" /\ ~stray => InStep)

-----------------------------------------------------------------------------
(***************************************************************************)
(* Types.                                                                  *)
(***************************************************************************)
LEMMA ChsTypes ==
    ASSUME NEW lba \in Int
    PROVE  lba_2_chs(lba) \in [cylinder : Int, head : Int, sector : Int]
  <1> DEFINE t == sectors_per_track
  <1>1. t \in Nat \ {0} /\ 2 * t \in Nat \ {0}
    BY FloppyAssumption
  <1>2. lba \div (2 * t) \in Int /\ lba % (2 * t) \in Int
    BY <1>1
  <1>3. (lba % (2 * t)) \div t \in Int /\ (lba % (2 * t)) % t \in Int
    BY <1>1, <1>2
  <1> QED
    BY <1>1, <1>2, <1>3 DEF lba_2_chs

LEMMA InitTypes == Init => HandshakeTypes
  <1> SUFFICES ASSUME Init PROVE HandshakeTypes
    OBVIOUS
  <1>1. /\ mode \in {"dma", "pio"} /\ pc = "idle" /\ stage = "seek0" /\ phase = "idle"
        /\ call = [dir |-> "read", sectors |-> 0, lba |-> 0]
        /\ seg = [cylinder |-> 0, head |-> 0, sector |-> 1, sectors |-> 0, final |-> 0]
        /\ total = 0 /\ track = 0 /\ seeking = {} /\ sensed = {}
        /\ reply = <<>> /\ out = <<>>
    BY DEF Init
  <1>2. command = [dir |-> "read", cylinder |-> 0, head |-> 0, sector |-> 1, final |-> 0]
    BY DEF Init
  <1>3. seg \in [cylinder : Int, head : Int, sector : Int, sectors : Int, final : Int]
    BY <1>1
  <1>4. command \in Commands
    BY <1>2 DEF Commands
  <1>5. call \in [dir : {"read", "write"}, sectors : Int, lba : Int]
    BY <1>1
  <1> QED
    BY <1>1, <1>3, <1>4, <1>5 DEF HandshakeTypes

LEMMA CallTypes ==
    ASSUME HandshakeTypes, NEW dir \in {"read", "write"}, Call(dir)
    PROVE  HandshakeTypes'
  <1>1. PICK r \in Requests : call' = [dir |-> dir, sectors |-> r[1], lba |-> r[2]]
    BY DEF Call
  <1>2. r[1] \in Int /\ r[2] \in Int
    BY FloppyAssumption
  <1>3. call' \in [dir : {"read", "write"}, sectors : Int, lba : Int]
    BY <1>1, <1>2
  <1>4. /\ total' = 0 /\ pc' = "turn"
        /\ UNCHANGED <<mode, stage, seg, reply, phase, out, command, seeking, track, sensed>>
    BY DEF Call, config, controller
  <1> QED
    BY <1>3, <1>4 DEF HandshakeTypes, Commands

LEMMA TurnTypes ==
    ASSUME HandshakeTypes, Turn
    PROVE  HandshakeTypes'
  <1>1. \E n \in Int : NextTurn(n)
    <2>1. Left \in Int /\ Least(Left, MaxSegment) \in Int /\ Least(Left, sectors_per_track) \in Int
      BY FloppyAssumption DEF HandshakeTypes, Left, Least
    <2> QED
      BY <2>1 DEF Turn, ReadTurnDma, WriteTurnDma, ReadTurnPio, WriteTurnPio
  <1>2. PICK n \in Int : NextTurn(n)
    BY <1>1
  <1>3. lba_2_chs(call.lba + total) \in [cylinder : Int, head : Int, sector : Int]
    <2>1. call.lba + total \in Int
      BY DEF HandshakeTypes
    <2> QED
      BY <2>1, ChsTypes
  <1>4. Final(n, lba_2_chs(call.lba + total).sector) \in Int
    BY <1>3, FloppyAssumption DEF Final, Least
  <1>5. seg' \in [cylinder : Int, head : Int, sector : Int, sectors : Int, final : Int]
    BY <1>2, <1>3, <1>4 DEF NextTurn
  <1>6. pc' \in {"seek", "command"} /\ stage' \in {"seek0", "transfer"}
    BY DEF Turn, ReadTurnDma, WriteTurnDma, ReadTurnPio, WriteTurnPio
  <1>7. /\ reply' = <<>>
        /\ UNCHANGED <<mode, call, total, phase, out, command, seeking, track, sensed>>
    BY <1>2 DEF NextTurn, config, controller
  <1> QED
    BY <1>5, <1>6, <1>7 DEF HandshakeTypes

LEMMA EndTypes ==
    ASSUME HandshakeTypes, Done \/ NoDriveDma \/ NoDrivePio
    PROVE  HandshakeTypes'
  <1>1. /\ pc' \in {pc, "idle"}
        /\ UNCHANGED <<mode, stage, call, seg, reply, phase, out, command, seeking, track, sensed>>
    BY DEF Done, NoDriveDma, NoDrivePio, Returns, config, controller
  <1>2. total' \in Int
    BY DEF HandshakeTypes, Done, NoDriveDma, NoDrivePio
  <1> QED
    BY <1>1, <1>2 DEF HandshakeTypes

LEMMA SendTypes ==
    ASSUME HandshakeTypes, SendSeek \/ TrackCommand \/ PioCommand \/ Wait
    PROVE  HandshakeTypes'
  <1>1. CASE SendSeek
    BY <1>1 DEF HandshakeTypes, SendSeek, config
  <1>2. CASE TrackCommand \/ PioCommand
    <2>1. command' \in Commands
      BY <1>2 DEF HandshakeTypes, TrackCommand, PioCommand, SendCommand, Commands
    <2>2. /\ phase' = phase \/ (phase = "idle" /\ phase' = "busy")
          /\ pc' \in {"wait", "poll"}
          /\ UNCHANGED <<mode, call, total, seg, stage, reply, out, seeking, track, sensed>>
      BY <1>2 DEF TrackCommand, PioCommand, SendCommand, config
    <2> QED
      BY <2>1, <2>2 DEF HandshakeTypes
  <1>3. CASE Wait
    BY <1>3 DEF HandshakeTypes, Wait, floppy_wait, AfterWait, config, controller
  <1> QED
    BY <1>1, <1>2, <1>3

LEMMA SenseTypes ==
    ASSUME HandshakeTypes, Sense
    PROVE  HandshakeTypes'
  <1>1. CASE phase = "idle"
    <2>1. PICK x \in Int : out' = <<128>> \/ out' = <<x, track>>
      BY <1>1 DEF HandshakeTypes, Sense
    <2>2. \A y \in Int : /\ <<128>> \in Seq(Int) /\ <<128>> # <<>>
                         /\ <<x, y>> \in Seq(Int) /\ <<x, y>> # <<>>
      OBVIOUS
    <2>3. out' \in Seq(Int) /\ out' # <<>>
      BY <2>1, <2>2 DEF HandshakeTypes
    <2> QED
      BY <1>1, <2>3 DEF HandshakeTypes, Sense, config
  <1>2. CASE phase # "idle"
    BY <1>2 DEF HandshakeTypes, Sense, config
  <1> QED
    BY <1>1, <1>2

(* floppy_read_data takes a byte of the result, or what the register gives *)
LEMMA ReadTypes ==
    ASSUME HandshakeTypes, ReadData
    PROVE  HandshakeTypes'
  <1>0. UNCHANGED <<mode, pc, call, total, seg, stage, command, seeking, track, sensed>>
    BY DEF ReadData, config
  <1>1. CASE phase = "result"
    <2>1. reply' = Append(reply, Head(out)) /\ out' = Tail(out)
          /\ phase' = IF Len(out) = 1 THEN "idle" ELSE phase
      BY <1>1 DEF ReadData
    <2>2. out \in Seq(Int) /\ out # <<>> /\ reply \in Seq(Int)
      BY <1>1 DEF HandshakeTypes
    <2>3. Head(out) \in Int /\ Tail(out) \in Seq(Int) /\ Len(Tail(out)) = Len(out) - 1
      BY <2>2
    <2>4. reply' \in Seq(Int) /\ out' \in Seq(Int)
      BY <2>1, <2>2, <2>3
    <2>5. out' = <<>> <=> Len(out) = 1
      <3>1. Tail(out) = <<>> <=> Len(Tail(out)) = 0
        BY <2>3, EmptySeq
      <3>2. PICK m \in Nat : m = Len(out)
        BY <2>2
      <3>3. PICK q : q = Len(Tail(out)) /\ q = m - 1
        BY <2>3, <3>2
      <3>4. q = 0 <=> m = 1
        BY <3>2, <3>3
      <3> QED
        BY <2>1, <3>1, <3>2, <3>3, <3>4, Zenon
    <2> QED
      BY <1>0, <1>1, <2>1, <2>4, <2>5 DEF HandshakeTypes
  <1>2. CASE phase # "result"
    <2>1. PICK x \in Int : reply' = Append(reply, x) /\ UNCHANGED <<out, phase>>
      BY <1>2, FloppyAssumption DEF ReadData
    <2>2. reply' \in Seq(Int)
      BY <2>1 DEF HandshakeTypes
    <2> QED
      BY <1>0, <2>1, <2>2 DEF HandshakeTypes
  <1> QED
    BY <1>1, <1>2

LEMMA PollTypes ==
    ASSUME HandshakeTypes, PollEnds
    PROVE  HandshakeTypes'
  BY DEF HandshakeTypes, PollEnds, config, controller

LEMMA ReplyTypes ==
    ASSUME HandshakeTypes, SeekDone \/ TrackDone
    PROVE  HandshakeTypes'
  <1>1. CASE SeekDone
    <2>1. /\ reply' = <<>> /\ UNCHANGED total
          /\ pc' \in {"idle", "seek", "command"} /\ stage' \in {stage, "seek1", "transfer"}
      BY <1>1 DEF SeekDone, Retry, Returns
    <2>2. UNCHANGED <<mode, call, seg, phase, out, command, seeking, track, sensed>>
      BY <1>1 DEF SeekDone, config, controller
    <2> QED
      BY <2>1, <2>2 DEF HandshakeTypes
  <1>2. CASE TrackDone
    <2>1. reply' = <<>> /\ total' \in {total, total + seg_read} /\ UNCHANGED stage
      BY <1>2 DEF TrackDone, Retry
    <2>2. pc' \in {"turn", "idle", "command"}
      BY <1>2 DEF TrackDone, Retry, Returns
    <2>3. UNCHANGED <<mode, call, seg, phase, out, command, seeking, track, sensed>>
      BY <1>2 DEF TrackDone, config, controller
    <2>4. total' \in Int
      BY <2>1 DEF HandshakeTypes, seg_read
    <2> QED
      BY <2>1, <2>2, <2>3, <2>4 DEF HandshakeTypes
  <1> QED
    BY <1>1, <1>2

LEMMA ControllerTypes ==
    ASSUME HandshakeTypes, Controller
    PROVE  HandshakeTypes'
  <1>1. CASE SeekEnds
    <2>1. track' \in Int /\ sensed' \subseteq Int /\ seeking' = {}
      BY <1>1 DEF SeekEnds, HandshakeTypes
    <2> QED
      BY <1>1, <2>1 DEF SeekEnds, HandshakeTypes, config, driver
  <1>2. CASE MoveByDma \/ MoveByPio
    <2>1. command' \in Commands
      <3>1. command \in Commands /\ command' = NextSector
        BY <1>2 DEF MoveByDma, MoveByPio, HandshakeTypes
      <3>2. \A c \in Commands : \A n \in Int : /\ [c EXCEPT !.head = n] \in Commands
                                              /\ [c EXCEPT !.sector = n] \in Commands
        BY DEF Commands
      <3>3. PICK n \in Int : n = command.sector + 1
        BY <3>1 DEF Commands
      <3>4. \/ command' = [[command EXCEPT !.head = 1] EXCEPT !.sector = 1]
            \/ command' = [command EXCEPT !.sector = n]
        BY <3>1, <3>3 DEF NextSector, Commands
      <3>5. [[command EXCEPT !.head = 1] EXCEPT !.sector = 1] \in Commands
        <4> DEFINE c == [command EXCEPT !.head = 1]
        <4>1. c \in Commands
          BY <3>1 DEF Commands
        <4> HIDE DEF c
        <4>2. [c EXCEPT !.sector = 1] \in Commands
          BY <4>1 DEF Commands
        <4> QED
          BY <4>2 DEF c
      <3>6. [command EXCEPT !.sector = n] \in Commands
        BY <3>1, <3>2
      <3> QED
        BY <3>4, <3>5, <3>6
    <2>2. UNCHANGED <<mode, pc, stage, phase, call, seg, total, track, seeking, sensed, reply, out>>
      BY <1>2 DEF MoveByDma, MoveByPio, config, driver
    <2> QED
      BY <2>1, <2>2 DEF HandshakeTypes
  <1>3. CASE Finish
    <2>1. PICK a \in Int, b \in Int : out' = Result(a, b)
      BY <1>3 DEF Finish
    <2>2. command.cylinder \in Int /\ command.head \in Int /\ command.sector \in Int
      BY DEF HandshakeTypes, Commands
    <2>3. out' \in Seq(Int) /\ out' # <<>>
      BY <2>1, <2>2 DEF Result
    <2> QED
      BY <1>3, <2>3 DEF Finish, HandshakeTypes, config, driver
  <1> QED
    BY <1>1, <1>2, <1>3 DEF Controller

-----------------------------------------------------------------------------
(***************************************************************************)
(* The driver and the controller in step: one lemma for each side's steps. *)
(***************************************************************************)
Dma == mode = "dma" /\ ~stray

LEMMA InitInStep == Init /\ Dma => InStep
  <1>1. Init /\ Dma => pc = "idle" /\ Quiet /\ reply = <<>>
    BY DEF Init, Dma, Quiet
  <1> QED
    BY <1>1 DEF InStep

LEMMA CallInStep ==
    ASSUME HandshakeTypes, Dma, InStep, NEW dir \in {"read", "write"}, Call(dir)
    PROVE  InStep'
  <1>1. pc = "idle" /\ pc' = "turn" /\ UNCHANGED <<reply, floppy_dma_waiting, phase, seeking, sensed>>
    BY DEF Call, controller
  <1> QED
    BY <1>1 DEF InStep, Quiet

LEMMA TurnInStep ==
    ASSUME HandshakeTypes, Dma, InStep, Turn
    PROVE  InStep'
  <1>1. /\ pc = "turn" /\ pc' = "seek" /\ stage' = "seek0" /\ reply' = <<>>
        /\ UNCHANGED <<floppy_dma_waiting, phase, seeking, sensed>>
    BY DEF Turn, ReadTurnDma, WriteTurnDma, ReadTurnPio, WriteTurnPio, Dma, NextTurn, controller
  <1> QED
    BY <1>1 DEF InStep, Quiet

LEMMA EndInStep ==
    ASSUME HandshakeTypes, Dma, InStep, Done \/ NoDriveDma \/ NoDrivePio
    PROVE  InStep'
  <1>1. /\ pc = "turn" /\ pc' = "idle"
        /\ UNCHANGED <<reply, floppy_dma_waiting, phase, seeking, sensed>>
    BY DEF Done, NoDriveDma, NoDrivePio, Returns, Dma, controller
  <1> QED
    BY <1>1 DEF InStep, Quiet

LEMMA SendInStep ==
    ASSUME HandshakeTypes, Dma, InStep, SendSeek \/ TrackCommand \/ PioCommand
    PROVE  InStep'
  <1>1. CASE SendSeek
    <2>1. /\ pc = "seek" /\ pc' = "wait" /\ Quiet /\ stage' # "transfer" /\ reply' = <<>>
          /\ seeking' = {seg.cylinder} /\ UNCHANGED <<floppy_dma_waiting, phase, sensed>>
      BY <1>1 DEF SendSeek, InStep, Quiet
    <2> QED
      BY <2>1 DEF InStep, Quiet, Seeking
  <1>2. CASE TrackCommand \/ PioCommand
    <2>1. /\ pc = "command" /\ pc' = "wait" /\ Quiet /\ stage' = "transfer" /\ reply' = <<>>
          /\ phase' = "busy" /\ UNCHANGED <<floppy_dma_waiting, seeking, sensed>>
      BY <1>2 DEF TrackCommand, PioCommand, SendCommand, InStep, Quiet, Dma
    <2> QED
      BY <2>1 DEF InStep, Quiet, Moving
  <1> QED
    BY <1>1, <1>2

(* the wait can only end when the flag was cleared by the command's own     *)
(* interrupt, so nothing is under way when the flag is set again            *)
LEMMA WaitInStep ==
    ASSUME HandshakeTypes, Dma, InStep, Wait
    PROVE  InStep'
  <1>1. UNCHANGED <<stage, reply, out, phase, seeking, sensed>>
    BY DEF Wait, controller
  <1>2. CASE pc = "wait"
    <2>1. floppy_dma_waiting = 0 /\ pc' = "reset" /\ UNCHANGED floppy_dma_waiting
      BY <1>2 DEF Wait, floppy_wait
    <2>2. reply = <<>> /\ (IF stage = "transfer" THEN Moved ELSE Sought)
      BY <1>2, <2>1 DEF InStep, Seeking, Moving
    <2> QED
      BY <1>1, <2>1, <2>2 DEF InStep, Moved, Sought
  <1>3. CASE pc = "reset"
    <2>1. floppy_dma_waiting' = 1 /\ pc' = AfterWait
      BY <1>3 DEF Wait, floppy_wait
    <2>2. reply = <<>> /\ (IF stage = "transfer" THEN Moved ELSE Sought)
      BY <1>3 DEF InStep
    <2>3. CASE stage = "transfer"
      <3>1. Len(reply) + Len(out) = 7
        BY <2>2, <2>3 DEF Moved, HandshakeTypes
      <3> QED
        BY <1>1, <2>1, <2>2, <2>3, <3>1 DEF InStep, AfterWait, Asked, Moved
    <2>4. CASE stage # "transfer"
      BY <1>1, <2>1, <2>2, <2>4 DEF InStep, AfterWait, Sought
    <2> QED
      BY <2>3, <2>4
  <1> QED
    BY <1>2, <1>3 DEF Wait, floppy_wait

LEMMA SenseInStep ==
    ASSUME HandshakeTypes, Dma, InStep, Sense
    PROVE  InStep'
  <1>1. /\ pc = "sense" /\ pc' = "reply" /\ stage # "transfer" /\ stage' = stage
        /\ seeking' = {} /\ sensed' = {} /\ floppy_dma_waiting' = 1
        /\ phase' = "result" /\ reply' = <<>>
    BY DEF Sense, InStep
  <1>2. PICK x \in Int : out' = <<x, track>>
    BY DEF Sense, InStep, HandshakeTypes
  <1>3. Len(out') = 2
    BY <1>2
  <1>4. Len(reply') + Len(out') = 2
    BY <1>1, <1>3
  <1> QED
    BY <1>1, <1>4 DEF InStep, Asked

(* while bytes are asked for, the controller has one to give: neither the   *)
(* zeros of a busy controller nor what an idle one gives is ever read       *)
LEMMA ReadInStep ==
    ASSUME HandshakeTypes, Dma, InStep, ReadData
    PROVE  InStep'
  <1>1. /\ pc = "reply" /\ pc' = "reply" /\ Len(reply) < Asked /\ Asked' = Asked
        /\ UNCHANGED <<stage, seeking, sensed, floppy_dma_waiting>>
    BY DEF ReadData, Asked
  <1>2. /\ Len(reply) + Len(out) = Asked /\ phase # "busy" /\ seeking = {} /\ sensed = {}
        /\ floppy_dma_waiting = 1
    BY <1>1 DEF InStep
  <1>3. reply \in Seq(Int) /\ out \in Seq(Int) /\ Asked \in Int
    BY DEF HandshakeTypes, Asked
  <1>4. out # <<>> /\ phase = "result"
    <2>1. out # <<>>
      BY <1>1, <1>2, <1>3
    <2> QED
      BY <2>1 DEF HandshakeTypes
  <1>5. /\ reply' = Append(reply, Head(out)) /\ out' = Tail(out) /\ phase' \in {"idle", "result"}
    BY <1>4 DEF ReadData
  <1>6. Len(reply') + Len(out') = Asked
    <2>1. Head(out) \in Int /\ Len(Tail(out)) = Len(out) - 1
      BY <1>3, <1>4
    <2>2. Len(Append(reply, Head(out))) = Len(reply) + 1
      BY <1>3, <2>1
    <2>3. Len(reply) \in Nat /\ Len(out) \in Nat
      BY <1>3
    <2>4. Len(reply') = Len(reply) + 1 /\ Len(out') = Len(out) - 1
      BY <1>5, <2>1, <2>2
    <2> QED
      BY <1>2, <1>3, <2>3, <2>4
  <1> QED
    BY <1>1, <1>2, <1>5, <1>6 DEF InStep

LEMMA ReplyInStep ==
    ASSUME HandshakeTypes, Dma, InStep, SeekDone \/ TrackDone
    PROVE  InStep'
  <1>1. /\ pc = "reply" /\ Len(reply) = Asked /\ reply' = <<>>
        /\ UNCHANGED <<phase, seeking, sensed, floppy_dma_waiting>>
    BY DEF SeekDone, TrackDone, Asked, controller
  <1>2. Quiet
    <2>1. Len(out) = 0
      BY <1>1 DEF InStep, HandshakeTypes, Asked
    <2>2. out = <<>>
      BY <2>1 DEF HandshakeTypes
    <2> QED
      BY <1>1, <2>2 DEF InStep, HandshakeTypes, Quiet
  <1>3. \/ pc' \in {"idle", "turn"}
        \/ pc' = "seek" /\ stage' # "transfer"
        \/ pc' = "command" /\ stage' = "transfer"
    BY DEF SeekDone, TrackDone, Retry, Returns
  <1> QED
    BY <1>1, <1>2, <1>3 DEF InStep, Quiet

LEMMA PollInStep ==
    ASSUME InStep, PollEnds
    PROVE  FALSE
  BY DEF InStep, PollEnds

(* an interrupt comes only while the driver waits for it                    *)
LEMMA ControllerInStep ==
    ASSUME HandshakeTypes, Dma, InStep, Controller
    PROVE  InStep'
  <1>1. CASE SeekEnds
    <2>1. /\ seeking # {} /\ seeking' = {} /\ sensed' # {} /\ floppy_dma_waiting' = 0
          /\ UNCHANGED <<pc, stage, reply, phase>>
      BY <1>1 DEF SeekEnds, irq6_handler, Dma, driver
    <2>2. pc = "wait" /\ stage # "transfer" /\ Seeking
      BY <2>1 DEF InStep, Quiet, Sought, Moving, Moved, HandshakeTypes
    <2> QED
      BY <2>1, <2>2 DEF InStep, Sought, Seeking
  <1>2. CASE MoveByDma \/ MoveByPio
    BY <1>2 DEF MoveByDma, MoveByPio, driver, Dma, InStep, Quiet, Seeking, Sought, Moving, Moved, Asked
  <1>3. CASE Finish
    <2>1. /\ phase = "busy" /\ phase' = "result" /\ floppy_dma_waiting' = 0
          /\ UNCHANGED <<pc, stage, reply, seeking, sensed>>
      BY <1>3 DEF Finish, Executing, irq6_handler, Dma, driver
    <2>2. pc = "wait" /\ stage = "transfer" /\ Moving
      BY <2>1 DEF InStep, Quiet, Seeking, Sought, Moved, HandshakeTypes
    <2>3. Len(out') = 7
      <3>1. PICK a \in Int, b \in Int : out' = Result(a, b)
        BY <1>3 DEF Finish
      <3> QED
        BY <3>1 DEF Result
    <2> QED
      BY <2>1, <2>2, <2>3 DEF InStep, Moving, Moved
  <1> QED
    BY <1>1, <1>2, <1>3 DEF Controller

-----------------------------------------------------------------------------
LEMMA HInvHolds == Spec => []HInv
  <1>1. Init => HInv
    BY InitTypes, InitInStep DEF HInv, Dma
  <1>2. HInv /\ [Next]_vars => HInv'
    <2> SUFFICES ASSUME HInv, [Next]_vars PROVE HInv'
      OBVIOUS
    <2>1. UNCHANGED <<mode, stray>>
      BY DEF vars, config, Next, Call, Driver, Controller, Turn, ReadTurnDma, WriteTurnDma,
         ReadTurnPio, WriteTurnPio, NextTurn, Done, NoDriveDma, NoDrivePio, SendSeek,
         TrackCommand, PioCommand, SendCommand, Wait, Sense, ReadData, SeekDone, TrackDone,
         PollEnds, SeekEnds, MoveByDma, MoveByPio, Finish
    <2>2. HandshakeTypes'
      <3>1. CASE Next
        BY <3>1, CallTypes, TurnTypes, EndTypes, SendTypes, SenseTypes, ReadTypes, PollTypes,
           ReplyTypes, ControllerTypes DEF Next, Driver, HInv
      <3>2. CASE UNCHANGED vars
        BY <3>2 DEF HInv, HandshakeTypes, vars, config, driver, controller
      <3> QED
        BY <3>1, <3>2
    <2>3. Dma => InStep'
      <3> SUFFICES ASSUME Dma PROVE InStep'
        OBVIOUS
      <3>1. CASE Next
        BY <3>1, CallInStep, TurnInStep, EndInStep, SendInStep, WaitInStep, SenseInStep,
           ReadInStep, PollInStep, ReplyInStep, ControllerInStep DEF Next, Driver, HInv, Dma
      <3>2. CASE UNCHANGED vars
        BY <3>2 DEF HInv, InStep, Dma, Quiet, Seeking, Sought, Moving, Moved, Asked, vars,
           config, driver, controller
      <3> QED
        BY <3>1, <3>2
    <2> QED
      BY <2>1, <2>2, <2>3 DEF HInv, Dma
  <1> QED
    BY <1>1, <1>2, PTL DEF Spec

(* Each wait of a transfer by DMA ends with the command it was for.         *)
THEOREM OneCommandHolds == Spec => []OneCommandAtATime
  <1>1. HInv => OneCommandAtATime
    BY DEF HInv, InStep, OneCommandAtATime, Quiet, Sought, Moved
  <1> QED
    BY <1>1, HInvHolds, PTL

-----------------------------------------------------------------------------
(***************************************************************************)
(* What a call that returns 0 has moved.                                   *)
(***************************************************************************)

(* sectors exist, and buffers have the sizes of the call *)
DataTypes ==
    /\ DOMAIN disk = Sectors
    /\ DOMAIN buffer = 0 .. call.sectors - 1
    /\ DOMAIN dmabuf = 0 .. 2 * MaxSegment - 1
    /\ call.sectors \in Nat /\ call.lba \in Nat
    /\ call.lba + call.sectors <= 2 * sectors_per_track * Cylinders
    /\ calls \in Nat /\ tries \in Nat
    /\ IF calls = 0 THEN pc = "idle" ELSE call.sectors > 0

(* sector i of the call is on the disk what it is in the caller's buffer *)
Same(i) == disk[call.lba + i] = buffer[i]

(* the turn: where it begins, how much it is asked for and where it ends *)
InTurn ==
    /\ total \in 0 .. call.sectors - 1
    /\ seg.sectors \in 1 .. call.sectors - total
    /\ seg.cylinder \in Nat /\ seg.head \in {0, 1}
    /\ seg.sector \in 1 .. sectors_per_track
    /\ LbaOf(seg) = call.lba + total
    /\ seg.final = Final(seg.sectors, seg.sector)

(* the controller after k sectors: behind the last sector of the turn on    *)
(* head 0 it is on head 1, on head 1 it is at the end                      *)
CommandAt(k) ==
    /\ command.dir = call.dir
    /\ command.cylinder = seg.cylinder /\ command.final = seg.final
    /\ IF k < seg_read
       THEN command.head = seg.head /\ command.sector = seg.sector + k
       ELSE /\ command.head = 1
            /\ IF seg.head = 0 THEN command.sector = 1 + (k - seg_read)
                               ELSE k = seg_read /\ command.sector = seg.final + 1

(* no result without an error before the sectors of the turn are moved *)
Honest(r, k) == Len(r) = 7 /\ (calculate_error(r) = 0 => k >= seg_read)

(* With DMA. *)

(* what the first turn of a write moves *)
First == Least(Least(call.sectors, MaxSegment),
               sectors_per_track - lba_2_chs(call.lba).sector + 1)

InTransfer == pc \in {"wait", "reset", "reply"} /\ stage = "transfer"

(* the channel has moved its first sectors, and a result that is there, or  *)
(* partly read, is honest about them                                       *)
Transferring ==
    /\ channel.next \in 0 .. seg.sectors /\ channel.left = seg.sectors - channel.next
    /\ CommandAt(channel.next)
    /\ phase # "busy" => Honest(reply \o out, channel.next)
    /\ \A i \in 0 .. channel.next - 1 :
           disk[call.lba + total + i] = dmabuf[i] \/ call.dir = "write"
    /\ call.dir = "write" /\ total = 0 => \A i \in 0 .. channel.next - 1 : Same(i)

(* the turn under way; the first turn of a write has copied its sectors     *)
DmaTurn ==
    /\ InTurn /\ present
    /\ seg.sectors = Least(Left, MaxSegment)
    /\ total = 0 => seg.sector = lba_2_chs(call.lba).sector
    /\ call.dir = "write" /\ total = 0 =>
           \A i \in 0 .. seg.sectors - 1 : dmabuf[i] = buffer[i]
    /\ InTransfer => Transferring

(* the turns behind: a read has moved them all, a write the first; nothing  *)
(* outside the request has changed, and 0 is returned behind the last turn  *)
DmaMoved ==
    /\ total \in 0 .. call.sectors
    /\ total > 0 => present
    /\ call.dir = "read" => disk = before /\ \A i \in 0 .. total - 1 : Same(i)
    /\ call.dir = "write" =>
           /\ \A l \in Sectors : disk[l] # before[l] => l - call.lba \in 0 .. call.sectors - 1
           /\ total > 0 => total >= First /\ \A i \in 0 .. First - 1 : Same(i)
    /\ pc \notin {"idle", "turn"} => DmaTurn
    /\ pc = "idle" /\ result = 0 /\ calls > 0 => total = call.sectors

(* Without DMA: the first transfer of a present drive, on a single track.  *)

OnOneTrack == lba_2_chs(call.lba).sector + call.sectors - 1 <= sectors_per_track

(* the index counts the sectors moved, as far as the buffer has room *)
PioAt ==
    /\ index \in 0 .. call.sectors
    /\ command.dir = call.dir
    /\ command.cylinder = seg.cylinder /\ command.final = seg.final
    /\ \/ command.head = seg.head /\ command.sector = seg.sector + index
       \/ /\ index = call.sectors /\ seg.head = 0
          /\ command.head = 1 /\ command.sector \in 1 .. sectors_per_track + 1
    /\ \A i \in 0 .. index - 1 : Same(i)

(* the only turn, and what is known of it as long as nothing was retried    *)
PioTurn ==
    /\ InTurn /\ total = 0 /\ stage = "transfer" /\ seg.sectors = call.sectors
    /\ tries = 0 =>
          /\ pc = "command" => index = 0 /\ phase = "idle" /\ reply = <<>>
          /\ pc \in {"poll", "reply"} => PioAt
          /\ pc = "poll" => /\ reply = <<>> /\ phase # "idle"
                            /\ phase = "result" => Honest(out, index)
          /\ pc = "reply" => phase # "busy" /\ Honest(reply \o out, index)

(* a call that ended well with its first try has moved its sectors          *)
FirstCall ==
    /\ pc \in {"idle", "turn", "command", "poll", "reply"}
    /\ total \in {0, call.sectors}
    /\ pc = "turn" /\ total = 0 => index = 0 /\ phase = "idle" /\ reply = <<>>
    /\ pc \in {"command", "poll", "reply"} => PioTurn
    /\ pc \in {"turn", "idle"} /\ total = call.sectors /\ tries = 0 =>
           \A i \in 0 .. call.sectors - 1 : Same(i)
    /\ pc = "idle" /\ result = 0 => total = call.sectors

(* before the first call the index is 0 and the controller idle             *)
PioMoved ==
    /\ calls = 0 => index = 0 /\ phase = "idle" /\ reply = <<>>
    /\ calls = 1 /\ OnOneTrack => FirstCall

NoSeeks ==
    /\ seeking = {} /\ pc \notin {"seek", "wait", "reset", "sense"}
    /\ pc \in {"command", "poll", "reply"} => stage = "transfer"

MovedInv ==
    /\ DataTypes
    /\ Dma => DmaMoved
    /\ mode = "pio" => NoSeeks
    /\ mode = "pio" /\ present => PioMoved

(***************************************************************************)
(* Sectors: the address and its three parts.                               *)
(***************************************************************************)
LEMMA DivMod ==
    ASSUME NEW n \in Nat, NEW d \in Nat \ {0}
    PROVE  /\ n \div d \in Nat /\ n % d \in 0 .. d - 1
           /\ n = d * (n \div d) + (n % d)
  <1>1. n \div d \in Nat
    OBVIOUS
  <1>2. n % d \in 0 .. d - 1
    OBVIOUS
  <1>3. n = d * (n \div d) + (n % d)
    OBVIOUS
  <1> QED
    BY <1>1, <1>2, <1>3

LEMMA Products ==
    ASSUME NEW a \in Int, NEW b \in Int, NEW c \in Int
    PROVE  /\ (2 * a + b) * c = (2 * c) * a + c * b
           /\ (2 * a + 1) * c = (2 * a + 0) * c + c
           /\ (2 * a + b) * c \in Int
  OBVIOUS

LEMMA Sizes == sectors_per_track \in Nat \ {0} /\ MaxSegment \in Nat \ {0}
  BY FloppyAssumption

(* lba_2_chs names an existing place of a track, the one LbaOf gives back   *)
LEMMA ChsInverse ==
    ASSUME NEW lba \in Nat
    PROVE  LET c == lba_2_chs(lba)
           IN /\ c.cylinder \in Nat /\ c.head \in {0, 1} /\ c.sector \in 1 .. sectors_per_track
              /\ LbaOf(c) = lba
  <1> DEFINE t == sectors_per_track
  <1>0. \A n \in Nat, d \in Nat \ {0} :
           n \div d \in Nat /\ n % d \in 0 .. d - 1 /\ n = d * (n \div d) + (n % d)
    BY DivMod
  <1>1. t \in Nat \ {0} /\ 2 * t \in Nat \ {0}
    BY Sizes
  <1>a. /\ lba \div (2 * t) \in Nat /\ lba % (2 * t) \in 0 .. 2 * t - 1
        /\ lba = (2 * t) * (lba \div (2 * t)) + (lba % (2 * t))
    BY <1>0, <1>1, Zenon
  <1>2. PICK q \in Nat, r \in Nat : /\ q = lba \div (2 * t) /\ r = lba % (2 * t)
                                    /\ r < 2 * t /\ lba = (2 * t) * q + r
    BY <1>1, <1>a
  <1>b. r \div t \in Nat /\ r % t \in 0 .. t - 1 /\ r = t * (r \div t) + (r % t)
    BY <1>0, <1>1, <1>2, Zenon
  <1>3. PICK h \in Nat, s \in Nat : h = r \div t /\ s = r % t /\ s < t /\ r = t * h + s
    BY <1>1, <1>b
  <1>4. h \in {0, 1}
    <2>1. CASE h >= 2
      <3>1. t * h >= t * 2
        BY <1>1, <1>3, <2>1
      <3> QED
        BY <1>1, <1>2, <1>3, <3>1
    <2> QED
      BY <1>3, <2>1
  <1>5. lba_2_chs(lba) = [cylinder |-> q, head |-> h, sector |-> s + 1]
    BY <1>2, <1>3 DEF lba_2_chs
  <1>6. (2 * q + h) * t + (s + 1) - 1 = lba
    <2>1. (2 * q + h) * t = (2 * t) * q + t * h
      BY <1>1, Products
    <2> QED
      BY <1>1, <1>2, <1>3, <2>1
  <1>7. LbaOf(lba_2_chs(lba)) = (2 * q + h) * t + (s + 1) - 1
    BY <1>5 DEF LbaOf
  <1> QED
    BY <1>1, <1>3, <1>4, <1>5, <1>6, <1>7

(* the sectors of a turn: those asked for, as far as its track goes         *)
LEMMA TurnSectors ==
    ASSUME HandshakeTypes, InTurn
    PROVE  /\ seg_read = Least(seg.sectors, sectors_per_track - seg.sector + 1)
           /\ seg_read \in 1 .. seg.sectors
           /\ seg.final \in seg.sector .. sectors_per_track
           /\ seg_read < seg.sectors => seg.final = sectors_per_track
  <1>1. /\ seg.sector \in 1 .. sectors_per_track /\ seg.sectors \in Nat /\ seg.sectors >= 1
        /\ seg.final = Final(seg.sectors, seg.sector)
    BY DEF HandshakeTypes, InTurn
  <1> QED
    BY <1>1, Sizes DEF seg_read, Final, Least

(* the controller is at its end only behind the sectors of the turn, and    *)
(* until then at the sector of the disk the channel has come to             *)
LEMMA CommandPlace ==
    ASSUME HandshakeTypes, InTurn, NEW k \in Nat, k < seg.sectors, CommandAt(k)
    PROVE  /\ AtEnd => k >= seg_read
           /\ ~AtEnd => LbaOf(command) = call.lba + total + k
  <1> DEFINE t == sectors_per_track
  <1>0. t \in Nat \ {0}
    BY Sizes
  <1>1. /\ seg.sector \in Int /\ seg.final \in Int /\ seg.cylinder \in Int /\ seg.head \in {0, 1}
        /\ command.sector \in Int /\ call.lba \in Int /\ total \in Int
    BY DEF HandshakeTypes, InTurn, Commands
  <1>2. seg_read = seg.final - seg.sector + 1
    BY DEF seg_read
  <1>3. call.lba + total = (2 * seg.cylinder + seg.head) * t + seg.sector - 1
    BY DEF InTurn, LbaOf
  <1>4. LbaOf(command) = (2 * command.cylinder + command.head) * t + command.sector - 1
    BY DEF LbaOf
  <1>5. CASE k < seg_read
    <2>1. /\ command.cylinder = seg.cylinder /\ command.head = seg.head /\ command.final = seg.final
          /\ command.sector = seg.sector + k
      BY <1>5 DEF CommandAt
    <2>2. PICK x \in Int : x = (2 * seg.cylinder + seg.head) * t
      BY <1>0, <1>1
    <2> QED
      BY <1>1, <1>2, <1>3, <1>4, <1>5, <2>1, <2>2 DEF AtEnd
  <1>6. CASE k >= seg_read /\ seg.head = 0
    <2>1. /\ command.cylinder = seg.cylinder /\ command.head = 1 /\ command.final = seg.final
          /\ command.sector = 1 + (k - seg_read)
      BY <1>1, <1>2, <1>6 DEF CommandAt
    <2>2. seg.final = t
      BY <1>1, <1>2, <1>6, TurnSectors DEF HandshakeTypes
    <2>3. (2 * seg.cylinder + 1) * t = (2 * seg.cylinder + 0) * t + t
      BY <1>0, <1>1, Products
    <2>4. PICK x \in Int : x = (2 * seg.cylinder + 0) * t
      BY <1>0, <1>1
    <2>5. LbaOf(command) = x + t + command.sector - 1
      BY <1>4, <2>1, <2>3, <2>4
    <2>6. call.lba + total = x + seg.sector - 1
      BY <1>3, <1>6, <2>4
    <2>7. PICK s \in Int, m \in Int : s = seg.sector /\ m = call.lba + total
      BY <1>1
    <2>8. LbaOf(command) = x + t + (1 + (k - (t - s + 1))) - 1
      BY <1>2, <2>1, <2>2, <2>5, <2>7
    <2>9. LbaOf(command) = m + k
      BY <1>0, <2>4, <2>6, <2>7, <2>8
    <2> QED
      BY <1>6, <2>7, <2>9
  <1>7. CASE k >= seg_read /\ seg.head # 0
    <2>1. k = seg_read /\ command.sector = seg.final + 1 /\ command.final = seg.final
      BY <1>1, <1>2, <1>7 DEF CommandAt
    <2> QED
      BY <1>1, <1>7, <2>1 DEF AtEnd
  <1> QED
    BY <1>1, <1>2, <1>5, <1>6, <1>7

(* one sector on                                                           *)
LEMMA CommandMoves ==
    ASSUME HandshakeTypes, InTurn, NEW k \in Nat, k < seg.sectors, CommandAt(k), ~AtEnd,
           command' = NextSector, UNCHANGED <<seg, call>>
    PROVE  CommandAt(k + 1)'
  <1>1. /\ seg.sector \in Int /\ seg.final \in Int /\ seg.head \in {0, 1}
        /\ command \in Commands /\ command.sector \in Int
    BY DEF HandshakeTypes, InTurn, Commands
  <1>2. seg_read = seg.final - seg.sector + 1 /\ seg_read' = seg_read
    BY DEF seg_read
  <1>3. /\ command.dir = call.dir /\ command.cylinder = seg.cylinder /\ command.final = seg.final
        /\ command.sector <= seg.final
    BY <1>1 DEF CommandAt, AtEnd
  <1>4. /\ command'.dir = command.dir /\ command'.cylinder = command.cylinder
        /\ command'.final = command.final
        /\ IF command.sector = command.final /\ command.head = 0
           THEN command'.head = 1 /\ command'.sector = 1
           ELSE command'.head = command.head /\ command'.sector = command.sector + 1
    BY <1>1 DEF NextSector, Commands
  <1>5. CASE k < seg_read
    <2>1. command.head = seg.head /\ command.sector = seg.sector + k
      BY <1>5 DEF CommandAt
    <2> QED
      BY <1>1, <1>2, <1>3, <1>4, <1>5, <2>1 DEF CommandAt
  <1>6. CASE k >= seg_read
    <2>1. command.head = 1 /\ seg.head = 0 /\ command.sector = 1 + (k - seg_read)
      BY <1>1, <1>2, <1>3, <1>6 DEF CommandAt
    <2> QED
      BY <1>1, <1>2, <1>3, <1>4, <1>6, <2>1 DEF CommandAt
  <1> QED
    BY <1>1, <1>2, <1>5, <1>6

(* the statuses of a failure are errors                                    *)
LEMMA FailureIsError ==
    ASSUME NEW b \in {2, 4, 128}
    PROVE  calculate_error(Result(64, b)) # 0
  <1>1. Result(64, b)[1] = 64 /\ Result(64, b)[2] = b
    BY DEF Result
  <1>2. Bit(64, 64)
    BY DEF Bit
  <1> QED
    BY <1>1, <1>2 DEF calculate_error, NotWritable, Failed

LEMMA InitData == Init => DataTypes
  <1> SUFFICES ASSUME Init PROVE DataTypes
    OBVIOUS
  <1>1. /\ call.sectors = 0 /\ call.lba = 0 /\ calls = 0 /\ tries = 0 /\ pc = "idle"
        /\ buffer = <<>> /\ DOMAIN disk = Sectors /\ DOMAIN dmabuf = 0 .. 2 * MaxSegment - 1
    BY DEF Init
  <1>2. DOMAIN buffer = 0 .. 0 - 1
    BY <1>1
  <1>3. 0 <= 2 * sectors_per_track * Cylinders
    BY FloppyAssumption
  <1> QED
    BY <1>1, <1>2, <1>3 DEF DataTypes

LEMMA CallData ==
    ASSUME DataTypes, NEW dir \in {"read", "write"}, Call(dir)
    PROVE  DataTypes'
  <1>1. PICK r \in Requests :
           /\ call' = [dir |-> dir, sectors |-> r[1], lba |-> r[2]]
           /\ buffer' = [i \in 0 .. r[1] - 1 |-> IF dir = "read" THEN Unread ELSE Fresh(i)]
    BY DEF Call
  <1>2. /\ r[1] \in Nat \ {0} /\ r[2] \in Nat
        /\ r[2] + r[1] <= 2 * sectors_per_track * Cylinders
    BY FloppyAssumption
  <1>3. call'.sectors = r[1] /\ call'.lba = r[2] /\ DOMAIN buffer' = 0 .. r[1] - 1
    BY <1>1
  <1>4. calls' = calls + 1 /\ UNCHANGED <<disk, dmabuf, tries>> /\ calls \in Nat
    BY DEF Call, DataTypes
  <1> QED
    BY <1>2, <1>3, <1>4 DEF DataTypes, Sectors

(* no other step makes a buffer longer or begins a call                     *)
LEMMA StepData ==
    ASSUME DataTypes, Driver \/ Controller
    PROVE  DataTypes'
  <1>1. UNCHANGED <<call, calls>>
    BY DEF Driver, Controller, Turn, ReadTurnDma, WriteTurnDma, ReadTurnPio, WriteTurnPio,
       NextTurn, Done, NoDriveDma, NoDrivePio, SendSeek, TrackCommand, PioCommand, SendCommand,
       Wait, Sense, ReadData, SeekDone, TrackDone, PollEnds, SeekEnds, MoveByDma, MoveByPio,
       Finish, driver
  <1>3. calls = 0 => pc' = "idle"
    BY DEF DataTypes, Driver, Controller, Turn, ReadTurnDma, WriteTurnDma, ReadTurnPio,
       WriteTurnPio, NextTurn, Done, NoDriveDma, NoDrivePio, SendSeek, TrackCommand, PioCommand,
       SendCommand, Wait, floppy_wait, Sense, ReadData, SeekDone, TrackDone, PollEnds, SeekEnds,
       MoveByDma, MoveByPio, Finish, driver
  <1>4. DOMAIN disk' = DOMAIN disk
    BY DEF Driver, Controller, Turn, ReadTurnDma, WriteTurnDma, ReadTurnPio, WriteTurnPio,
       NextTurn, Done, NoDriveDma, NoDrivePio, SendSeek, TrackCommand, PioCommand, SendCommand,
       Wait, Sense, ReadData, SeekDone, TrackDone, PollEnds, SeekEnds, MoveByDma, MoveByPio,
       Finish, data
  <1>5. DOMAIN buffer' = DOMAIN buffer
    BY DEF Driver, Controller, Turn, ReadTurnDma, WriteTurnDma, ReadTurnPio, WriteTurnPio,
       NextTurn, Done, NoDriveDma, NoDrivePio, SendSeek, TrackCommand, PioCommand, SendCommand,
       Wait, Sense, ReadData, SeekDone, TrackDone, PollEnds, SeekEnds, MoveByDma, MoveByPio,
       Finish, data
  <1>6. DOMAIN dmabuf' = DOMAIN dmabuf
    BY DEF Driver, Controller, Turn, ReadTurnDma, WriteTurnDma, ReadTurnPio, WriteTurnPio,
       NextTurn, Done, NoDriveDma, NoDrivePio, SendSeek, TrackCommand, PioCommand, SendCommand,
       Wait, Sense, ReadData, SeekDone, TrackDone, PollEnds, SeekEnds, MoveByDma, MoveByPio,
       Finish, data
  <1>7. tries' \in {tries, 0, tries + 1}
    BY DEF Driver, Controller, Turn, ReadTurnDma, WriteTurnDma, ReadTurnPio, WriteTurnPio,
       NextTurn, Done, NoDriveDma, NoDrivePio, SendSeek, TrackCommand, PioCommand, SendCommand,
       Wait, Sense, ReadData, SeekDone, TrackDone, Retry, PollEnds, SeekEnds, MoveByDma,
       MoveByPio, Finish, driver
  <1> QED
    BY <1>1, <1>3, <1>4, <1>5, <1>6, <1>7 DEF DataTypes, Sectors

(* the sectors of the call are on the disk, and in the caller's buffer      *)
LEMMA OnDisk ==
    ASSUME DataTypes
    PROVE  \A i \in 0 .. call.sectors - 1 : call.lba + i \in DOMAIN disk /\ i \in DOMAIN buffer
  <1>1. PICK z : z = 2 * sectors_per_track * Cylinders /\ call.lba + call.sectors <= z
    BY DEF DataTypes
  <1>2. z \in Int
    BY <1>1, FloppyAssumption
  <1>3. \A i \in 0 .. call.sectors - 1 : call.lba + i \in 0 .. z - 1
    BY <1>1, <1>2 DEF DataTypes
  <1> QED
    BY <1>1, <1>3 DEF DataTypes, Sectors

-----------------------------------------------------------------------------
(***************************************************************************)
(* What a call by DMA moves.                                               *)
(***************************************************************************)
LEMMA InitMoved == Init => DmaMoved
  <1> SUFFICES ASSUME Init PROVE DmaMoved
    OBVIOUS
  <1>1. /\ call.dir = "read" /\ call.sectors = 0 /\ total = 0 /\ calls = 0 /\ pc = "idle"
        /\ before = disk
    BY DEF Init
  <1> QED
    BY <1>1 DEF DmaMoved

LEMMA CallMoved ==
    ASSUME DataTypes', NEW dir \in {"read", "write"}, Call(dir)
    PROVE  DmaMoved'
  <1>1. total' = 0 /\ pc' = "turn" /\ before' = disk /\ disk' = disk
    BY DEF Call
  <1>2. call'.sectors \in Nat
    BY DEF DataTypes
  <1> QED
    BY <1>1, <1>2 DEF DmaMoved

(* a step that moves nothing, in the middle of a turn                       *)
LEMMA KeepsMoved ==
    ASSUME DmaMoved, pc \notin {"idle", "turn"}, pc' # "turn",
           pc' = "idle" => result' # 0,
           pc' # "idle" => (InTransfer' => Transferring'),
           UNCHANGED <<present, calls, call, total, seg, buffer, disk, before, dmabuf>>
    PROVE  DmaMoved'
  <1>1. DmaTurn
    BY DEF DmaMoved
  <1>2. First' = First
    BY DEF First
  <1>3. pc' # "idle" => DmaTurn'
    <2> SUFFICES ASSUME pc' # "idle" PROVE DmaTurn'
      OBVIOUS
    <2>1. InTurn'
      BY <1>1 DEF DmaTurn, InTurn
    <2> QED
      BY <1>1, <2>1 DEF DmaTurn, Left
  <1>4. \A i : Same(i)' <=> Same(i)
    BY DEF Same
  <1> QED
    BY <1>2, <1>3, <1>4 DEF DmaMoved

(* ... that leaves the channel where it is, and the result what it is       *)
LEMMA KeepsTransferring ==
    ASSUME Transferring, UNCHANGED <<channel, seg, command, call, total, buffer, disk, dmabuf>>,
           phase' # "busy" => Honest(reply' \o out', channel.next)
    PROVE  Transferring'
  <1>1. CommandAt(channel.next)'
    BY DEF Transferring, CommandAt, seg_read
  <1>2. phase' # "busy" => Honest(reply \o out, channel.next)'
    BY DEF Honest, seg_read, calculate_error, Bit
  <1>3. \A i : Same(i)' <=> Same(i)
    BY DEF Same
  <1> QED
    BY <1>1, <1>2, <1>3 DEF Transferring

LEMMA TurnMoved ==
    ASSUME HandshakeTypes, DataTypes, Dma, DmaMoved, Turn
    PROVE  DmaMoved'
  <1>1. PICK n : n = Least(Left, MaxSegment) /\ NextTurn(n)
    BY DEF Turn, ReadTurnDma, WriteTurnDma, ReadTurnPio, WriteTurnPio, Dma
  <1>2. /\ pc = "turn" /\ total < call.sectors /\ present /\ pc' = "seek" /\ total \in 0 .. call.sectors
        /\ call.lba \in Nat /\ call.sectors \in Nat
        /\ UNCHANGED <<present, calls, call, total, buffer, disk, before>>
    BY <1>1 DEF Turn, ReadTurnDma, WriteTurnDma, ReadTurnPio, WriteTurnPio, Dma, NextTurn,
       DataTypes, DmaMoved, config
  <1>3. PICK chs : /\ chs = lba_2_chs(call.lba + total)
                   /\ chs.cylinder \in Nat /\ chs.head \in {0, 1}
                   /\ chs.sector \in 1 .. sectors_per_track /\ LbaOf(chs) = call.lba + total
    BY <1>2, ChsInverse
  <1>4. seg' = [cylinder |-> chs.cylinder, head |-> chs.head, sector |-> chs.sector,
                sectors |-> n, final |-> Final(n, chs.sector)]
    BY <1>1, <1>3 DEF NextTurn
  <1>5. n \in 1 .. call.sectors - total
    BY <1>1, <1>2, Sizes DEF Least, Left
  <1>6. InTurn'
    <2>1. LbaOf(seg') = LbaOf(chs)
      BY <1>4 DEF LbaOf
    <2>2. Final(n, chs.sector)' = Final(n, chs.sector)
      BY DEF Final, Least
    <2> QED
      BY <1>2, <1>3, <1>4, <1>5, <2>1, <2>2 DEF InTurn, LbaOf, Final, Least
  <1>7. total = 0 => seg'.sector = lba_2_chs(call'.lba).sector
    <2>1. total = 0 => call.lba + total = call'.lba
      BY <1>2
    <2> QED
      BY <1>3, <1>4, <2>1
  <1>8. call.dir = "write" => \A i \in 0 .. n - 1 : dmabuf'[i] = buffer'[i]
    <2> SUFFICES ASSUME call.dir = "write", NEW i \in 0 .. n - 1 PROVE dmabuf'[i] = buffer'[i]
      OBVIOUS
    <2>1. dmabuf' = [j \in DOMAIN dmabuf |-> IF j < n THEN buffer[j] ELSE dmabuf[j]]
      BY <1>1 DEF Turn, ReadTurnDma, WriteTurnDma, ReadTurnPio, WriteTurnPio, Dma
    <2>2. i \in DOMAIN dmabuf /\ i < n
      BY <1>1, <1>2, <1>5, Sizes DEF DataTypes, Least, Left
    <2> QED
      BY <1>2, <2>1, <2>2
  <1>9. DmaTurn'
    <2>1. seg'.sectors = Least(Left, MaxSegment)'
      BY <1>1, <1>2, <1>4 DEF Left, Least
    <2>2. ~InTransfer'
      BY <1>2 DEF InTransfer
    <2> QED
      BY <1>2, <1>4, <1>6, <1>7, <1>8, <2>1, <2>2 DEF DmaTurn
  <1>10. First' = First /\ \A i : Same(i)' <=> Same(i)
    BY <1>2 DEF First, Same
  <1> QED
    BY <1>2, <1>9, <1>10 DEF DmaMoved

(* only a call that has all its sectors behind it returns 0                 *)
LEMMA EndMoved ==
    ASSUME HandshakeTypes, DataTypes, Dma, DmaMoved, Done \/ NoDriveDma \/ NoDrivePio
    PROVE  DmaMoved'
  <1>1. /\ pc = "turn" /\ pc' = "idle"
        /\ UNCHANGED <<present, calls, call, total, seg, buffer, disk, before, dmabuf>>
        /\ result' = 0 => total >= call.sectors
    BY DEF Done, NoDriveDma, NoDrivePio, Returns, Dma, config, data, Failed
  <1>2. First' = First /\ \A i : Same(i)' <=> Same(i)
    BY <1>1 DEF First, Same
  <1>3. total \in 0 .. call.sectors /\ call.sectors \in Nat
    BY DEF DmaMoved, DataTypes
  <1> QED
    BY <1>1, <1>2, <1>3 DEF DmaMoved

LEMMA SendMoved ==
    ASSUME HandshakeTypes, DataTypes, Dma, InStep, DmaMoved, SendSeek \/ TrackCommand \/ PioCommand
    PROVE  DmaMoved'
  <1>1. CASE SendSeek
    <2>1. /\ pc = "seek" /\ pc' = "wait" /\ stage' # "transfer"
          /\ UNCHANGED <<present, calls, call, total, seg, buffer, disk, before, dmabuf>>
      BY <1>1 DEF SendSeek, InStep, config, data
    <2> QED
      BY <2>1, KeepsMoved DEF InTransfer
  <1>2. CASE TrackCommand \/ PioCommand
    <2>1. /\ pc = "command" /\ pc' = "wait" /\ phase' = "busy"
          /\ command' = [dir |-> call.dir, cylinder |-> seg.cylinder,
                         head |-> seg.head, sector |-> seg.sector, final |-> seg.final]
          /\ channel' = [next |-> 0, left |-> seg.sectors]
          /\ UNCHANGED <<present, calls, call, total, seg, buffer, disk, before, dmabuf>>
      BY <1>2 DEF TrackCommand, PioCommand, SendCommand, floppy_dma_init, Dma, InStep, Quiet, config
    <2>2. InTurn
      BY <2>1 DEF DmaMoved, DmaTurn
    <2>3. seg.sectors \in Nat /\ seg_read' = seg_read /\ seg_read > 0 /\ seg.sector \in Int
      <3>1. call.sectors \in Int /\ total \in Int /\ seg.sector \in Int
        BY DEF HandshakeTypes
      <3>2. seg.sectors \in 1 .. call.sectors - total
        BY <2>2 DEF InTurn
      <3>3. seg_read \in 1 .. seg.sectors
        BY <2>2, TurnSectors
      <3>4. seg_read' = seg_read
        BY <2>1 DEF seg_read
      <3> QED
        BY <3>1, <3>2, <3>3, <3>4
    <2>4. Transferring'
      BY <2>1, <2>3 DEF Transferring, CommandAt
    <2> QED
      BY <2>1, <2>4, KeepsMoved
  <1> QED
    BY <1>1, <1>2

LEMMA WaitMoved ==
    ASSUME HandshakeTypes, DataTypes, Dma, InStep, DmaMoved, Wait \/ Sense \/ SeekEnds
    PROVE  DmaMoved'
  <1>1. /\ pc \in {"wait", "reset", "sense"} /\ pc' \notin {"idle", "turn"} /\ stage' = stage
        /\ UNCHANGED <<present, calls, call, total, seg, buffer, disk, before, dmabuf>>
        /\ UNCHANGED <<channel, command, reply>>
    <2>1. CASE Wait
      BY <2>1 DEF Wait, floppy_wait, AfterWait, config, data, controller
    <2>2. CASE Sense
      BY <2>2 DEF Sense, config, data
    <2>3. CASE SeekEnds
      <3>1. seeking # {} /\ UNCHANGED driver
        BY <2>3 DEF SeekEnds
      <3>2. pc = "wait"
        BY <3>1 DEF InStep, HandshakeTypes, Quiet, Moved, Sought
      <3> QED
        BY <2>3, <3>1, <3>2 DEF SeekEnds, config, data, driver
    <2> QED
      BY <2>1, <2>2, <2>3
  <1>2. InTransfer' => InTransfer /\ UNCHANGED <<phase, out>>
    <2> SUFFICES ASSUME InTransfer' PROVE InTransfer /\ UNCHANGED <<phase, out>>
      OBVIOUS
    <2>0. stage = "transfer"
      BY <1>1 DEF InTransfer
    <2>1. CASE Wait
      BY <2>0, <2>1 DEF Wait, floppy_wait, InTransfer, controller
    <2>2. CASE Sense
      BY <2>0, <2>2 DEF Sense, InStep
    <2>3. CASE SeekEnds
      BY <2>0, <2>3 DEF SeekEnds, InTransfer, driver, InStep, Quiet, Moved, Moving
    <2> QED
      BY <2>1, <2>2, <2>3
  <1>3. InTransfer' => Transferring'
    <2>1. DmaTurn
      BY <1>1 DEF DmaMoved
    <2>2. InTransfer' => Transferring /\ (phase' # "busy" => Honest(reply' \o out', channel.next))
      BY <1>1, <1>2, <2>1 DEF DmaTurn, Transferring
    <2> QED
      BY <1>1, <2>2, KeepsTransferring
  <1> QED
    BY <1>1, <1>3, KeepsMoved

(* what is read and what is left of a result together stay the result       *)
LEMMA HeadMoves ==
    ASSUME NEW s \in Seq(Int), NEW t \in Seq(Int), t # <<>>
    PROVE  Append(s, Head(t)) \o Tail(t) = s \o t
  <1>1. Append(s, Head(t)) = s \o <<Head(t)>>
    OBVIOUS
  <1>2. t = <<Head(t)>> \o Tail(t)
    OBVIOUS
  <1>3. (s \o <<Head(t)>>) \o Tail(t) = s \o (<<Head(t)>> \o Tail(t))
    OBVIOUS
  <1> QED
    BY <1>1, <1>2, <1>3

LEMMA ReadMoved ==
    ASSUME HandshakeTypes, DataTypes, Dma, InStep, DmaMoved, ReadData
    PROVE  DmaMoved'
  <1>1. /\ pc = "reply" /\ pc' = pc /\ stage' = stage /\ Len(reply) < Asked
        /\ UNCHANGED <<present, calls, call, total, seg, buffer, disk, before, dmabuf>>
        /\ UNCHANGED <<channel, command>>
    BY DEF ReadData, config, data
  <1>2. phase = "result" /\ out # <<>> /\ reply \in Seq(Int) /\ out \in Seq(Int)
    <2>1. Len(reply) + Len(out) = Asked /\ reply \in Seq(Int) /\ out \in Seq(Int)
      BY <1>1 DEF InStep, HandshakeTypes
    <2>2. out # <<>>
      BY <1>1, <2>1 DEF Asked
    <2> QED
      BY <2>1, <2>2 DEF HandshakeTypes
  <1>3. reply' \o out' = reply \o out
    BY <1>2, HeadMoves DEF ReadData
  <1>4. InTransfer' => Transferring'
    <2>1. DmaTurn
      BY <1>1 DEF DmaMoved
    <2>2. InTransfer' => Transferring /\ Honest(reply' \o out', channel.next)
      BY <1>1, <1>2, <1>3, <2>1 DEF DmaTurn, Transferring, InTransfer
    <2> QED
      BY <1>1, <2>2, KeepsTransferring
  <1> QED
    BY <1>1, <1>4, KeepsMoved

LEMMA SeekDoneMoved ==
    ASSUME HandshakeTypes, DataTypes, Dma, InStep, DmaMoved, SeekDone
    PROVE  DmaMoved'
  <1>1. /\ pc = "reply" /\ pc' \in {"seek", "command", "idle"}
        /\ pc' = "idle" => result' # 0
        /\ UNCHANGED <<present, calls, call, total, seg, buffer, disk, before, dmabuf>>
    BY DEF SeekDone, Retry, Returns, Failed, config, data
  <1> QED
    BY <1>1, KeepsMoved DEF InTransfer

(* the end of a command: with an error, or with the sectors moved           *)
LEMMA FinishMoved ==
    ASSUME HandshakeTypes, DataTypes, Dma, InStep, DmaMoved, Finish
    PROVE  DmaMoved'
  <1>1. /\ phase = "busy" /\ phase' = "result"
        /\ UNCHANGED <<present, calls, call, total, seg, buffer, disk, before, dmabuf>>
        /\ UNCHANGED <<channel, command, reply, pc, stage>>
    BY DEF Finish, Executing, config, data, driver
  <1>2. pc = "wait" /\ stage = "transfer" /\ reply = <<>>
    BY <1>1 DEF InStep, Quiet, Seeking, Sought, Moved, HandshakeTypes
  <1>3. InTurn /\ Transferring
    BY <1>2 DEF DmaMoved, DmaTurn, InTransfer
  <1>4. channel.next \in 0 .. seg.sectors /\ seg.sectors \in Nat /\ CommandAt(channel.next)
        /\ channel.left = seg.sectors - channel.next
    BY <1>3 DEF Transferring, InTurn, HandshakeTypes
  <1>5. seg_read <= seg.sectors /\ seg_read \in Nat
    BY <1>3, TurnSectors
  <1>6. AtEnd => channel.next >= seg_read
    BY <1>3, <1>4, <1>5, CommandPlace
  <1>7. \/ out' = Result(0, 0) /\ channel.next >= seg_read
        \/ \E b \in {2, 4, 128} : out' = Result(64, b)
    BY <1>4, <1>5, <1>6 DEF Finish
  <1>8. Honest(reply' \o out', channel.next)
    <2>1. \E a \in Int, b \in Int : out' = Result(a, b)
      BY <1>7
    <2>2. reply' \o out' = out' /\ Len(out') = 7
      <3>1. /\ command.cylinder \in Int /\ command.head \in Int /\ command.sector \in Int
        BY DEF HandshakeTypes, Commands
      <3>2. PICK a \in Int, b \in Int : out' = Result(a, b)
        BY <2>1
      <3>3. out' \in Seq(Int) /\ Len(out') = 7
        BY <3>1, <3>2 DEF Result
      <3>4. reply' = <<>>
        BY <1>1, <1>2
      <3> QED
        BY <3>3, <3>4
    <2>3. calculate_error(out') = 0 => channel.next >= seg_read
      BY <1>7, FailureIsError
    <2> QED
      BY <2>2, <2>3 DEF Honest
  <1>9. Transferring'
    BY <1>1, <1>3, <1>8, KeepsTransferring
  <1> QED
    BY <1>1, <1>2, <1>9, KeepsMoved

(* a sector goes from where the command is to where the channel is, or back *)
LEMMA MoveMoved ==
    ASSUME HandshakeTypes, DataTypes, Dma, InStep, DmaMoved, MoveByDma
    PROVE  DmaMoved'
  <1>0. PICK k, l : k = channel.next /\ l = call.lba + total + k
    OBVIOUS
  <1>1. /\ phase = "busy" /\ channel.left > 0 /\ ~AtEnd /\ command' = NextSector
        /\ channel' = [next |-> k + 1, left |-> channel.left - 1]
        /\ UNCHANGED <<present, calls, call, total, seg, buffer, before>>
        /\ UNCHANGED <<phase, out, reply, pc, stage, result>>
    BY <1>0 DEF MoveByDma, Executing, config, driver
  <1>2. pc = "wait" /\ stage = "transfer"
    BY <1>1 DEF InStep, Quiet, Seeking, Sought, Moved, HandshakeTypes
  <1>3. DmaTurn /\ InTurn /\ Transferring /\ InTransfer
    BY <1>2 DEF DmaMoved, DmaTurn, InTransfer
  <1>4. /\ k \in Nat /\ k < seg.sectors /\ seg.sectors \in Nat /\ CommandAt(k)
        /\ channel.left = seg.sectors - k /\ seg.sectors <= call.sectors - total
        /\ seg.sectors <= MaxSegment /\ call.sectors \in Nat /\ call.lba \in Nat /\ total \in Nat
    <2>1. /\ k \in 0 .. seg.sectors /\ channel.left = seg.sectors - k /\ CommandAt(k)
      BY <1>0, <1>3 DEF Transferring
    <2>2. call.sectors \in Nat /\ call.lba \in Nat
      BY DEF DataTypes
    <2>3. total \in Nat /\ seg.sectors \in 1 .. call.sectors - total
      BY <1>3, <2>2 DEF InTurn, HandshakeTypes
    <2>4. seg.sectors = Least(call.sectors - total, MaxSegment)
      BY <1>3 DEF DmaTurn, Left
    <2>5. seg.sectors <= MaxSegment
      BY <2>2, <2>3, <2>4, Sizes DEF Least
    <2> QED
      BY <1>1, <2>1, <2>2, <2>3, <2>5
  <1>5. LbaOf(command) = l /\ command.dir = call.dir
    BY <1>0, <1>1, <1>3, <1>4, CommandPlace DEF CommandAt
  <1>6. CommandAt(k + 1)'
    BY <1>1, <1>3, <1>4, CommandMoves
  <1>7. k \in DOMAIN dmabuf /\ l \in DOMAIN disk /\ l \in Nat
    <2>1. k \in 0 .. 2 * MaxSegment - 1 /\ total + k \in 0 .. call.sectors - 1
      BY <1>4, Sizes
    <2>2. call.lba + (total + k) \in DOMAIN disk
      BY <2>1, OnDisk
    <2>3. call.lba + (total + k) = l /\ l \in Nat
      BY <1>0, <1>4
    <2>4. k \in DOMAIN dmabuf
      BY <2>1 DEF DataTypes
    <2> QED
      BY <2>2, <2>3, <2>4
  <1>8. First' = First /\ InTurn'
    BY <1>1, <1>3 DEF First, InTurn
  <1>9. CASE call.dir = "read"
    <2>1. dmabuf' = [dmabuf EXCEPT ![k] = disk[l]] /\ disk' = disk
      BY <1>0, <1>5, <1>9 DEF MoveByDma
    <2>2. \A i \in 0 .. k : disk'[call'.lba + total' + i] = dmabuf'[i]
      <3> SUFFICES ASSUME NEW i \in 0 .. k PROVE disk'[call'.lba + total' + i] = dmabuf'[i]
        OBVIOUS
      <3>1. CASE i = k
        BY <1>0, <1>1, <1>7, <2>1, <3>1
      <3>2. CASE i # k
        <4>1. i \in 0 .. k - 1 /\ i \in DOMAIN dmabuf
          <5>1. i \in Nat /\ i <= k - 1
            BY <1>4, <3>2
          <5>2. i \in 0 .. 2 * MaxSegment - 1
            BY <1>4, <5>1, Sizes
          <5> QED
            BY <1>4, <5>1, <5>2 DEF DataTypes
        <4>2. disk[call.lba + total + i] = dmabuf[i]
          BY <1>0, <1>3, <1>9, <4>1 DEF Transferring
        <4> QED
          BY <1>1, <2>1, <3>2, <4>1, <4>2
      <3> QED
        BY <3>1, <3>2
    <2>3. Transferring'
      BY <1>1, <1>4, <1>6, <1>9, <2>2 DEF Transferring
    <2>4. DmaTurn'
      BY <1>1, <1>3, <1>8, <1>9, <2>3 DEF DmaTurn, Left
    <2>5. \A i : Same(i)' <=> Same(i)
      BY <1>1, <2>1 DEF Same
    <2> QED
      BY <1>1, <1>2, <1>8, <1>9, <2>1, <2>4, <2>5 DEF DmaMoved
  <1>10. CASE call.dir = "write"
    <2>1. disk' = [disk EXCEPT ![l] = dmabuf[k]] /\ dmabuf' = dmabuf
      BY <1>0, <1>5, <1>10 DEF MoveByDma
    <2>2. \A i \in Int : i # total + k => (Same(i)' <=> Same(i))
      <3> SUFFICES ASSUME NEW i \in Int, i # total + k PROVE Same(i)' <=> Same(i)
        OBVIOUS
      <3>1. call.lba + i # l
        <4>1. PICK a \in Int, b \in Int : a = call.lba /\ b = total
          BY <1>4
        <4> QED
          BY <1>0, <1>4, <4>1
      <3>2. disk'[call.lba + i] = disk[call.lba + i]
        BY <2>1, <3>1
      <3> QED
        BY <1>1, <3>2 DEF Same
    <2>3. total = 0 => \A i \in 0 .. k : Same(i)'
      <3> SUFFICES ASSUME total = 0, NEW i \in 0 .. k PROVE Same(i)'
        OBVIOUS
      <3>1. CASE i = k
        <4>1. disk'[call.lba + i] = dmabuf[k]
          BY <1>0, <1>4, <1>7, <2>1, <3>1
        <4>2. dmabuf[k] = buffer[k]
          BY <1>3, <1>4, <1>10 DEF DmaTurn
        <4> QED
          BY <1>1, <3>1, <4>1, <4>2 DEF Same
      <3>2. CASE i # k
        <4>1. Same(i)
          BY <1>0, <1>3, <1>4, <1>10, <3>2 DEF Transferring
        <4> QED
          BY <1>4, <2>2, <3>2, <4>1
      <3> QED
        BY <3>1, <3>2
    <2>4. Transferring'
      BY <1>1, <1>4, <1>6, <1>10, <2>3 DEF Transferring
    <2>5. DmaTurn'
      BY <1>1, <1>3, <1>8, <1>10, <2>1, <2>4 DEF DmaTurn, Left
    <2>6. \A m \in Sectors : disk'[m] # before'[m] => m - call'.lba \in 0 .. call'.sectors - 1
      <3> SUFFICES ASSUME NEW m \in Sectors, disk'[m] # before'[m]
                   PROVE  m - call'.lba \in 0 .. call'.sectors - 1
        OBVIOUS
      <3>1. CASE m = l
        BY <1>0, <1>1, <1>4, <3>1
      <3>2. CASE m # l
        BY <1>1, <1>10, <2>1, <3>2 DEF DmaMoved, DataTypes
      <3> QED
        BY <3>1, <3>2
    <2>7. total > 0 => total >= First /\ \A i \in 0 .. First - 1 : Same(i)'
      <3> SUFFICES ASSUME total > 0 PROVE total >= First /\ \A i \in 0 .. First - 1 : Same(i)'
        OBVIOUS
      <3>1. total >= First /\ \A i \in 0 .. First - 1 : Same(i)
        BY <1>10 DEF DmaMoved
      <3>2. First \in Int
        <4>1. lba_2_chs(call.lba).sector \in Int
          BY <1>4, ChsInverse
        <4> QED
          BY <1>4, <4>1, Sizes DEF First, Least
      <3> QED
        BY <1>4, <2>2, <3>1, <3>2
    <2> QED
      BY <1>1, <1>2, <1>8, <1>10, <2>5, <2>6, <2>7 DEF DmaMoved, Sectors
  <1> QED
    BY <1>9, <1>10 DEF HandshakeTypes

(* the end of a transfer that succeeded has moved the sectors of its turn   *)
LEMMA TrackDoneMoved ==
    ASSUME HandshakeTypes, DataTypes, DataTypes', Dma, InStep, DmaMoved, TrackDone
    PROVE  DmaMoved'
  <1>1. /\ pc = "reply" /\ stage = "transfer" /\ Len(reply) = 7
        /\ UNCHANGED <<present, calls, call, seg, disk, before, dmabuf>>
    BY DEF TrackDone, config, data
  <1>2. DmaTurn /\ InTurn /\ Transferring
    BY <1>1 DEF DmaMoved, DmaTurn, InTransfer
  <1>3. /\ total \in 0 .. call.sectors - 1 /\ call.sectors \in Nat /\ call.lba \in Nat
        /\ seg.sectors \in 1 .. call.sectors - total /\ seg.sectors \in Nat
    BY <1>2 DEF InTurn, DataTypes, HandshakeTypes
  <1>4. seg_read \in 1 .. seg.sectors
    BY <1>2, TurnSectors
  <1>5. reply \o out = reply /\ phase # "busy"
    <2>1. Len(reply) + Len(out) = 7 /\ phase # "busy" /\ reply \in Seq(Int) /\ out \in Seq(Int)
      BY <1>1 DEF InStep, HandshakeTypes, Asked
    <2>2. out = <<>>
      BY <1>1, <2>1
    <2> QED
      BY <2>1, <2>2
  <1>6. calculate_error(reply) = 0 => channel.next >= seg_read /\ channel.next \in Nat
    BY <1>2, <1>3, <1>5 DEF Transferring, Honest
  <1>7. CASE calculate_error(reply) # 0
    <2>1. /\ UNCHANGED <<buffer, total>> /\ pc' \in {"command", "idle"}
          /\ pc' = "idle" => result' # 0
      BY <1>7 DEF TrackDone, Retry, Returns
    <2> QED
      BY <1>1, <2>1, KeepsMoved DEF InTransfer
  <1>8. CASE calculate_error(reply) = 0
    <2>1. /\ total' = total + seg_read /\ pc' = "turn"
          /\ buffer' = IF call.dir = "read"
                       THEN [i \in DOMAIN buffer |->
                                IF i \in total .. total + seg_read - 1
                                THEN dmabuf[i - total] ELSE buffer[i]]
                       ELSE buffer
      BY <1>8 DEF TrackDone, Dma
    <2>2. total' \in 0 .. call.sectors /\ total' > 0 /\ total' \in Nat
      BY <1>3, <1>4, <2>1
    <2>3. First' = First /\ First \in Int
      <3>1. lba_2_chs(call.lba).sector \in Int
        BY <1>3, ChsInverse
      <3> QED
        BY <1>1, <1>3, <3>1, Sizes DEF First, Least
    <2>4. CASE call.dir = "read"
      <3>1. \A i \in 0 .. total' - 1 : Same(i)'
        <4> SUFFICES ASSUME NEW i \in 0 .. total' - 1 PROVE Same(i)'
          OBVIOUS
        <4>1. i \in DOMAIN buffer /\ i \in Nat
          BY <1>3, <2>1, <2>2 DEF DataTypes
        <4>2. CASE i < total
          <5>1. Same(i)
            BY <1>3, <2>4, <4>2 DEF DmaMoved
          <5>2. buffer'[i] = buffer[i]
            BY <1>3, <2>1, <2>4, <4>1, <4>2
          <5> QED
            BY <1>1, <5>1, <5>2 DEF Same
        <4>3. CASE i >= total
          <5>1. buffer'[i] = dmabuf[i - total]
            <6>1. i \in total .. total + seg_read - 1
              BY <1>3, <1>4, <2>1, <4>1, <4>3
            <6> QED
              BY <2>1, <2>4, <4>1, <6>1
          <5>2. i - total \in 0 .. channel.next - 1
            BY <1>3, <1>4, <1>6, <1>8, <2>1, <4>3
          <5>3. disk[call.lba + total + (i - total)] = dmabuf[i - total]
            BY <1>2, <2>4, <5>2 DEF Transferring
          <5>4. call.lba + total + (i - total) = call.lba + i
            BY <1>3
          <5> QED
            BY <1>1, <5>1, <5>3, <5>4 DEF Same
        <4> QED
          BY <1>3, <4>2, <4>3
      <3>2. present /\ disk = before
        BY <1>2, <2>4 DEF DmaTurn, DmaMoved
      <3> QED
        BY <1>1, <2>1, <2>2, <2>4, <3>1, <3>2 DEF DmaMoved
    <2>5. CASE call.dir = "write"
      <3>1. \A i : Same(i)' <=> Same(i)
        BY <1>1, <2>1, <2>5 DEF Same
      <3>2. total' >= First /\ \A i \in 0 .. First - 1 : Same(i)
        <4>1. CASE total = 0
          <5>1. seg_read = First
            BY <1>2, <1>3, <4>1, TurnSectors DEF DmaTurn, First, Left
          <5>2. \A i \in 0 .. channel.next - 1 : Same(i)
            BY <1>2, <2>5, <4>1 DEF Transferring
          <5> QED
            BY <1>3, <1>4, <1>6, <1>8, <2>1, <4>1, <5>1, <5>2
        <4>2. CASE total > 0
          BY <1>3, <1>4, <2>1, <2>3, <2>5, <4>2 DEF DmaMoved
        <4> QED
          BY <1>3, <4>1, <4>2
      <3>3. present
        BY <1>2 DEF DmaTurn
      <3> QED
        BY <1>1, <2>1, <2>2, <2>3, <2>5, <3>1, <3>2, <3>3 DEF DmaMoved, Sectors
    <2> QED
      BY <2>4, <2>5 DEF HandshakeTypes
  <1> QED
    BY <1>7, <1>8

(* without DMA, no step is one of the above                                 *)
LEMMA StepMoved ==
    ASSUME HandshakeTypes, DataTypes, DataTypes', Dma, InStep, DmaMoved, Driver \/ Controller
    PROVE  DmaMoved'
  <1>1. ~PollEnds /\ ~MoveByPio
    BY PollInStep DEF MoveByPio, Dma
  <1> QED
    BY <1>1, EndMoved, TurnMoved, SendMoved, WaitMoved, ReadMoved, SeekDoneMoved, TrackDoneMoved,
       MoveMoved, FinishMoved DEF Driver, Controller

-----------------------------------------------------------------------------
(***************************************************************************)
(* What the first call without DMA moves.                                  *)
(***************************************************************************)
Pio == mode = "pio" /\ present

LEMMA PioTurnMoved ==
    ASSUME HandshakeTypes, DataTypes, mode = "pio", OnOneTrack, FirstCall, Turn
    PROVE  FirstCall'
  <1>1. /\ pc = "turn" /\ total < call.sectors /\ pc' = "command" /\ stage' = "transfer"
        /\ UNCHANGED <<call, total, index, phase>> /\ tries' = 0 /\ reply' = <<>>
        /\ \/ call.dir = "read" /\ NextTurn(Left)
           \/ call.dir = "write" /\ NextTurn(Least(Left, sectors_per_track))
    BY DEF Turn, ReadTurnDma, WriteTurnDma, ReadTurnPio, WriteTurnPio, NextTurn, controller
  <1>2. total = 0 /\ index = 0 /\ phase = "idle" /\ call.sectors \in Nat \ {0} /\ call.lba \in Nat
    BY <1>1 DEF FirstCall, DataTypes
  <1>3. PICK chs : /\ chs = lba_2_chs(call.lba)
                   /\ chs.cylinder \in Nat /\ chs.head \in {0, 1}
                   /\ chs.sector \in 1 .. sectors_per_track /\ LbaOf(chs) = call.lba
    BY <1>2, ChsInverse
  <1>4. Left = call.sectors /\ Least(Left, sectors_per_track) = call.sectors
    BY <1>2, <1>3, Sizes DEF OnOneTrack, Left, Least
  <1>5. seg' = [cylinder |-> chs.cylinder, head |-> chs.head, sector |-> chs.sector,
                sectors |-> call.sectors, final |-> Final(call.sectors, chs.sector)]
    <2>1. NextTurn(call.sectors)
      BY <1>1, <1>4
    <2>2. call.lba + total = call.lba
      BY <1>2
    <2> QED
      BY <1>3, <2>1, <2>2 DEF NextTurn
  <1>6. InTurn'
    <2>1. LbaOf(seg') = LbaOf(chs)
      BY <1>5 DEF LbaOf
    <2> QED
      BY <1>1, <1>2, <1>3, <1>5, <2>1 DEF InTurn, LbaOf, Final, Least
  <1>7. PioTurn'
    BY <1>1, <1>2, <1>5, <1>6 DEF PioTurn
  <1> QED
    BY <1>1, <1>2, <1>7 DEF FirstCall

LEMMA Cancel ==
    ASSUME NEW x \in Int, NEW p \in Int, NEW y \in Int, NEW q \in Int, NEW m \in Int,
           m = x + p - 1, m = y + q - 1
    PROVE  x + p = y + q
  OBVIOUS

(* what a turn of the first call is: all of it, on one track                *)
LEMMA PioSectors ==
    ASSUME HandshakeTypes, DataTypes, OnOneTrack, PioTurn
    PROVE  /\ seg_read = call.sectors /\ seg.sectors = call.sectors /\ total = 0
           /\ call.sectors \in Nat \ {0} /\ call.lba \in Nat
           /\ seg.final = seg.sector + call.sectors - 1 /\ seg.final <= sectors_per_track
           /\ seg.sector \in 1 .. sectors_per_track /\ seg.head \in {0, 1} /\ seg.cylinder \in Nat
           /\ call.lba = (2 * seg.cylinder + seg.head) * sectors_per_track + seg.sector - 1
  <1>1. /\ InTurn /\ total = 0 /\ seg.sectors = call.sectors
        /\ call.sectors \in Nat /\ call.lba \in Nat
    BY DEF PioTurn, DataTypes
  <1>2. /\ seg.sector \in 1 .. sectors_per_track /\ seg.head \in {0, 1} /\ seg.cylinder \in Nat
        /\ LbaOf(seg) = call.lba /\ call.sectors # 0
    BY <1>1 DEF InTurn
  <1>3. call.lba = (2 * seg.cylinder + seg.head) * sectors_per_track + seg.sector - 1
    BY <1>2 DEF LbaOf
  <1>4. lba_2_chs(call.lba).sector = seg.sector
    <2>1. PICK chs : /\ chs = lba_2_chs(call.lba)
                     /\ chs.cylinder \in Nat /\ chs.head \in {0, 1}
                     /\ chs.sector \in 1 .. sectors_per_track /\ LbaOf(chs) = call.lba
      BY <1>1, ChsInverse
    <2>2. PICK a \in Int, b \in Int : /\ a = 2 * chs.cylinder + chs.head
                                      /\ b = 2 * seg.cylinder + seg.head
      BY <1>2, <2>1
    <2>3. a * sectors_per_track + chs.sector = b * sectors_per_track + seg.sector
      <3>1. call.lba = (2 * chs.cylinder + chs.head) * sectors_per_track + chs.sector - 1
        BY <2>1 DEF LbaOf
      <3>2. PICK x \in Int, y \in Int : x = a * sectors_per_track /\ y = b * sectors_per_track
        BY <2>2, Sizes
      <3>3. call.lba = x + chs.sector - 1 /\ call.lba = y + seg.sector - 1
        BY <1>3, <2>2, <3>1, <3>2
      <3>4. PICK p \in Int, q \in Int, m \in Int : p = chs.sector /\ q = seg.sector /\ m = call.lba
        BY <1>1, <1>2, <2>1, Sizes
      <3>5. x + p = y + q
        <4>1. m = x + p - 1
          BY <3>3, <3>4
        <4>2. m = y + q - 1
          BY <3>3, <3>4
        <4> QED
          BY <4>1, <4>2, Cancel
      <3> QED
        BY <3>2, <3>4, <3>5
    <2>4. a = b
      <3>1. (a - b) * sectors_per_track = a * sectors_per_track - b * sectors_per_track
        BY <2>2, Sizes
      <3>2. CASE a - b >= 1
        <4>1. (a - b) * sectors_per_track >= sectors_per_track
          BY <2>2, <3>2, Sizes
        <4> QED
          BY <1>2, <2>1, <2>2, <2>3, <3>1, <4>1, Sizes
      <3>3. CASE a - b <= -1
        <4>1. (a - b) * sectors_per_track <= -sectors_per_track
          BY <2>2, <3>3, Sizes
        <4> QED
          BY <1>2, <2>1, <2>2, <2>3, <3>1, <4>1, Sizes
      <3> QED
        BY <2>2, <3>2, <3>3
    <2> QED
      BY <1>2, <2>1, <2>2, <2>3, <2>4, Sizes
  <1>5. seg.final = seg.sector + call.sectors - 1 /\ seg.final <= sectors_per_track
    BY <1>1, <1>2, <1>4, Sizes DEF OnOneTrack, InTurn, Final, Least
  <1> QED
    BY <1>1, <1>2, <1>3, <1>5 DEF seg_read

LEMMA PioCommandMoved ==
    ASSUME HandshakeTypes, DataTypes, OnOneTrack, FirstCall, PioCommand
    PROVE  FirstCall'
  <1>1. /\ pc = "command" /\ pc' = "poll"
        /\ UNCHANGED <<call, total, seg, stage, tries, reply, index, buffer, disk>>
        /\ IF phase = "idle"
           THEN /\ phase' = "busy"
                /\ command' = [dir |-> call.dir, cylinder |-> seg.cylinder,
                               head |-> seg.head, sector |-> seg.sector, final |-> seg.final]
           ELSE UNCHANGED <<phase, command>>
    BY DEF PioCommand, SendCommand
  <1>2. PioTurn
    BY <1>1 DEF FirstCall
  <1>3. seg.sector \in Int /\ call.sectors \in Nat
    BY DEF HandshakeTypes, DataTypes
  <1>4. InTurn'
    BY <1>1, <1>2 DEF PioTurn, InTurn
  <1>5. tries = 0 => /\ phase = "idle" /\ index = 0 /\ reply = <<>>
    BY <1>1, <1>2 DEF PioTurn
  <1>6. tries = 0 => PioAt'
    BY <1>1, <1>3, <1>5 DEF PioAt
  <1>7. PioTurn'
    BY <1>1, <1>2, <1>4, <1>5, <1>6 DEF PioTurn
  <1> QED
    BY <1>1, <1>7 DEF FirstCall

(* a step of the poll and the reply that moves nothing                      *)
LEMMA KeepsFirst ==
    ASSUME FirstCall, pc \in {"poll", "reply"}, pc' \in {"poll", "reply"},
           UNCHANGED <<call, total, seg, stage, tries, command, index, buffer, disk>>,
           tries = 0 => /\ pc' = "poll" => reply' = <<>> /\ phase' # "idle"
                        /\ pc' = "poll" /\ phase' = "result" => Honest(out', index)
                        /\ pc' = "reply" => phase' # "busy" /\ Honest(reply' \o out', index)
    PROVE  FirstCall'
  <1>1. PioTurn
    BY DEF FirstCall
  <1>2. InTurn'
    BY <1>1 DEF PioTurn, InTurn
  <1>3. \A i : Same(i)' <=> Same(i)
    BY DEF Same
  <1>4. tries = 0 => PioAt'
    BY <1>1, <1>3 DEF PioTurn, PioAt
  <1>5. tries = 0 => /\ pc' = "poll" /\ phase' = "result" => Honest(out, index)'
                     /\ pc' = "reply" => Honest(reply \o out, index)'
    BY DEF Honest, seg_read, calculate_error, Bit
  <1>6. PioTurn'
    BY <1>1, <1>2, <1>4, <1>5 DEF PioTurn
  <1> QED
    BY <1>6 DEF FirstCall

LEMMA PollFirst ==
    ASSUME HandshakeTypes, FirstCall, PollEnds
    PROVE  FirstCall'
  <1>1. /\ pc = "poll" /\ pc' = "reply" /\ phase # "busy"
        /\ UNCHANGED <<call, total, seg, stage, tries, command, index, buffer, disk>>
        /\ UNCHANGED <<reply, phase, out>>
    BY DEF PollEnds, controller, data
  <1>2. tries = 0 => reply = <<>> /\ phase = "result" /\ Honest(out, index)
    BY <1>1 DEF FirstCall, PioTurn, HandshakeTypes
  <1>3. <<>> \o out = out
    BY DEF HandshakeTypes
  <1> QED
    BY <1>1, <1>2, <1>3, KeepsFirst

LEMMA ReadFirst ==
    ASSUME HandshakeTypes, FirstCall, ReadData
    PROVE  FirstCall'
  <1>1. /\ pc = "reply" /\ pc' = "reply" /\ Len(reply) < Asked
        /\ UNCHANGED <<call, total, seg, stage, tries, command, index, buffer, disk>>
    BY DEF ReadData, data
  <1>2. tries = 0 => phase' # "busy" /\ Honest(reply' \o out', index)
    <2> SUFFICES ASSUME tries = 0 PROVE phase' # "busy" /\ Honest(reply' \o out', index)
      OBVIOUS
    <2>1. stage = "transfer" /\ phase # "busy" /\ Honest(reply \o out, index)
      BY <1>1 DEF FirstCall, PioTurn
    <2>2. reply \in Seq(Int) /\ out \in Seq(Int) /\ Len(reply \o out) = 7 /\ Len(reply) < 7
      BY <1>1, <2>1 DEF Honest, HandshakeTypes, Asked
    <2>3. out # <<>>
      <3>1. reply \o <<>> = reply
        BY <2>2
      <3> QED
        BY <2>2, <3>1
    <2>4. phase = "result"
      BY <2>3 DEF HandshakeTypes
    <2>5. reply' \o out' = reply \o out /\ phase' # "busy"
      BY <2>2, <2>3, <2>4, HeadMoves DEF ReadData
    <2> QED
      BY <2>1, <2>5
  <1> QED
    BY <1>1, <1>2, KeepsFirst

(* the controller is at its end only behind the sectors of the call, and    *)
(* while the index counts, at the sector the index has come to              *)
LEMMA PioPlace ==
    ASSUME HandshakeTypes, DataTypes, OnOneTrack, PioTurn, PioAt
    PROVE  /\ AtEnd => index = call.sectors
           /\ index < call.sectors => LbaOf(command) = call.lba + index
           /\ index = call.sectors /\ ~AtEnd =>
                  LbaOf(command) >= call.lba + call.sectors /\ command.head = 1 /\ seg.head = 0
  <1> DEFINE t == sectors_per_track
  <1>1. /\ seg.final = seg.sector + call.sectors - 1 /\ seg.final <= t
        /\ call.sectors \in Nat \ {0} /\ seg.sector \in 1 .. t /\ seg.cylinder \in Nat
        /\ call.lba = (2 * seg.cylinder + seg.head) * t + seg.sector - 1
        /\ call.lba \in Nat
    BY PioSectors
  <1>2. index \in 0 .. call.sectors /\ command.cylinder = seg.cylinder /\ command.final = seg.final
    BY DEF PioAt
  <1>3. LbaOf(command) = (2 * command.cylinder + command.head) * t + command.sector - 1
    BY DEF LbaOf
  <1>4. CASE command.head = seg.head /\ command.sector = seg.sector + index
    <2>1. PICK x : x = (2 * seg.cylinder + seg.head) * t
      OBVIOUS
    <2>2. LbaOf(command) = x + (seg.sector + index) - 1 /\ call.lba = x + seg.sector - 1
      BY <1>1, <1>2, <1>3, <1>4, <2>1
    <2>3. x \in Int
      <3>1. seg.head \in Int
        BY DEF HandshakeTypes
      <3> QED
        BY <1>1, <2>1, <3>1, Sizes
    <2>4. AtEnd <=> seg.sector + index > seg.final
      BY <1>2, <1>4 DEF AtEnd
    <2>5. index = call.sectors <=> AtEnd
      BY <1>1, <1>2, <2>4
    <2>6. LbaOf(command) = call.lba + index
      BY <1>1, <1>2, <2>2, <2>3
    <2> QED
      BY <1>2, <2>5, <2>6
  <1>5. CASE /\ index = call.sectors /\ seg.head = 0
             /\ command.head = 1 /\ command.sector \in 1 .. sectors_per_track + 1
    <2>1. PICK x \in Int : x = (2 * seg.cylinder + 0) * t
      BY <1>1, Sizes
    <2>2. (2 * seg.cylinder + 1) * t = x + t
      BY <1>1, <2>1, Products, Sizes
    <2>3. LbaOf(command) = x + t + command.sector - 1 /\ call.lba = x + seg.sector - 1
      BY <1>1, <1>2, <1>3, <1>5, <2>1, <2>2
    <2>4. LbaOf(command) >= call.lba + call.sectors
      BY <1>1, <1>5, <2>1, <2>3, Sizes
    <2> QED
      BY <1>1, <1>5, <2>4
  <1> QED
    BY <1>4, <1>5 DEF PioAt

LEMMA MoveFirst ==
    ASSUME HandshakeTypes, DataTypes, OnOneTrack, FirstCall, MoveByPio
    PROVE  FirstCall'
  <1>1. /\ pc = "poll" /\ phase = "busy" /\ ~AtEnd /\ command' = NextSector
        /\ index' = IF index < seg.sectors THEN index + 1 ELSE index
        /\ IF command.dir = "read"
           THEN /\ buffer' = IF index < seg.sectors
                             THEN [buffer EXCEPT ![index] = disk[LbaOf(command)]] ELSE buffer
                /\ disk' = disk
           ELSE /\ disk' = [disk EXCEPT ![LbaOf(command)] =
                                  IF index < seg.sectors THEN buffer[index] ELSE Zero]
                /\ buffer' = buffer
        /\ UNCHANGED <<pc, call, total, seg, stage, tries, reply, phase, out>>
    BY DEF MoveByPio, Executing, driver
  <1>2. PioTurn /\ InTurn
    BY <1>1 DEF FirstCall, PioTurn
  <1>3. InTurn'
    BY <1>1, <1>2 DEF InTurn
  <1>4. ASSUME tries = 0 PROVE PioAt'
    <2>1. PioAt
      BY <1>1, <1>2, <1>4 DEF PioTurn
    <2>2. /\ seg.sectors = call.sectors /\ call.sectors \in Nat \ {0} /\ call.lba \in Nat
          /\ seg.final = seg.sector + call.sectors - 1 /\ seg.final <= sectors_per_track
          /\ seg.sector \in 1 .. sectors_per_track /\ seg.head \in {0, 1}
      BY <1>2, PioSectors
    <2>3. /\ index \in 0 .. call.sectors /\ command.dir = call.dir
          /\ command.cylinder = seg.cylinder /\ command.final = seg.final
          /\ \A i \in 0 .. index - 1 : Same(i)
      BY <2>1 DEF PioAt
    <2>4. /\ command'.dir = call.dir /\ command'.cylinder = seg.cylinder
          /\ command'.final = seg.final
          /\ IF command.sector = seg.final /\ command.head = 0
             THEN command'.head = 1 /\ command'.sector = 1
             ELSE command'.head = command.head /\ command'.sector = command.sector + 1
      BY <1>1, <2>3 DEF NextSector, HandshakeTypes, Commands
    <2>5. CASE index < call.sectors
      <3>1. index' = index + 1 /\ index \in Nat
        BY <1>1, <2>2, <2>3, <2>5
      <3>2. command.head = seg.head /\ command.sector = seg.sector + index
        BY <2>1, <2>5, <2>3 DEF PioAt
      <3>3. PICK l : l = LbaOf(command) /\ l = call.lba + index
        BY <1>2, <2>1, <2>5, PioPlace
      <3>4. index \in DOMAIN buffer /\ l \in DOMAIN disk
        <4>1. index \in 0 .. call.sectors - 1
          BY <2>2, <2>5, <3>1
        <4> QED
          BY <3>3, <4>1, OnDisk
      <3>5. disk'[call.lba + index] = buffer'[index]
        BY <1>1, <2>2, <2>5, <3>3, <3>4
      <3>6. \A i \in 0 .. index - 1 : disk'[call.lba + i] = buffer'[i]
        <4> SUFFICES ASSUME NEW i \in 0 .. index - 1 PROVE disk'[call.lba + i] = buffer'[i]
          OBVIOUS
        <4>1. i # index /\ call.lba + i # l
          BY <2>2, <3>1, <3>3
        <4>2. disk[call.lba + i] = buffer[i]
          BY <2>3 DEF Same
        <4>3. buffer'[i] = buffer[i] /\ disk'[call.lba + i] = disk[call.lba + i]
          <5>1. i \in 0 .. call.sectors - 1
            BY <2>2, <2>5, <3>1
          <5>2. i \in DOMAIN buffer /\ call.lba + i \in DOMAIN disk
            BY <5>1, OnDisk
          <5> QED
            BY <1>1, <3>3, <4>1, <5>2
        <4> QED
          BY <4>2, <4>3
      <3>7. \A i \in 0 .. index' - 1 : Same(i)'
        BY <1>1, <3>1, <3>5, <3>6 DEF Same
      <3>8. \/ command'.head = seg.head /\ command'.sector = seg.sector + index'
            \/ /\ index' = call.sectors /\ seg.head = 0
               /\ command'.head = 1 /\ command'.sector \in 1 .. sectors_per_track + 1
        BY <2>2, <2>4, <2>5, <3>1, <3>2, Sizes
      <3> QED
        BY <1>1, <2>2, <2>4, <2>5, <3>1, <3>7, <3>8 DEF PioAt
    <2>6. CASE index = call.sectors
      <3>1. /\ LbaOf(command) >= call.lba + call.sectors /\ command.head = 1 /\ seg.head = 0
        BY <1>1, <1>2, <2>1, <2>6, PioPlace
      <3>2. index' = index /\ buffer' = buffer
        BY <1>1, <2>2, <2>6
      <3>3. \A i \in 0 .. index - 1 : Same(i)'
        <4> SUFFICES ASSUME NEW i \in 0 .. index - 1 PROVE Same(i)'
          OBVIOUS
        <4>1. Same(i) /\ call.lba + i < call.lba + call.sectors /\ call.lba + i \in Int
          BY <2>2, <2>3, <2>6
        <4>2. call.lba + i # LbaOf(command)
          BY <2>2, <3>1, <4>1
        <4>3. call.lba + i \in DOMAIN disk
          BY <2>2, <2>6, OnDisk
        <4>4. disk'[call.lba + i] = disk[call.lba + i]
          BY <1>1, <4>2, <4>3
        <4> QED
          BY <1>1, <3>2, <4>1, <4>4 DEF Same
      <3>4. command.sector \in 1 .. sectors_per_track
        <4>1. command.sector <= seg.final /\ command.sector \in Int
          BY <1>1, <2>3 DEF AtEnd, HandshakeTypes, Commands
        <4>2. command.sector \in 1 .. sectors_per_track + 1
          BY <2>1, <2>2, <3>1 DEF PioAt
        <4>3. sectors_per_track \in Int /\ seg.final \in Int
          BY Sizes DEF HandshakeTypes
        <4> QED
          BY <2>2, <4>1, <4>2, <4>3
      <3>5. command'.head = 1 /\ command'.sector \in 1 .. sectors_per_track + 1
        BY <2>4, <3>1, <3>4, Sizes
      <3> QED
        BY <1>1, <2>2, <2>3, <2>4, <2>6, <3>1, <3>2, <3>3, <3>5 DEF PioAt
    <2> QED
      BY <2>2, <2>3, <2>5, <2>6
  <1>5. PioTurn'
    BY <1>1, <1>2, <1>3, <1>4 DEF PioTurn
  <1> QED
    BY <1>1, <1>5 DEF FirstCall

LEMMA FinishFirst ==
    ASSUME HandshakeTypes, DataTypes, mode = "pio", OnOneTrack, FirstCall, Finish
    PROVE  FirstCall'
  <1>1. /\ phase = "busy" /\ phase' = "result"
        /\ UNCHANGED <<command, index, buffer, disk>>
        /\ UNCHANGED <<pc, call, total, seg, stage, tries, reply, result>>
    BY DEF Finish, Executing, data, driver
  <1>2. CASE pc \in {"idle", "turn"}
    <2>1. \A i : Same(i)' <=> Same(i)
      BY <1>1 DEF Same
    <2> QED
      BY <1>1, <1>2, <2>1 DEF FirstCall
  <1>3. CASE pc \in {"command", "poll", "reply"}
    <2>1. PioTurn
      BY <1>3 DEF FirstCall
    <2>2. CASE tries = 0
      <3>1. pc = "poll" /\ PioAt /\ reply = <<>>
        BY <1>1, <1>3, <2>1, <2>2 DEF PioTurn
      <3>2. AtEnd => index >= seg_read
        <4>1. seg_read = call.sectors /\ call.sectors \in Nat
          BY <2>1, PioSectors
        <4> QED
          BY <2>1, <3>1, <4>1, PioPlace
      <3>3. \/ index >= seg_read /\ \E a \in Int, b \in Int : out' = Result(a, b)
            \/ \E b \in {2, 4, 128} : out' = Result(64, b)
        BY <3>2 DEF Finish
      <3>4. Len(out') = 7
        BY <3>3 DEF Result
      <3>5. Honest(out', index)
        BY <3>3, <3>4, FailureIsError DEF Honest
      <3> QED
        BY <1>1, <3>1, <3>5, KeepsFirst
    <2>3. CASE tries # 0
      <3>1. InTurn'
        BY <1>1, <2>1 DEF PioTurn, InTurn
      <3>2. PioTurn'
        BY <1>1, <2>1, <2>3, <3>1 DEF PioTurn
      <3> QED
        BY <1>1, <1>3, <3>2 DEF FirstCall
    <2> QED
      BY <2>2, <2>3
  <1> QED
    BY <1>2, <1>3 DEF FirstCall

LEMMA TrackDoneFirst ==
    ASSUME HandshakeTypes, DataTypes, mode = "pio", OnOneTrack, FirstCall, TrackDone
    PROVE  FirstCall'
  <1>1. /\ pc = "reply" /\ stage = "transfer" /\ Len(reply) = 7 /\ buffer' = buffer
        /\ UNCHANGED <<call, seg, disk>>
    BY DEF TrackDone, data
  <1>2. PioTurn
    BY <1>1 DEF FirstCall
  <1>3. seg_read = call.sectors /\ total = 0 /\ call.sectors \in Nat \ {0}
    BY <1>2, PioSectors
  <1>4. \A i : Same(i)' <=> Same(i)
    BY <1>1 DEF Same
  <1>5. CASE calculate_error(reply) = 0
    <2>1. total' = call.sectors /\ pc' = "turn" /\ tries' = tries
      BY <1>3, <1>5 DEF TrackDone
    <2>2. tries = 0 => \A i \in 0 .. call.sectors - 1 : Same(i)
      <3> SUFFICES ASSUME tries = 0 PROVE \A i \in 0 .. call.sectors - 1 : Same(i)
        OBVIOUS
      <3>1. PioAt /\ Honest(reply \o out, index)
        BY <1>1, <1>2 DEF PioTurn
      <3>2. reply \o out = reply
        <4>1. reply \in Seq(Int) /\ out \in Seq(Int) /\ Len(reply \o out) = 7
          BY <3>1 DEF HandshakeTypes, Honest
        <4>2. out = <<>>
          <5>1. Len(reply \o out) = Len(reply) + Len(out) /\ Len(out) \in Nat
            BY <4>1
          <5>2. Len(out) = 0
            BY <1>1, <4>1, <5>1
          <5> QED
            BY <4>1, <5>2
        <4> QED
          BY <4>1, <4>2
      <3>3. index >= call.sectors /\ index \in 0 .. call.sectors
        BY <1>3, <1>5, <3>1, <3>2 DEF Honest, PioAt
      <3>4. index = call.sectors
        BY <1>3, <3>3
      <3> QED
        BY <3>1, <3>4 DEF PioAt
    <2> QED
      BY <1>1, <1>3, <1>4, <2>1, <2>2 DEF FirstCall
  <1>6. CASE calculate_error(reply) # 0
    <2>1. /\ total' = total /\ stage' = stage
          /\ \/ pc' = "command" /\ tries' = tries + 1
             \/ pc' = "idle" /\ result' # 0
      BY <1>6 DEF TrackDone, Retry, Returns
    <2>2. InTurn'
      BY <1>1, <1>2, <2>1 DEF PioTurn, InTurn
    <2>3. pc' = "command" => PioTurn'
      <3>1. tries' # 0 \/ pc' # "command"
        BY <2>1 DEF DataTypes
      <3> QED
        BY <1>1, <1>2, <2>1, <2>2, <3>1 DEF PioTurn
    <2> QED
      BY <1>1, <1>3, <2>1, <2>3 DEF FirstCall
  <1> QED
    BY <1>5, <1>6

(* without DMA there is no seek, and nothing waits for an interrupt         *)
LEMMA StepNoSeeks ==
    ASSUME HandshakeTypes, mode = "pio", NoSeeks, Driver \/ Controller
    PROVE  NoSeeks' /\ ~SendSeek /\ ~TrackCommand /\ ~Wait /\ ~Sense /\ ~SeekEnds /\ ~SeekDone
  <1>1. ~SendSeek /\ ~TrackCommand /\ ~Wait /\ ~Sense /\ ~SeekEnds /\ ~SeekDone
    BY DEF NoSeeks, SendSeek, TrackCommand, Wait, floppy_wait, Sense, SeekEnds, SeekDone
  <1>2. ASSUME Done \/ NoDriveDma \/ NoDrivePio PROVE NoSeeks'
    BY <1>2 DEF NoSeeks, Done, NoDriveDma, NoDrivePio, Returns, controller
  <1>3. ASSUME Turn PROVE NoSeeks'
    BY <1>3 DEF NoSeeks, Turn, ReadTurnDma, WriteTurnDma, ReadTurnPio, WriteTurnPio, NextTurn,
       controller
  <1>4. ASSUME PioCommand \/ PollEnds \/ ReadData PROVE NoSeeks'
    BY <1>4 DEF NoSeeks, PioCommand, SendCommand, PollEnds, ReadData, controller
  <1>5. ASSUME TrackDone PROVE NoSeeks'
    BY <1>5 DEF NoSeeks, TrackDone, Retry, Returns, controller
  <1>6. ASSUME MoveByDma \/ MoveByPio \/ Finish PROVE NoSeeks'
    BY <1>6 DEF NoSeeks, MoveByDma, MoveByPio, Finish, driver
  <1> QED
    BY <1>1, <1>2, <1>3, <1>4, <1>5, <1>6 DEF Driver, Controller

LEMMA DoneFirst ==
    ASSUME HandshakeTypes, DataTypes, Pio, FirstCall, Done \/ NoDriveDma \/ NoDrivePio
    PROVE  FirstCall'
  <1>1. /\ pc = "turn" /\ pc' = "idle" /\ total >= call.sectors
        /\ UNCHANGED <<call, total, tries, disk, buffer>>
    BY DEF Done, NoDriveDma, NoDrivePio, Returns, Pio, data
  <1>2. total = call.sectors
    BY <1>1 DEF FirstCall, DataTypes
  <1>3. \A i : Same(i)' <=> Same(i)
    BY <1>1 DEF Same
  <1> QED
    BY <1>1, <1>2, <1>3 DEF FirstCall

LEMMA StepFirst ==
    ASSUME HandshakeTypes, DataTypes, Pio, NoSeeks, OnOneTrack, FirstCall, Driver \/ Controller
    PROVE  FirstCall'
  <1>1. ~SendSeek /\ ~TrackCommand /\ ~Wait /\ ~Sense /\ ~SeekEnds /\ ~SeekDone
    BY StepNoSeeks DEF Pio
  <1>2. ~MoveByDma /\ mode = "pio"
    BY DEF Pio, MoveByDma
  <1> QED
    BY <1>1, <1>2, DoneFirst, PioTurnMoved, PioCommandMoved, PollFirst, ReadFirst, TrackDoneFirst,
       MoveFirst, FinishFirst DEF Driver, Controller

LEMMA CallFirst ==
    ASSUME DataTypes, PioMoved, NEW dir \in {"read", "write"}, Call(dir)
    PROVE  PioMoved'
  <1>1. /\ pc' = "turn" /\ total' = 0 /\ calls' = calls + 1 /\ calls \in Nat
        /\ UNCHANGED <<index, phase, reply>>
    BY DEF Call, DataTypes, controller
  <1>2. CASE calls = 0
    <2>1. call'.sectors # 0 /\ calls' = 1
      <3>1. PICK r \in Requests : call' = [dir |-> dir, sectors |-> r[1], lba |-> r[2]]
        BY DEF Call
      <3> QED
        BY <1>1, <1>2, <3>1, FloppyAssumption
    <2>2. FirstCall'
      BY <1>1, <1>2, <2>1 DEF PioMoved, FirstCall
    <2> QED
      BY <2>1, <2>2 DEF PioMoved
  <1>3. CASE calls # 0
    BY <1>1, <1>3 DEF PioMoved
  <1> QED
    BY <1>2, <1>3

(* before the first call the controller has nothing to do                   *)
LEMMA StepPio ==
    ASSUME HandshakeTypes, DataTypes, Pio, NoSeeks, PioMoved, Driver \/ Controller
    PROVE  PioMoved'
  <1>1. UNCHANGED <<call, calls>>
    BY DEF Driver, Controller, Turn, ReadTurnDma, WriteTurnDma, ReadTurnPio, WriteTurnPio,
       NextTurn, Done, NoDriveDma, NoDrivePio, SendSeek, TrackCommand, PioCommand, SendCommand,
       Wait, Sense, ReadData, SeekDone, TrackDone, PollEnds, SeekEnds, MoveByDma, MoveByPio,
       Finish, driver
  <1>2. calls # 0
    <2> SUFFICES ASSUME calls = 0 PROVE FALSE
      OBVIOUS
    <2>1. pc = "idle" /\ phase = "idle" /\ seeking = {}
      BY DEF DataTypes, PioMoved, NoSeeks
    <2>2. ~Controller
      BY <2>1 DEF Controller, SeekEnds, MoveByDma, MoveByPio, Finish, Executing
    <2>3. ~Driver
      BY <2>1 DEF Driver, Turn, ReadTurnDma, WriteTurnDma, ReadTurnPio, WriteTurnPio,
         NextTurn, Done, NoDriveDma, NoDrivePio, SendSeek, TrackCommand, PioCommand, SendCommand,
         Wait, floppy_wait, Sense, ReadData, SeekDone, TrackDone, PollEnds
    <2> QED
      BY <2>2, <2>3
  <1>3. OnOneTrack' <=> OnOneTrack
    BY <1>1 DEF OnOneTrack
  <1> QED
    BY <1>1, <1>2, <1>3, StepFirst DEF PioMoved

-----------------------------------------------------------------------------
LEMMA InitMovedInv == Init => MovedInv
  <1> SUFFICES ASSUME Init PROVE MovedInv
    OBVIOUS
  <1>1. NoSeeks
    BY DEF Init, NoSeeks
  <1>2. PioMoved
    BY DEF Init, PioMoved
  <1> QED
    BY <1>1, <1>2, InitData, InitMoved DEF MovedInv

LEMMA StepMovedInv ==
    ASSUME HInv, MovedInv, [Next]_vars
    PROVE  MovedInv'
  <1>1. HandshakeTypes /\ DataTypes /\ (Dma => InStep)
    BY DEF HInv, MovedInv, Dma
  <1>2. UNCHANGED <<mode, present, stray>>
    BY DEF vars, config, Next, Call, Driver, Controller, Turn, ReadTurnDma, WriteTurnDma,
       ReadTurnPio, WriteTurnPio, NextTurn, Done, NoDriveDma, NoDrivePio, SendSeek,
       TrackCommand, PioCommand, SendCommand, Wait, Sense, ReadData, SeekDone, TrackDone,
       PollEnds, SeekEnds, MoveByDma, MoveByPio, Finish
  <1>3. Dma' <=> Dma
    BY <1>2 DEF Dma
  <1>4. ASSUME NEW dir \in {"read", "write"}, Call(dir) PROVE MovedInv'
    <2>1. DataTypes'
      BY <1>1, <1>4, CallData
    <2>2. DmaMoved'
      BY <1>4, <2>1, CallMoved
    <2>3. mode = "pio" => NoSeeks'
      BY <1>4 DEF MovedInv, NoSeeks, Call, controller
    <2>4. mode = "pio" /\ present => PioMoved'
      BY <1>1, <1>4, CallFirst DEF MovedInv
    <2> QED
      BY <1>2, <1>3, <2>1, <2>2, <2>3, <2>4 DEF MovedInv
  <1>5. CASE Driver \/ Controller
    <2>1. DataTypes'
      BY <1>1, <1>5, StepData
    <2>2. Dma => DmaMoved'
      BY <1>1, <1>5, <2>1, StepMoved DEF MovedInv
    <2>3. mode = "pio" => NoSeeks'
      BY <1>1, <1>5, StepNoSeeks DEF MovedInv
    <2>4. mode = "pio" /\ present => PioMoved'
      BY <1>1, <1>5, StepPio DEF MovedInv, Pio
    <2> QED
      BY <1>2, <1>3, <2>1, <2>2, <2>3, <2>4 DEF MovedInv
  <1>6. CASE UNCHANGED vars
    <2>1. UNCHANGED <<mode, present, stray, pc, calls, call, total, seg, stage, tries, reply, result,
                      phase, out, command, seeking, index, channel, dmabuf, buffer, disk, before>>
      BY <1>6 DEF vars, config, driver, controller, data
    <2>2. DataTypes' <=> DataTypes
      BY <2>1 DEF DataTypes, Sectors
    <2>3. First' = First /\ seg_read' = seg_read /\ Left' = Left /\ (InTransfer' <=> InTransfer)
          /\ (InTurn' <=> InTurn) /\ (OnOneTrack' <=> OnOneTrack) /\ (NoSeeks' <=> NoSeeks)
          /\ \A i : Same(i)' <=> Same(i)
      BY <2>1 DEF First, seg_read, Left, InTransfer, InTurn, OnOneTrack, NoSeeks, Same
    <2>4. Transferring => Transferring'
      BY <2>1, KeepsTransferring DEF Transferring
    <2>5. DmaTurn => DmaTurn'
      BY <2>1, <2>3, <2>4 DEF DmaTurn
    <2>6. DmaMoved => DmaMoved'
      BY <2>1, <2>3, <2>5 DEF DmaMoved, Sectors
    <2>7. PioAt => PioAt'
      BY <2>1, <2>3 DEF PioAt
    <2>8. /\ Honest(out, index)' <=> Honest(out, index)
          /\ Honest(reply \o out, index)' <=> Honest(reply \o out, index)
      BY <2>1, <2>3 DEF Honest, calculate_error, Bit
    <2>9. PioTurn => PioTurn'
      BY <2>1, <2>3, <2>7, <2>8 DEF PioTurn
    <2>10. FirstCall => FirstCall'
      BY <2>1, <2>3, <2>9 DEF FirstCall
    <2>11. PioMoved => PioMoved'
      BY <2>1, <2>3, <2>10 DEF PioMoved
    <2> QED
      BY <1>2, <1>3, <2>2, <2>3, <2>6, <2>11 DEF MovedInv
  <1> QED
    BY <1>4, <1>5, <1>6 DEF Next

(* A call that returns 0 has moved its sectors: with DMA whatever was tried *)
(* again, a read all of them and a write those of its first turn, and a     *)
(* write changes no sector outside the request; without DMA the first       *)
(* transfer that succeeds at once.                                         *)
THEOREM MovedTheorem == Spec => []SuccessMeansMoved
  <1>1. Spec => [](HInv /\ MovedInv)
    <2>1. Init => MovedInv
      BY InitMovedInv
    <2>2. HInv /\ MovedInv /\ [Next]_vars => MovedInv'
      BY StepMovedInv
    <2> QED
      BY <2>1, <2>2, HInvHolds, PTL DEF Spec
  <1>2. HInv /\ MovedInv => SuccessMeansMoved
    <2> SUFFICES ASSUME HInv, MovedInv, pc = "idle", result = 0, calls > 0
                 PROVE  /\ Dma =>
                              /\ present
                              /\ IF call.dir = "read" THEN \A i \in 0 .. call.sectors - 1 : Same(i)
                                                      ELSE \A i \in 0 .. First - 1 : Same(i)
                              /\ \A l \in Sectors :
                                     disk[l] # before[l] => l - call.lba \in 0 .. call.sectors - 1
                        /\ mode = "pio" /\ present /\ OneTransfer =>
                              \A i \in 0 .. call.sectors - 1 : Same(i)
      BY DEF SuccessMeansMoved, Dma, First, Same
    <2>1. call.sectors > 0 /\ call.sectors \in Nat /\ call.dir \in {"read", "write"}
      BY DEF MovedInv, DataTypes, HInv, HandshakeTypes
    <2>2. ASSUME Dma
          PROVE  /\ present
                 /\ IF call.dir = "read" THEN \A i \in 0 .. call.sectors - 1 : Same(i)
                                         ELSE \A i \in 0 .. First - 1 : Same(i)
                 /\ \A l \in Sectors :
                        disk[l] # before[l] => l - call.lba \in 0 .. call.sectors - 1
      BY <2>1, <2>2 DEF MovedInv, DmaMoved
    <2>3. ASSUME mode = "pio", present, OneTransfer
          PROVE  \A i \in 0 .. call.sectors - 1 : Same(i)
      <3>1. FirstCall /\ tries = 0
        BY <2>3 DEF MovedInv, PioMoved, OneTransfer, OnOneTrack
      <3> QED
        BY <3>1 DEF FirstCall
    <2> QED
      BY <2>2, <2>3
  <1> QED
    BY <1>1, <1>2, PTL
=============================================================================
