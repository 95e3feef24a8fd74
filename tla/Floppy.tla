------------------------------- MODULE Floppy -------------------------------
(***************************************************************************)
(* drivers/floppy: reading and writing sectors with a floppy controller,    *)
(* either through the DMA channel and IRQ6 (floppy_dma.c) or byte by byte   *)
(* (floppy_pio.c), whichever floppy_init was asked for.                    *)
(*                                                                         *)
(* The controller is external and works at its own pace: it takes a        *)
(* command while it is idle, moves sector by sector, raises IRQ6 and keeps *)
(* the bytes of its result until they are read.  A write to the register   *)
(* at another time is lost (floppy_write_cmd gives up, and no caller looks *)
(* at its result); a read gives 0 while a command is executed.  All        *)
(* commands have MT set: after the last sector of head 0 the controller    *)
(* goes on with head 1, until the DMA channel has counted to its end.      *)
(* The motor is not modelled: nothing waits for it.                        *)
(***************************************************************************)
EXTENDS Integers, Sequences

CONSTANTS
    sectors_per_track,
    Cylinders,
    MaxSegment,     \* sectors of a DMA transfer (8)
    Requests,       \* the <<sectors, lba>> asked for
    MaxCalls,
    Tries,          \* of a transfer with DMA (20)
    SeekTries,      \* of a seek (10)
    PioTries,       \* of a transfer without (3)
    Garbage         \* what the data register gives while the controller is idle

ASSUME FloppyAssumption ==
    /\ sectors_per_track \in Nat \ {0} /\ MaxSegment \in Nat \ {0}
    /\ Tries > 0 /\ SeekTries > 0 /\ PioTries > 0
    /\ Cylinders \in Nat \ {0} /\ Garbage \subseteq 0 .. 255
    /\ Requests \subseteq (Nat \ {0}) \X Nat
    /\ \A r \in Requests : r[1] + r[2] <= 2 * sectors_per_track * Cylinders

VARIABLES
    mode, present,
    stray,          \* there was an interrupt before the first command
    pc, calls, call,
    total,          \* total_sectors
    seg,            \* what the current turn transfers
    stage,          \* "seek0", "seek1" or "transfer"
    tries, reply, result,
    floppy_dma_waiting,
    index,          \* floppy_buffer_index, in sectors
    phase, out,     \* of the controller, and the bytes of its result
    command,        \* what it executes, and the sector it has come to
    seeking, track, \* the cylinder it is moving to, if any, and where it is
    sensed,         \* the status a SENSE INTERRUPT will give, if any
    channel,        \* the DMA channel: the next place in dmabuf, and the rest
    dmabuf, buffer, disk,
    before          \* ghost: the disk when the call began

config     == <<mode, present, stray>>
driver     == <<pc, calls, call, total, seg, stage, tries, reply, result>>
controller == <<phase, out, command, seeking, track, sensed>>
data       == <<index, channel, dmabuf, buffer, disk>>
vars == <<config, driver, floppy_dma_waiting, controller, data, before>>

Sectors == 0 .. 2 * sectors_per_track * Cylinders - 1
Unread == -1
Zero   == -2
Fresh(i) == 100 + i     \* the i-th sector a caller writes

Least(a, b) == IF a < b THEN a ELSE b

Bit(byte, mask) == (byte \div mask) % 2 = 1

lba_2_chs(lba) ==
    LET t == sectors_per_track IN
    [cylinder |-> lba \div (2 * t),
     head     |-> (lba % (2 * t)) \div t,
     sector   |-> ((lba % (2 * t)) % t) + 1]

LbaOf(c) == (2 * c.cylinder + c.head) * sectors_per_track + c.sector - 1

NotWritable == 14
Failed      == 1

(* the error a result of seven bytes stands for                            *)
calculate_error(r) ==
    IF Bit(r[2], 2) THEN NotWritable
    ELSE IF \/ \E m \in {128, 64, 8}             : Bit(r[1], m)
            \/ \E m \in {128, 32, 16, 4, 1}      : Bit(r[2], m)
            \/ \E m \in {64, 32, 16, 4, 2, 1}    : Bit(r[3], m)
            \/ r[7] # 2
         THEN Failed ELSE 0

Init ==
    /\ mode \in {"dma", "pio"} /\ present \in BOOLEAN
    /\ stray \in IF mode = "dma" THEN BOOLEAN ELSE {FALSE}
    /\ pc = "idle" /\ calls = 0 /\ total = 0 /\ stage = "seek0"
    /\ call = [dir |-> "read", sectors |-> 0, lba |-> 0]
    /\ seg = [cylinder |-> 0, head |-> 0, sector |-> 1, sectors |-> 0, final |-> 0]
    /\ tries = 0 /\ reply = <<>> /\ result = 0
    /\ floppy_dma_waiting = IF stray THEN 0 ELSE 1
    /\ index = 0
    /\ phase = "idle" /\ out = <<>> /\ seeking = {} /\ track = 0 /\ sensed = {}
    /\ command = [dir |-> "read", cylinder |-> 0, head |-> 0, sector |-> 1, final |-> 0]
    /\ channel = [next |-> 0, left |-> 0]
    /\ dmabuf = [i \in 0 .. 2 * MaxSegment - 1 |-> Zero]
    /\ buffer = <<>>
    /\ disk = [l \in Sectors |-> l] /\ before = disk

-----------------------------------------------------------------------------
(* read_floppy_dma, write_floppy_dma, read_floppy_pio, write_floppy_pio    *)

Call(dir) ==
    /\ pc = "idle" /\ calls < MaxCalls
    /\ \E r \in Requests :
           /\ call' = [dir |-> dir, sectors |-> r[1], lba |-> r[2]]
           /\ buffer' = [i \in 0 .. r[1] - 1 |-> IF dir = "read" THEN Unread ELSE Fresh(i)]
    /\ calls' = calls + 1
    /\ total' = 0 /\ pc' = "turn" /\ before' = disk
    /\ UNCHANGED <<config, seg, stage, tries, reply, result, floppy_dma_waiting,
                   controller, index, channel, dmabuf, disk>>

Returns(code) == result' = code /\ pc' = "idle"

Done ==
    /\ pc = "turn" /\ total >= call.sectors
    /\ Returns(0)
    /\ UNCHANGED <<config, calls, call, total, seg, stage, tries, reply,
                   floppy_dma_waiting, controller, data, before>>

FinalOneMore(n, sector) == Least(n + sector, sectors_per_track)

(* the last sector of the track a turn asks for                            *)
Final(n, sector) == Least(n + sector - 1, sectors_per_track)

(* the next turn of the loop, for n sectors                                *)
NextTurn(n) ==
    LET chs == lba_2_chs(call.lba + total) IN
    /\ pc = "turn" /\ total < call.sectors /\ present
    /\ seg' = [cylinder |-> chs.cylinder, head |-> chs.head, sector |-> chs.sector,
               sectors |-> n, final |-> Final(n, chs.sector)]
    /\ tries' = 0 /\ reply' = <<>>
    /\ UNCHANGED <<config, calls, call, total, result, floppy_dma_waiting,
                   controller, index, channel, buffer, disk, before>>

Left == call.sectors - total

ReadTurnDma ==
    /\ mode = "dma" /\ call.dir = "read"
    /\ NextTurn(Least(Left, MaxSegment))
    /\ pc' = "seek" /\ stage' = "seek0"
    /\ UNCHANGED dmabuf

(* copies from the start of the caller's buffer, in every turn             *)
WriteTurnDma ==
    /\ mode = "dma" /\ call.dir = "write"
    /\ NextTurn(Least(Left, MaxSegment))
    /\ dmabuf' = [i \in DOMAIN dmabuf |->
                     IF i < Least(Left, MaxSegment) THEN buffer[i] ELSE dmabuf[i]]
    /\ pc' = "seek" /\ stage' = "seek0"

ReadTurnPio ==
    /\ mode = "pio" /\ call.dir = "read"
    /\ NextTurn(Left)
    /\ pc' = "command" /\ stage' = "transfer"
    /\ UNCHANGED dmabuf

WriteTurnPio ==
    /\ mode = "pio" /\ call.dir = "write"
    /\ NextTurn(Least(Left, sectors_per_track))
    /\ pc' = "command" /\ stage' = "transfer"
    /\ UNCHANGED dmabuf

NoDriveDma ==
    /\ mode = "dma" /\ ~present
    /\ pc = "turn" /\ total < call.sectors
    /\ Returns(Failed)
    /\ UNCHANGED <<config, calls, call, total, seg, stage, tries, reply,
                   floppy_dma_waiting, controller, data, before>>

(* the code returned is not taken for an error, and seg_read was never set *)
NoDrivePio ==
    /\ mode = "pio" /\ ~present
    /\ pc = "turn" /\ total < call.sectors
    /\ total' \in total .. call.sectors
    /\ UNCHANGED <<config, pc, calls, call, seg, stage, tries, reply, result,
                   floppy_dma_waiting, controller, data, before>>

seg_read == seg.final - seg.sector + 1

-----------------------------------------------------------------------------
(* floppy_seek and floppy_do_track                                         *)

SendSeek ==
    /\ pc = "seek"
    /\ pc' = "wait"
    /\ seeking' = IF phase = "idle" THEN {seg.cylinder} ELSE seeking
    /\ UNCHANGED <<config, calls, call, total, seg, stage, tries, reply, result,
                   floppy_dma_waiting, phase, out, command, track, sensed, data, before>>

SendCommand ==
    /\ pc = "command"
    /\ IF phase = "idle"
       THEN /\ phase' = "busy"
            /\ command' = [dir |-> call.dir, cylinder |-> seg.cylinder,
                           head |-> seg.head, sector |-> seg.sector, final |-> seg.final]
       ELSE UNCHANGED <<phase, command>>
    /\ UNCHANGED <<config, calls, call, total, seg, stage, tries, reply, result,
                   floppy_dma_waiting, out, seeking, track, sensed,
                   index, dmabuf, buffer, disk, before>>

floppy_dma_init == channel' = [next |-> 0, left |-> seg.sectors]

TrackCommand == mode = "dma" /\ floppy_dma_init /\ SendCommand /\ pc' = "wait"

PioCommand == mode = "pio" /\ UNCHANGED channel /\ SendCommand /\ pc' = "poll"

AfterWait == IF stage = "transfer" THEN "reply" ELSE "sense"

WaitKeeps ==
    \/ pc = "wait" /\ floppy_dma_waiting = 0 /\ pc' = "reset" /\ UNCHANGED floppy_dma_waiting
    \/ pc = "reset" /\ pc' = AfterWait /\ UNCHANGED floppy_dma_waiting

WaitResetsFirst ==
    \/ pc = "wait" /\ floppy_dma_waiting' = 1 /\ pc' = "reset"
    \/ pc = "reset" /\ floppy_dma_waiting = 0 /\ pc' = AfterWait /\ UNCHANGED floppy_dma_waiting

(* the loop on the flag and then its reset; IRQ6 may fall between them     *)
floppy_wait ==
    \/ pc = "wait" /\ floppy_dma_waiting = 0 /\ pc' = "reset" /\ UNCHANGED floppy_dma_waiting
    \/ pc = "reset" /\ floppy_dma_waiting' = 1 /\ pc' = AfterWait

Wait ==
    /\ floppy_wait
    /\ UNCHANGED <<config, calls, call, total, seg, stage, tries, reply, result,
                   controller, data, before>>

(* SENSE INTERRUPT: the status of the last seek, if it was not asked for   *)
Sense ==
    /\ pc = "sense"
    /\ pc' = "reply"
    /\ IF phase = "idle"
       THEN /\ phase' = "result" /\ sensed' = {}
            /\ \/ sensed = {} /\ out' = <<128>>
               \/ \E st0 \in sensed : out' = <<st0, track>>
       ELSE UNCHANGED <<phase, sensed, out>>
    /\ UNCHANGED <<config, calls, call, total, seg, stage, tries, reply, result,
                   floppy_dma_waiting, command, seeking, track, data, before>>

Asked == IF stage = "transfer" THEN 7 ELSE 2

(* floppy_read_data                                                        *)
ReadData ==
    /\ pc = "reply" /\ Len(reply) < Asked
    /\ \/ /\ phase = "result"
          /\ reply' = Append(reply, Head(out)) /\ out' = Tail(out)
          /\ phase' = IF Len(out) = 1 THEN "idle" ELSE phase
       \/ /\ phase = "busy"
          /\ reply' = Append(reply, 0) /\ UNCHANGED <<out, phase>>
       \/ /\ phase = "idle"
          /\ \E g \in Garbage : reply' = Append(reply, g)
          /\ UNCHANGED <<out, phase>>
    /\ UNCHANGED <<config, pc, calls, call, total, seg, stage, tries, result,
                   floppy_dma_waiting, command, seeking, track, sensed, data, before>>

(* once more, or no more tries                                             *)
Retry(limit, code, again) ==
    /\ UNCHANGED <<stage, total>>
    /\ IF code # NotWritable /\ tries + 1 < limit
       THEN tries' = tries + 1 /\ pc' = again /\ UNCHANGED result
       ELSE UNCHANGED tries /\ Returns(code)

SeekDone ==
    /\ pc = "reply" /\ stage # "transfer" /\ Len(reply) = 2
    /\ reply' = <<>>
    /\ IF ~Bit(reply[1], 128) /\ ~Bit(reply[1], 64) /\ reply[2] = seg.cylinder
       THEN /\ tries' = 0
            /\ IF stage = "seek0" THEN stage' = "seek1" /\ pc' = "seek"
                                   ELSE stage' = "transfer" /\ pc' = "command"
            /\ UNCHANGED <<total, result>>
       ELSE Retry(SeekTries, Failed, "seek")
    /\ UNCHANGED <<config, calls, call, seg, floppy_dma_waiting, controller, data, before>>

(* the result of a transfer; after a read with DMA its sectors are copied  *)
TrackDone ==
    /\ pc = "reply" /\ stage = "transfer" /\ Len(reply) = 7
    /\ reply' = <<>>
    /\ LET error == calculate_error(reply)
           good  == error = 0
       IN /\ buffer' = IF good /\ mode = "dma" /\ call.dir = "read"
                       THEN [i \in DOMAIN buffer |->
                                IF i \in total .. total + seg_read - 1
                                THEN dmabuf[i - total] ELSE buffer[i]]
                       ELSE buffer
          /\ IF good
             THEN total' = total + seg_read /\ pc' = "turn" /\ UNCHANGED <<stage, tries, result>>
             ELSE Retry(IF mode = "dma" THEN Tries ELSE PioTries, error, "command")
    /\ UNCHANGED <<config, calls, call, seg, floppy_dma_waiting, controller,
                   index, channel, dmabuf, disk, before>>

-----------------------------------------------------------------------------
(* the controller; irq6_handler runs when it raises its interrupt          *)

irq6_handler == floppy_dma_waiting' = IF mode = "dma" THEN 0 ELSE floppy_dma_waiting

SeekEnds ==
    /\ \E c \in seeking : \/ track' = c /\ sensed' = {32}
                          \/ UNCHANGED track /\ sensed' = {96}
    /\ seeking' = {}
    /\ irq6_handler
    /\ UNCHANGED <<config, driver, phase, out, command, data, before>>

AtEnd == command.sector > command.final

(* head 1 follows head 0, and nothing head 1                               *)
NextSector ==
    IF command.sector = command.final /\ command.head = 0
    THEN [command EXCEPT !.head = 1, !.sector = 1]
    ELSE [command EXCEPT !.sector = @ + 1]

Executing == phase = "busy" /\ seeking = {}

MoveByDma ==
    /\ Executing /\ mode = "dma" /\ channel.left > 0 /\ ~AtEnd
    /\ channel' = [next |-> channel.next + 1, left |-> channel.left - 1]
    /\ command' = NextSector
    /\ IF command.dir = "read"
       THEN dmabuf' = [dmabuf EXCEPT ![channel.next] = disk[LbaOf(command)]] /\ UNCHANGED disk
       ELSE disk' = [disk EXCEPT ![LbaOf(command)] = dmabuf[channel.next]] /\ UNCHANGED dmabuf
    /\ UNCHANGED <<config, driver, floppy_dma_waiting, phase, out, seeking, track, sensed,
                   index, buffer, before>>

(* A sector by read_callback or write_callback: past floppy_buffer_size,   *)
(* bytes read are dropped and zeros written.  The index goes on from       *)
(* transfer to transfer.                                                   *)
MoveByPio ==
    /\ Executing /\ mode = "pio" /\ pc = "poll" /\ ~AtEnd
    /\ command' = NextSector
    /\ index' = IF index < seg.sectors THEN index + 1 ELSE index
    /\ IF command.dir = "read"
       THEN /\ buffer' = IF index < seg.sectors
                         THEN [buffer EXCEPT ![index] = disk[LbaOf(command)]] ELSE buffer
            /\ UNCHANGED disk
       ELSE /\ disk' = [disk EXCEPT ![LbaOf(command)] =
                                      IF index < seg.sectors THEN buffer[index] ELSE Zero]
            /\ UNCHANGED buffer
    /\ UNCHANGED <<config, driver, floppy_dma_waiting, phase, out, seeking, track, sensed,
                   channel, dmabuf, before>>

Result(st0, st1) ==
    <<st0, st1, 0, command.cylinder, command.head, command.sector, 2>>

(* The end of a command: as counted by the channel, at the end of the      *)
(* cylinder, which not every controller reports, or by a failure.          *)
Finish ==
    /\ Executing
    /\ \/ mode = "dma" /\ channel.left = 0 /\ out' = Result(0, 0)
       \/ AtEnd /\ out' \in {Result(0, 0), Result(64, 128)}
       \/ out' = Result(64, 4)
       \/ command.dir = "write" /\ out' = Result(64, 2)
    /\ phase' = "result"
    /\ irq6_handler
    /\ UNCHANGED <<config, driver, command, seeking, track, sensed, data, before>>

(* floppy_transfer_pio leaves its loop when no command is executed         *)
PollEnds ==
    /\ pc = "poll" /\ phase # "busy"
    /\ pc' = "reply"
    /\ UNCHANGED <<config, calls, call, total, seg, stage, tries, reply, result,
                   floppy_dma_waiting, controller, data, before>>

Turn       == ReadTurnDma \/ WriteTurnDma \/ ReadTurnPio \/ WriteTurnPio
Driver     == \/ Done \/ Turn \/ NoDriveDma \/ NoDrivePio
              \/ SendSeek \/ TrackCommand \/ Wait \/ Sense \/ ReadData \/ SeekDone
              \/ TrackDone \/ PioCommand \/ PollEnds
Controller == SeekEnds \/ MoveByDma \/ MoveByPio \/ Finish

Next == Call("read") \/ Call("write") \/ Driver \/ Controller

(* The driver runs, and the controller ends the commands it took.          *)
Fairness == /\ WF_vars(Driver)
            /\ WF_vars(SeekEnds) /\ WF_vars(MoveByDma \/ MoveByPio \/ Finish)

Spec == Init /\ [][Next]_vars /\ Fairness

-----------------------------------------------------------------------------
(* With DMA and no interrupt left over from before the first command, each *)
(* wait ends with the command it was for: whenever floppy_wait is through  *)
(* or a command is sent, the controller is at nothing else.                *)
OneCommandAtATime ==
    mode = "dma" /\ ~stray =>
        /\ pc \in {"reset", "sense", "reply"} => phase # "busy" /\ seeking = {}
        /\ pc \in {"seek", "command"} => phase = "idle" /\ seeking = {} /\ sensed = {}

(* One transfer, from its first sector on, without a retry: floppy_pio.c   *)
(* promises no more, as its index is never reset.                          *)
OneTransfer ==
    /\ calls = 1 /\ tries = 0
    /\ lba_2_chs(call.lba).sector + call.sectors - 1 <= sectors_per_track

(* A call that returns 0 has moved its sectors.  With DMA, unless an        *)
(* interrupt was left over: a read any number of sectors over tracks and   *)
(* cylinders, whatever was tried again; a write those of its first turn,   *)
(* and it changes no sector outside the request.  Without DMA, the first   *)
(* transfer of a present drive that succeeds at once.                      *)
SuccessMeansMoved ==
    LET asked == 0 .. call.sectors - 1
        first == Least(Least(call.sectors, MaxSegment),
                       sectors_per_track - lba_2_chs(call.lba).sector + 1)
        upTo(n) == \A i \in 0 .. n - 1 : disk[call.lba + i] = buffer[i]
    IN pc = "idle" /\ result = 0 /\ calls > 0 =>
        /\ mode = "dma" /\ ~stray =>
              /\ present
              /\ IF call.dir = "read" THEN upTo(call.sectors) ELSE upTo(first)
              /\ \A l \in Sectors : disk[l] # before[l] => l - call.lba \in asked
        /\ mode = "pio" /\ present /\ OneTransfer => upTo(call.sectors)

(* Every call returns as long as the controller answers, however often it  *)
(* reports a failure.  Not so after an interrupt that was left over: a     *)
(* result is then read before it is there, and the bytes that remain of it *)
(* answer a later question (floppy_dma.c:29); nor without DMA for a drive  *)
(* that is not there (floppy_pio.c:74).                                    *)
CallsReturn ==
    pc # "idle" ~> \/ pc = "idle"
                   \/ stray
                   \/ mode = "pio" /\ ~present
=============================================================================
