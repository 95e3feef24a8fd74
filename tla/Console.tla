------------------------------ MODULE Console ------------------------------
(***************************************************************************)
(* The text console: main prints through drivers/screen.c, one access to   *)
(* the cursor registers or to video memory after the other, while the      *)
(* keyboard's interrupt decodes a scan code (drivers/keyboard.c), edits    *)
(* the line buffer (kernel/kernel.c) and prints on the same screen.        *)
(*                                                                         *)
(* A handler runs with interrupts off from the gate to iret, so it is one  *)
(* step; main may be interrupted between any two of its own.  Positions    *)
(* count cells, half of the code's byte offsets.  Colours are left out,    *)
(* and the space, the 0 of a cleared line and the 0 of an erased cell are  *)
(* all Blank.                                                              *)
(***************************************************************************)
EXTENDS Integers, Sequences, FiniteSets

CONSTANTS
    Cols, Rows,     \* MAX_COLS, MAX_ROWS
    Base,           \* values of a cursor register (256)
    BufferSize,     \* of sh_buffer
    Starts,         \* cells the boot loader may leave the cursor in
    Greeting,       \* what main prints before sti
    Prompts,        \* the messages it prints after
    Codes,          \* scan codes the keyboard sends
    MaxCodes,       \* bound: codes sent
    Unhandled,      \* request lines nothing is registered for
    MaxRequests     \* bound: requests on those lines

Cells == Cols * Rows

Blank     == " "
Newline   == "\n"
Backspace == "BS"
Printed   == STRING \ {Backspace}      \* what main prints: literals and a path

ASSUME ConsoleAssumption ==
    /\ {Cols, Rows, Base, BufferSize} \subseteq Nat \ {0}
    /\ Cells < Base * Base
    /\ MaxCodes \in Nat
    /\ MaxCodes <= BufferSize
    /\ BufferSize <= (Rows - 1) * Cols
    /\ Starts \subseteq 0 .. Cells - 1
    /\ Greeting \in Seq(Printed)
    /\ Prompts \in Seq(Seq(Printed))
    /\ Codes \subseteq 0 .. 255
    /\ Unhandled \subseteq (0 .. 15) \ {1}

VARIABLES
    pc,         \* main: the next thing it does, "select" to "store" in kprint
    message,    \* what is left of the message, the current character included
    messages,   \* the messages that follow
    pos,        \* offset in kprint_at and print_char
    row,        \* i of the loop that scrolls
    screen,     \* video memory
    index,      \* the cursor register selected
    cursor,     \* the registers 14 (high) and 15 (low)
    enabled,    \* the interrupt flag
    requests,   \* interrupt requests not yet accepted
    inService,  \* requests accepted and not acknowledged
    raised,     \* how often a line of Unhandled was raised
    queue,      \* scan codes, the first in the controller's output buffer
    sent,       \* how many were sent
    high,       \* whether letters are made capital
    line,       \* sh_buffer[0 .. sh_buffer_count - 1]
    bExecute,
    (* ghosts *)
    held,       \* keys that are down
    typed,      \* the line as the keys were pressed
    odd,        \* a modifier was used that high does not follow
    paper,      \* everything printed, on a roll without end
    raced,      \* a handler printed in the middle of a kprint of main
    outside     \* a write missed video memory

mainVars == <<pc, message, messages, pos, row>>
videoVars == <<screen, index, cursor>>
irqVars  == <<enabled, requests, inService, raised>>
keyVars  == <<queue, sent, held, typed, odd>>
lineVars == <<high, line, bExecute>>
vars == <<mainVars, videoVars, irqVars, keyVars, lineVars, paper, raced, outside>>

-----------------------------------------------------------------------------
(* the paper, and what is to be seen of it *)

Strike(p, c) ==
    LET next == CASE c = Newline   -> Cols * (p.at \div Cols + 1)
                  [] c = Backspace -> p.at - 1
                  [] OTHER         -> p.at + 1
        ink  == CASE c = Newline   -> p.ink
                  [] c = Backspace -> {i \in p.ink : i[1] # next}
                  [] OTHER         -> {i \in p.ink : i[1] # p.at}
                                          \cup {<<p.at, c>>}
        over == next \div Cols - Rows + 1
    IN  [at |-> next, ink |-> ink, top |-> IF over > p.top THEN over ELSE p.top]

Shown(p) == [i \in 0 .. Cells - 1 |->
    IF \E d \in p.ink : d[1] = i + p.top * Cols
    THEN (CHOOSE d \in p.ink : d[1] = i + p.top * Cols)[2] ELSE Blank]

-----------------------------------------------------------------------------
(* screen.c: the cursor registers and print_char *)

Split(p) == [r \in {14, 15} |->
    IF r = 14 THEN (p \div Base) % Base ELSE p % Base]

Cursor == cursor[14] * Base + cursor[15]

Put(s, p, c) == IF p \in DOMAIN s THEN [s EXCEPT ![p] = c] ELSE s

OffScreen(p) == p >= Cells

Refused(s) == Put(s, Cells - 1, "E")

DrawnUnderCursor(s, p, c) == IF c = Newline THEN s
                             ELSE Put(s, p, IF c = Backspace THEN Blank ELSE c)

Drawn(s, p, c) == CASE c = Newline   -> s
                    [] c = Backspace -> Put(s, p - 1, Blank)
                    [] OTHER         -> Put(s, p, c)

Moved(p, c) == CASE c = Newline   -> Cols * (p \div Cols + 1)
                 [] c = Backspace -> p - 1
                 [] OTHER         -> p + 1

RowUp(s, r) == [i \in DOMAIN s |->
    IF i \div Cols = r - 1 THEN s[i + Cols] ELSE s[i]]

LastCleared(s) == [i \in DOMAIN s |-> IF i \div Cols = Rows - 1 THEN Blank ELSE s[i]]

Scrolled(s) == [i \in DOMAIN s |-> IF i + Cols \in DOMAIN s THEN s[i + Cols] ELSE Blank]

Missed(p, c) == c = Backspace /\ p = 0

ScrolledPos(p) == p - Cols

-----------------------------------------------------------------------------
Init ==
    /\ pc = "clear"
    /\ message = Greeting /\ messages = Prompts
    /\ pos = 0 /\ row = 0
    /\ screen \in [0 .. Cells - 1 -> {Blank}]
    /\ index = 15
    /\ cursor \in {Split(p) : p \in Starts}
    /\ enabled = FALSE
    /\ requests = {} /\ inService = {} /\ raised = 0
    /\ queue = <<>> /\ sent = 0
    /\ high = FALSE /\ line = <<>> /\ bExecute = FALSE
    /\ held = {} /\ typed = <<>> /\ odd = FALSE
    /\ paper = [at |-> Cursor, ink |-> {}, top |-> 0]
    /\ raced = FALSE /\ outside = FALSE

-----------------------------------------------------------------------------
(* main and, under it, kprint *)

Main(from, to) ==
    /\ pc = from
    /\ pc' = to
    /\ UNCHANGED <<irqVars, keyVars, lineVars, raced>>

ClearScreen ==
    /\ Main("clear", "select")
    /\ screen' = [i \in DOMAIN screen |-> Blank]
    /\ UNCHANGED <<message, messages, pos, row, index, cursor, paper, outside>>

(* port_byte_out(REG_SCREEN_CTRL, r)                                       *)
Select(from, to, r) ==
    /\ Main(from, to)
    /\ index' = r
    /\ UNCHANGED <<message, messages, pos, row, screen, cursor, paper, outside>>

ReadHigh ==
    /\ Main("high", "selectLow")
    /\ pos' = cursor[index] * Base
    /\ UNCHANGED <<message, messages, row, videoVars, paper, outside>>

ReadLow ==
    /\ Main("low", "char")
    /\ pos' = pos + cursor[index]
    /\ UNCHANGED <<message, messages, row, videoVars, paper, outside>>

GetCursorOffset ==
    \/ Select("select", "high", 14)
    \/ ReadHigh
    \/ Select("selectLow", "low", 15)
    \/ ReadLow

CharOffScreen ==
    /\ message # <<>> /\ OffScreen(pos)
    /\ Main("char", "char")
    /\ screen' = Refused(screen)
    /\ message' = Tail(message)
    /\ UNCHANGED <<messages, pos, row, index, cursor, paper, outside>>

Char ==
    /\ message # <<>> /\ ~OffScreen(pos)
    /\ Main("char", IF Moved(pos, Head(message)) >= Cells THEN "scroll" ELSE "point")
    /\ screen' = Drawn(screen, pos, Head(message))
    /\ outside' = (outside \/ Missed(pos, Head(message)))
    /\ pos' = Moved(pos, Head(message))
    /\ row' = 1
    /\ paper' = Strike(paper, Head(message))
    /\ UNCHANGED <<message, messages, index, cursor>>

ScrollRow ==
    /\ row < Rows
    /\ Main("scroll", "scroll")
    /\ screen' = RowUp(screen, row)
    /\ row' = row + 1
    /\ UNCHANGED <<message, messages, pos, index, cursor, paper, outside>>

ClearLastRow ==
    /\ row >= Rows
    /\ Main("scroll", "point")
    /\ screen' = LastCleared(screen)
    /\ pos' = ScrolledPos(pos)
    /\ UNCHANGED <<message, messages, row, index, cursor, paper, outside>>

WriteHigh ==
    /\ Main("storeHigh", "pointLow")
    /\ cursor' = [cursor EXCEPT ![index] = Split(pos)[14]]
    /\ UNCHANGED <<message, messages, pos, row, screen, index, paper, outside>>

WriteLow ==
    /\ Main("store", "char")
    /\ cursor' = [cursor EXCEPT ![index] = Split(pos)[15]]
    /\ message' = Tail(message)
    /\ UNCHANGED <<messages, pos, row, screen, index, paper, outside>>

SetCursorOffset ==
    \/ Select("point", "storeHigh", 14)
    \/ WriteHigh
    \/ Select("pointLow", "store", 15)
    \/ WriteLow

(* kprint is back in main: sti after the greeting, then the next message,  *)
(* and while (1) after the last                                            *)
NextMessage ==
    /\ pc = "char" /\ message = <<>>
    /\ enabled' = TRUE
    /\ IF messages = <<>>
       THEN pc' = "loop" /\ UNCHANGED <<message, messages>>
       ELSE pc' = "select" /\ message' = Head(messages) /\ messages' = Tail(messages)
    /\ UNCHANGED <<pos, row, videoVars, requests, inService, raised, keyVars,
                   lineVars, paper, raced, outside>>

MainStep == \/ ClearScreen \/ GetCursorOffset \/ CharOffScreen \/ Char
            \/ ScrollRow \/ ClearLastRow \/ SetCursorOffset \/ NextMessage

(* kprint of main has read, or is about to write, what a handler changes   *)
Printing == pc \notin {"clear", "select", "loop"} /\ message # <<>>

-----------------------------------------------------------------------------
(* the interrupt controllers, and irq_handler of cpu/isr.c *)

Vector(irq) == 32 + irq

Handlers == {Vector(1)}

Accepted(s, irq) == s \cup (IF irq < 8 THEN {irq} ELSE {irq, 2})

Blocked(s, irq) == \E i \in s : IF irq < 8 THEN i <= irq
                                ELSE i < 2 \/ i \in 8 .. irq

(* an end of interrupt ends the most urgent request in service            *)
Ended(s, lines) == s \ {i \in s \cap lines : \A j \in s \cap lines : i <= j}

AcknowledgeFirstOnly(s, int_no) == Ended(s, 0 .. 7)

Acknowledge(s, int_no) ==
    Ended(IF int_no >= 40 THEN Ended(s, 8 .. 15) ELSE s, 0 .. 7)

Interrupt(irq) ==
    /\ enabled
    /\ irq \in requests
    /\ ~Blocked(inService, irq)
    /\ inService' = Acknowledge(Accepted(inService, irq), Vector(irq))
    /\ UNCHANGED <<mainVars, enabled, raised>>

NoHandler(irq) ==
    /\ Interrupt(irq)
    /\ Vector(irq) \notin Handlers
    /\ requests' = requests \ {irq}
    /\ UNCHANGED <<videoVars, keyVars, lineVars, paper, raced, outside>>

Raise(irq) ==
    /\ raised < MaxRequests
    /\ raised' = raised + 1
    /\ requests' = requests \cup {irq}
    /\ UNCHANGED <<mainVars, videoVars, enabled, inService, keyVars, lineVars,
                   paper, raced, outside>>

-----------------------------------------------------------------------------
(* keyboard.c *)

Lower == <<"a", "b", "c", "d", "e", "f", "g", "h", "i", "j", "k", "l", "m",
           "n", "o", "p", "q", "r", "s", "t", "u", "v", "w", "x", "y", "z">>
Upper == <<"A", "B", "C", "D", "E", "F", "G", "H", "I", "J", "K", "L", "M",
           "N", "O", "P", "Q", "R", "S", "T", "U", "V", "W", "X", "Y", "Z">>

(* the letters of codes 0 to 0x39; "" is a key that prints nothing         *)
KeyLetters == <<
    "E", "E", "1", "2", "3", "4", "5", "6", "7", "8", "9", "0", "-", "+", "BS", " ",
    "Q", "w", "e", "r", "t", "y", "u", "i", "o", "p", "[", "]", "\n", "S", "a", "s",
    "d", "f", "g", "h", "j", "k", "l", ";", "", "backquote", "S", "backslash", "z", "x", "c", "v",
    "b", "n", "m", ",", ".", "/", "S", "", "", " ">>

Released == 128
Shifts   == {42, 54}

print_letter_of_presses(c) ==
    IF c < Len(KeyLetters) THEN KeyLetters[c + 1] ELSE ""

print_letter(c) ==
    CASE c < Len(KeyLetters)         -> KeyLetters[c + 1]
      [] c - Released \in Shifts     -> "S"
      [] OTHER                       -> ""

Capital(l) == IF \E i \in DOMAIN Lower : Lower[i] = l
              THEN Upper[CHOOSE i \in DOMAIN Lower : Lower[i] = l]
              ELSE IF l = ";" THEN ":" ELSE l

KeyOf(l, capital) == IF capital THEN Capital(l) ELSE l

-----------------------------------------------------------------------------
(* a key goes down or up: the controller holds one code and asks for an    *)
(* interrupt; the keyboard keeps the codes that follow                     *)

(* the line after the key of letter l, with or without a shift key down    *)
Edit(text, l, capital) ==
    CASE l \in {Newline, "", "S"} -> text
      [] l = Backspace -> IF text = <<>> THEN text ELSE SubSeq(text, 1, Len(text) - 1)
      [] OTHER         -> Append(text, KeyOf(l, capital))

Send(c) ==
    /\ sent < MaxCodes
    /\ sent' = sent + 1
    /\ queue' = Append(queue, c)
    /\ requests' = requests \cup (IF queue = <<>> THEN {1} ELSE {})
    /\ UNCHANGED <<mainVars, videoVars, enabled, inService, raised, lineVars,
                   paper, raced, outside>>

Press(c) ==
    /\ c < Released
    /\ Send(c)
    /\ held' = held \cup {c}
    /\ typed' = Edit(typed, print_letter(c), held \cap Shifts # {})
    /\ odd' = (odd \/ (/\ print_letter(c) = "S"
                       /\ \/ c \notin Shifts
                          \/ held \cap Shifts # {}))

Release(c) ==
    /\ c \in held
    /\ Send(c + Released)
    /\ held' = held \ {c}
    /\ UNCHANGED <<typed, odd>>

-----------------------------------------------------------------------------
(* keyboard_callback of keyboard.c and of kernel.c *)

HandlerPrints(c) ==
    /\ index' = 15
    /\ raced' = (raced \/ Printing)
    /\ outside' = (outside \/ Missed(Cursor, c))
    /\ IF OffScreen(Cursor)
       THEN /\ screen' = Refused(screen)
            /\ UNCHANGED <<cursor, paper>>
       ELSE LET next == Moved(Cursor, c) IN
            /\ paper' = Strike(paper, c)
            /\ IF next >= Cells
               THEN /\ screen' = Scrolled(Drawn(screen, Cursor, c))
                    /\ cursor' = Split(ScrolledPos(next))
               ELSE /\ screen' = Drawn(screen, Cursor, c)
                    /\ cursor' = Split(next)

PrintsNothing == UNCHANGED <<videoVars, paper, raced, outside>>

Shift(l) ==
    /\ l = "S"
    /\ high' = ~high
    /\ PrintsNothing
    /\ UNCHANGED <<line, bExecute>>

Dead(l) ==
    /\ l = ""
    /\ PrintsNothing
    /\ UNCHANGED lineVars

EraseUnchecked(key) ==
    /\ key = Backspace
    /\ line' = IF line = <<>> THEN line ELSE SubSeq(line, 1, Len(line) - 1)
    /\ HandlerPrints(key)
    /\ UNCHANGED <<high, bExecute>>

Erase(key) ==
    /\ key = Backspace
    /\ IF line = <<>>
       THEN PrintsNothing /\ UNCHANGED line
       ELSE line' = SubSeq(line, 1, Len(line) - 1) /\ HandlerPrints(key)
    /\ UNCHANGED <<high, bExecute>>

Enter(key) ==
    /\ key = Newline
    /\ bExecute' = TRUE
    /\ PrintsNothing
    /\ UNCHANGED <<high, line>>

Type(key) ==
    /\ key \notin {"S", "", Backspace, Newline}
    /\ line' = Append(line, KeyOf(key, high))
    /\ HandlerPrints(KeyOf(key, high))
    /\ UNCHANGED <<high, bExecute>>

KeyboardInterrupt ==
    /\ Interrupt(1)
    /\ queue' = Tail(queue)
    /\ requests' = (requests \ {1}) \cup (IF Len(queue) > 1 THEN {1} ELSE {})
    /\ LET l == print_letter(Head(queue)) IN
       Shift(l) \/ Dead(l) \/ Erase(l) \/ Enter(l) \/ Type(l)
    /\ UNCHANGED <<sent, held, typed, odd>>

Interrupts == KeyboardInterrupt \/ \E irq \in Unhandled : NoHandler(irq)

Next == \/ MainStep
        \/ Interrupts
        \/ \E c \in Codes : Press(c) \/ Release(c)
        \/ \E irq \in Unhandled : Raise(irq)

Spec == Init /\ [][Next]_vars
FairSpec == /\ Spec
            /\ WF_vars(MainStep)
            /\ WF_vars(KeyboardInterrupt)
            /\ \A irq \in Unhandled : WF_vars(NoHandler(irq))

-----------------------------------------------------------------------------
(* Between two messages the screen shows the end of everything printed and *)
(* the cursor is behind the last character, as long as no handler printed  *)
(* in the middle of a message: scrolling (screen.c:149), wrapping and       *)
(* erasing back into the line above all move text and cursor together.     *)
ScreenShowsPaper ==
    ~raced /\ ~Printing /\ pc # "clear" =>
        /\ screen = Shown(paper)
        /\ Cursor = paper.at - paper.top * Cols

(* A backspace writes in front of video memory (screen.c:138 subtracts      *)
(* without a test) only after a race on the cursor: otherwise the line     *)
(* buffer is never longer than the text in front of the cursor.            *)
BackspaceStaysOnScreen ==
    /\ outside => raced
    /\ ~raced /\ ~Printing /\ pc # "clear" => Len(line) <= Cursor

(* Whatever main prints meanwhile, once every scan code is handled the     *)
(* line buffer holds what was typed, letters typed while a shift key was   *)
(* down in capitals: no code is lost, doubled or taken out of order.       *)
(* Ctrl, a second shift key and the repeated code of a shift that is held  *)
(* are excepted (odd): they flip high as well (keyboard.c:20).             *)
LineIsWhatWasTyped == ~odd /\ queue = <<>> => line = typed

(* Every request is served, those of lines without a handler included:     *)
(* irq_handler acknowledges before it calls, and to both controllers when  *)
(* the request came through the second (isr.c:134).                        *)
RequestsAreServed ==
    \A irq \in {1} \cup Unhandled :
        irq \in requests ~> irq \notin requests
=============================================================================
