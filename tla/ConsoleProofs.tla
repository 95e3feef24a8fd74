--------------------------- MODULE ConsoleProofs ---------------------------
(***************************************************************************)
(* What is proved of the console.                                          *)
(*                                                                         *)
(* The line buffer: every scan code still in the queue is matched with the *)
(* keys that were down and the text that had been typed when it was sent,  *)
(* from the code the next interrupt handles to the key pressed last        *)
(* (LineInv).                                                              *)
(*                                                                         *)
(* The screen: paper, screen and cursor agree after every character,       *)
(* whether main puts it there access by access or the handler in one step, *)
(* and while main is at it its program counter says how far it is          *)
(* (ScreenInv).                                                            *)
(***************************************************************************)
EXTENDS Console, SequenceTheorems, TLAPS

-----------------------------------------------------------------------------
(* letters *)

LEMMA LettersDiffer ==
    /\ Backspace \notin {Newline, "", "S", Blank}
    /\ Newline \notin {"", "S", Blank}
    /\ "S" # ""
BY DEF Backspace, Newline, Blank

LEMMA ShiftLetters ==
    /\ Len(KeyLetters) = 58
    /\ KeyLetters[43] = "S" /\ KeyLetters[55] = "S"
BY DEF KeyLetters

(* The letter of a code: both shift keys print "S", and a released key     *)
(* prints nothing unless it is a shift key (keyboard.c:219).               *)
LEMMA LettersOfCodes ==
    /\ \A c \in Shifts : print_letter(c) = "S"
    /\ \A c \in 0 .. 127 :
           print_letter(c + Released) = IF c \in Shifts THEN "S" ELSE ""
BY ShiftLetters DEF print_letter, Shifts, Released

-----------------------------------------------------------------------------
(* the line buffer *)

LEMMA TailFacts ==
    ASSUME NEW S, NEW q \in Seq(S), q # <<>>
    PROVE  /\ Head(q) \in S
           /\ Len(Tail(q)) = Len(q) - 1
           /\ \A i \in 1 .. Len(q) - 1 : Tail(q)[i] = q[i + 1]
OBVIOUS

(* the keys that are down after code c, and the text *)
After(down, c) == IF c < Released THEN down \cup {c} ELSE down \ {c - Released}

TextAfter(text, down, c) ==
    IF c < Released THEN Edit(text, print_letter(c), down \cap Shifts # {}) ELSE text

(* a code the keyboard may send with these keys down and high follows      *)
Ordinary(down, c) ==
    IF c < Released
    THEN print_letter(c) = "S" => c \in Shifts /\ down \cap Shifts = {}
    ELSE c - Released \in down

OneShift(down) == \A x, y \in down \cap Shifts : x = y

(* the keys and the text before each code of the queue, and behind the last *)
Record(down, text) ==
    /\ \A i \in 0 .. Len(queue) : down[i] \in SUBSET (0 .. 127) /\ OneShift(down[i])
    /\ high <=> down[0] \cap Shifts # {}
    /\ text[0] = line
    /\ \A i \in 1 .. Len(queue) :
           /\ Ordinary(down[i - 1], queue[i])
           /\ down[i] = After(down[i - 1], queue[i])
           /\ text[i] = TextAfter(text[i - 1], down[i - 1], queue[i])
    /\ down[Len(queue)] = held
    /\ text[Len(queue)] = typed

KeyTypes ==
    /\ queue \in Seq(0 .. 255)
    /\ held \subseteq 0 .. 127
    /\ high \in BOOLEAN
    /\ odd \in BOOLEAN
    /\ 1 \in requests => queue # <<>>

LineInv ==
    /\ KeyTypes
    /\ ~odd => \E down, text : Record(down, text)

(* An ordinary code leaves at most one shift key down.                     *)
LEMMA AfterOrdinary ==
    ASSUME NEW down \in SUBSET (0 .. 127), NEW c \in 0 .. 255,
           OneShift(down), Ordinary(down, c)
    PROVE  After(down, c) \in SUBSET (0 .. 127) /\ OneShift(After(down, c))
<1>1. CASE c < Released
  <2>1. c \in Shifts => print_letter(c) = "S"
    BY LettersOfCodes
  <2> QED
    BY <1>1, <2>1 DEF After, OneShift, Ordinary, Released
<1>2. CASE ~(c < Released)
  BY <1>2 DEF After, OneShift, Released
<1> QED
  BY <1>1, <1>2

(* What the handler does with an ordinary code is what was typed.          *)
LEMMA HandledAsTyped ==
    ASSUME NEW down \in SUBSET (0 .. 127), NEW c \in 0 .. 255,
           OneShift(down), Ordinary(down, c), high \in BOOLEAN,
           high <=> down \cap Shifts # {},
           LET l == print_letter(c) IN
           Shift(l) \/ Dead(l) \/ Erase(l) \/ Enter(l) \/ Type(l)
    PROVE  /\ high' \in BOOLEAN
           /\ high' <=> After(down, c) \cap Shifts # {}
           /\ line' = TextAfter(line, down, c)
<1> DEFINE l == print_letter(c)
<1>1. CASE c < Released
  <2>1. c \in Shifts => l = "S"
    BY LettersOfCodes
  <2>2. After(down, c) = down \cup {c}
    BY <1>1 DEF After
  <2>3. TextAfter(line, down, c) = Edit(line, l, high)
    <3>1. (down \cap Shifts # {}) = high
      OBVIOUS
    <3> QED
      BY <1>1, <3>1 DEF TextAfter
  <2>4. l = "S" => c \in Shifts /\ down \cap Shifts = {}
    BY <1>1 DEF Ordinary
  <2> HIDE DEF l
  <2>5. CASE Shift(l)
    BY <2>2, <2>3, <2>4, <2>5, LettersDiffer DEF Shift, Edit
  <2>6. CASE Dead(l)
    BY <2>1, <2>2, <2>3, <2>6, LettersDiffer DEF Dead, Edit, lineVars
  <2>7. CASE Erase(l)
    BY <2>1, <2>2, <2>3, <2>7, LettersDiffer DEF Erase, Edit
  <2>8. CASE Enter(l)
    BY <2>1, <2>2, <2>3, <2>8, LettersDiffer DEF Enter, Edit
  <2>9. CASE Type(l)
    BY <2>1, <2>2, <2>3, <2>9, LettersDiffer DEF Type, Edit
  <2> QED
    BY <2>5, <2>6, <2>7, <2>8, <2>9 DEF l
<1>2. CASE ~(c < Released)
  <2>1. PICK d \in down : d = c - Released /\ c = d + Released
    BY <1>2 DEF Ordinary, Released
  <2>2. l = IF d \in Shifts THEN "S" ELSE ""
    BY <2>1, LettersOfCodes
  <2>3. After(down, c) = down \ {d}
    BY <1>2, <2>1 DEF After
  <2>4. TextAfter(line, down, c) = line
    BY <1>2 DEF TextAfter
  <2> HIDE DEF l
  <2>5. CASE d \in Shifts
    <3>1. Shift(l)
      BY <2>2, <2>5, LettersDiffer DEF Dead, Erase, Enter, Type, l
    <3>2. high /\ (down \ {d}) \cap Shifts = {}
      BY <2>5 DEF OneShift
    <3> QED
      BY <2>3, <2>4, <3>1, <3>2 DEF Shift
  <2>6. CASE d \notin Shifts
    <3>1. Dead(l)
      BY <2>2, <2>6, LettersDiffer DEF Shift, Erase, Enter, Type, l
    <3> QED
      BY <2>3, <2>4, <2>6, <3>1 DEF Dead, lineVars
  <2> QED
    BY <2>5, <2>6
<1> QED
  BY <1>1, <1>2

(* A code that is sent is the last of the queue.                           *)
LEMMA SendExtends ==
    ASSUME KeyTypes, NEW c \in 0 .. 255, Send(c),
           NEW down, NEW text, Record(down, text), Ordinary(held, c),
           held' = After(held, c), typed' = TextAfter(typed, held, c)
    PROVE  \E d, t : Record(d, t)'
<1> DEFINE n == Len(queue)
<1> PICK d, t :
       /\ d = [i \in 0 .. n + 1 |-> IF i <= n THEN down[i] ELSE After(held, c)]
       /\ t = [i \in 0 .. n + 1 |-> IF i <= n THEN text[i] ELSE TextAfter(typed, held, c)]
  OBVIOUS
<1>1. /\ n \in Nat
      /\ queue' = Append(queue, c) /\ Len(queue') = n + 1
      /\ queue'[n + 1] = c /\ \A i \in 1 .. n : queue'[i] = queue[i]
      /\ UNCHANGED <<high, line>>
  BY DEF KeyTypes, Send, lineVars
<1>2. /\ \A i \in 0 .. n : d[i] = down[i] /\ t[i] = text[i]
      /\ d[n + 1] = After(held, c) /\ t[n + 1] = TextAfter(typed, held, c)
  BY <1>1
<1>3. /\ \A i \in 0 .. n : down[i] \in SUBSET (0 .. 127) /\ OneShift(down[i])
      /\ high <=> down[0] \cap Shifts # {}
      /\ text[0] = line
      /\ \A i \in 1 .. n : /\ Ordinary(down[i - 1], queue[i])
                           /\ down[i] = After(down[i - 1], queue[i])
                           /\ text[i] = TextAfter(text[i - 1], down[i - 1], queue[i])
      /\ down[n] = held /\ text[n] = typed
  BY DEF Record
<1> HIDE DEF n
<1>4. \A i \in 0 .. n + 1 : d[i] \in SUBSET (0 .. 127) /\ OneShift(d[i])
  <2>1. After(held, c) \in SUBSET (0 .. 127) /\ OneShift(After(held, c))
    <3>1. n \in 0 .. n
      BY <1>1
    <3>2. down[n] \in SUBSET (0 .. 127) /\ OneShift(down[n])
      BY <1>3, <3>1
    <3> QED
      BY <1>3, <3>2, AfterOrdinary
  <2> SUFFICES ASSUME NEW i \in 0 .. n + 1
               PROVE  d[i] \in SUBSET (0 .. 127) /\ OneShift(d[i])
    OBVIOUS
  <2>2. CASE i = n + 1
    BY <1>2, <2>1, <2>2
  <2>3. CASE i # n + 1
    <3>1. i \in 0 .. n
      BY <1>1, <2>3
    <3>2. d[i] = down[i]
      BY <1>2, <3>1
    <3> QED
      BY <1>3, <3>1, <3>2
  <2> QED
    BY <2>2, <2>3
<1>5. \A i \in 1 .. n + 1 : /\ Ordinary(d[i - 1], queue'[i])
                            /\ d[i] = After(d[i - 1], queue'[i])
                            /\ t[i] = TextAfter(t[i - 1], d[i - 1], queue'[i])
  <2> SUFFICES ASSUME NEW i \in 1 .. n + 1
               PROVE  /\ Ordinary(d[i - 1], queue'[i])
                      /\ d[i] = After(d[i - 1], queue'[i])
                      /\ t[i] = TextAfter(t[i - 1], d[i - 1], queue'[i])
    OBVIOUS
  <2>1. CASE i = n + 1
    <3>1. i - 1 = n /\ n \in 0 .. n
      BY <1>1, <2>1
    <3>2. d[i - 1] = held /\ t[i - 1] = typed
      BY <1>2, <1>3, <3>1
    <3>3. d[i] = After(held, c) /\ t[i] = TextAfter(typed, held, c)
      BY <1>2, <2>1
    <3>4. queue'[i] = c
      BY <1>1, <2>1
    <3>5. Ordinary(held, c)
      OBVIOUS
    <3> QED
      BY <3>2, <3>3, <3>4, <3>5, Zenon
  <2>2. CASE i # n + 1
    <3>1. i \in 1 .. n /\ i \in 0 .. n /\ i - 1 \in 0 .. n
      BY <1>1, <2>2
    <3> QED
      BY <1>1, <1>2, <1>3, <3>1
  <2> QED
    BY <2>1, <2>2
<1>6. Record(d, t)'
  <2>1. 0 \in 0 .. n
    BY <1>1
  <2> QED
    BY <1>1, <1>2, <1>3, <1>4, <1>5, <2>1 DEF Record
<1> QED
  BY <1>6

(* A code that is handled was the first of the queue.                      *)
LEMMA HandlingConsumes ==
    ASSUME KeyTypes, KeyboardInterrupt, NEW down, NEW text, Record(down, text)
    PROVE  high' \in BOOLEAN /\ \E d, t : Record(d, t)'
<1> DEFINE n == Len(queue)
<1> PICK d, t : /\ d = [i \in 0 .. n - 1 |-> down[i + 1]]
                /\ t = [i \in 0 .. n - 1 |-> text[i + 1]]
  OBVIOUS
<1>1. /\ n \in Nat \ {0} /\ queue[1] \in 0 .. 255 /\ queue[1] = Head(queue)
      /\ queue' = Tail(queue) /\ Len(queue') = n - 1
      /\ \A i \in 1 .. n - 1 : queue'[i] = queue[i + 1]
      /\ UNCHANGED <<held, typed>>
  <2>1. queue \in Seq(0 .. 255) /\ queue # <<>>
    BY DEF KeyTypes, KeyboardInterrupt, Interrupt
  <2>2. queue' = Tail(queue) /\ UNCHANGED <<held, typed>>
    BY DEF KeyboardInterrupt
  <2>3. Len(queue) \in Nat \ {0} /\ queue[1] = Head(queue)
    BY <2>1
  <2>4. queue[1] \in 0 .. 255
    BY <2>1, <2>3, TailFacts
  <2>5. Len(Tail(queue)) = Len(queue) - 1
    BY <2>1, TailFacts
  <2>6. \A i \in 1 .. Len(queue) - 1 : Tail(queue)[i] = queue[i + 1]
    BY <2>1, TailFacts
  <2> QED
    BY <2>2, <2>3, <2>4, <2>5, <2>6
<1>2. \A i \in 0 .. n - 1 : d[i] = down[i + 1] /\ t[i] = text[i + 1]
  BY <1>1
<1>3. /\ \A i \in 0 .. n : down[i] \in SUBSET (0 .. 127) /\ OneShift(down[i])
      /\ high <=> down[0] \cap Shifts # {}
      /\ text[0] = line
      /\ \A i \in 1 .. n : /\ Ordinary(down[i - 1], queue[i])
                           /\ down[i] = After(down[i - 1], queue[i])
                           /\ text[i] = TextAfter(text[i - 1], down[i - 1], queue[i])
      /\ down[n] = held /\ text[n] = typed
  BY DEF Record
<1> HIDE DEF n
<1>4. /\ high' \in BOOLEAN
      /\ high' <=> d[0] \cap Shifts # {}
      /\ line' = t[0]
  <2>1. /\ 0 \in 0 .. n - 1 /\ 1 \in 1 .. n /\ 0 \in 0 .. n /\ 1 - 1 = 0 /\ 0 + 1 = 1
    BY <1>1
  <2>2. /\ Ordinary(down[0], queue[1])
        /\ down[1] = After(down[0], queue[1])
        /\ text[1] = TextAfter(line, down[0], queue[1])
    BY <1>3, <2>1
  <2>3. LET l == print_letter(queue[1]) IN
        Shift(l) \/ Dead(l) \/ Erase(l) \/ Enter(l) \/ Type(l)
    BY <1>1 DEF KeyboardInterrupt
  <2>4. down[0] \in SUBSET (0 .. 127) /\ OneShift(down[0])
    BY <1>3, <2>1
  <2>5. /\ high' \in BOOLEAN
        /\ high' <=> After(down[0], queue[1]) \cap Shifts # {}
        /\ line' = TextAfter(line, down[0], queue[1])
    BY <1>1, <1>3, <2>2, <2>3, <2>4, HandledAsTyped DEF KeyTypes
  <2> QED
    BY <1>2, <2>1, <2>2, <2>5
<1>5. \A i \in 1 .. n - 1 : /\ Ordinary(d[i - 1], queue'[i])
                            /\ d[i] = After(d[i - 1], queue'[i])
                            /\ t[i] = TextAfter(t[i - 1], d[i - 1], queue'[i])
  <2> SUFFICES ASSUME NEW i \in 1 .. n - 1
               PROVE  /\ Ordinary(d[i - 1], queue'[i])
                      /\ d[i] = After(d[i - 1], queue'[i])
                      /\ t[i] = TextAfter(t[i - 1], d[i - 1], queue'[i])
    OBVIOUS
  <2>1. /\ i \in 0 .. n - 1 /\ i - 1 \in 0 .. n - 1 /\ i + 1 \in 1 .. n
        /\ (i - 1) + 1 = i /\ (i + 1) - 1 = i
    BY <1>1
  <2>2. d[i] = down[i + 1] /\ t[i] = text[i + 1] /\ d[i - 1] = down[i] /\ t[i - 1] = text[i]
    BY <1>2, <2>1
  <2>3. queue'[i] = queue[i + 1]
    BY <1>1
  <2>4. /\ Ordinary(down[i], queue[i + 1])
        /\ down[i + 1] = After(down[i], queue[i + 1])
        /\ text[i + 1] = TextAfter(text[i], down[i], queue[i + 1])
    BY <1>3, <2>1
  <2> QED
    BY <2>2, <2>3, <2>4
<1>6. Record(d, t)'
  <2>1. d[n - 1] = down[n] /\ t[n - 1] = text[n]
    BY <1>1, <1>2
  <2>2. \A i \in 0 .. n - 1 : d[i] \in SUBSET (0 .. 127) /\ OneShift(d[i])
    <3> TAKE i \in 0 .. n - 1
    <3>1. i + 1 \in 0 .. n /\ d[i] = down[i + 1]
      BY <1>1, <1>2
    <3> QED
      BY <1>3, <3>1
  <2> QED
    BY <1>1, <1>3, <1>4, <1>5, <2>1, <2>2 DEF Record
<1> QED
  BY <1>4, <1>6

LEMMA LineStep == LineInv /\ [Next]_vars => LineInv'
<1> SUFFICES ASSUME LineInv, [Next]_vars
             PROVE  LineInv'
  OBVIOUS
<1> USE DEF LineInv
<1>a. ASSUME UNCHANGED <<queue, held, high, odd, line, typed>>,
             1 \in requests' => 1 \in requests
      PROVE  LineInv'
  BY <1>a DEF KeyTypes, Record
<1>1. CASE UNCHANGED vars
  BY <1>1, <1>a DEF vars, keyVars, lineVars, irqVars
<1>2. CASE MainStep
  BY <1>2, <1>a DEF MainStep, ClearScreen, GetCursorOffset, CharOffScreen, Char,
        ScrollRow, ClearLastRow, SetCursorOffset, NextMessage, Select, ReadHigh,
        ReadLow, WriteHigh, WriteLow, Main, keyVars, lineVars, irqVars
<1>3. CASE KeyboardInterrupt
  <2>1. KeyTypes' \/ high' \notin BOOLEAN
    <3>1. queue # <<>>
      BY <1>3 DEF KeyboardInterrupt, Interrupt, KeyTypes
    <3>2. Len(queue) \in Nat /\ Len(queue) # 0 /\ Len(Tail(queue)) = Len(queue) - 1
      BY <3>1 DEF KeyTypes
    <3>3. 1 \in requests' => queue' # <<>>
      <4>1. 1 \in requests' => Len(queue) > 1
        BY <1>3 DEF KeyboardInterrupt
      <4>2. queue' = Tail(queue)
        BY <1>3 DEF KeyboardInterrupt
      <4>3. Len(queue) > 1 => Len(Tail(queue)) # 0
        BY <3>2
      <4>4. Len(Tail(queue)) # 0 => Tail(queue) # <<>>
        <5>1. Len(<<>>) = 0
          OBVIOUS
        <5> QED
          BY <5>1, Zenon
      <4> QED
        BY <4>1, <4>2, <4>3, <4>4, Zenon
    <3> QED
      BY <1>3, <3>1, <3>3 DEF KeyTypes, KeyboardInterrupt
  <2>2. high' \in BOOLEAN
    BY <1>3 DEF KeyboardInterrupt, Shift, Dead, Erase, Enter, Type, lineVars, KeyTypes
  <2>3. odd' = odd
    BY <1>3 DEF KeyboardInterrupt
  <2> QED
    BY <1>3, <2>1, <2>2, <2>3, HandlingConsumes
<1>4. ASSUME NEW irq \in Unhandled, NoHandler(irq)
      PROVE  LineInv'
  BY <1>4, <1>a DEF NoHandler, keyVars, lineVars
<1>5. ASSUME NEW irq \in Unhandled, Raise(irq)
      PROVE  LineInv'
  <2>1. irq # 1
    BY ConsoleAssumption
  <2> QED
    BY <1>5, <1>a, <2>1 DEF Raise, keyVars, lineVars
<1>6. ASSUME NEW c \in Codes, Press(c)
      PROVE  LineInv'
  <2>1. c \in 0 .. 127
    BY <1>6, ConsoleAssumption DEF Press, Released
  <2>2. KeyTypes'
    BY <1>6, <2>1 DEF Press, Send, KeyTypes, lineVars
  <2>3. ASSUME ~odd'
        PROVE  \E d, t : Record(d, t)'
    <3>1. ~odd /\ Ordinary(held, c)
      BY <1>6, <2>1, <2>3 DEF Press, Ordinary, KeyTypes, Released
    <3>2. held' = After(held, c) /\ typed' = TextAfter(typed, held, c)
      BY <1>6 DEF Press, After, TextAfter
    <3> QED
      BY <1>6, <2>1, <3>1, <3>2, SendExtends DEF Press
  <2> QED
    BY <2>2, <2>3
<1>7. ASSUME NEW c \in Codes, Release(c)
      PROVE  LineInv'
  <2>1. c \in 0 .. 127 /\ c \in held
    BY <1>7 DEF Release, KeyTypes
  <2>2. KeyTypes'
    BY <1>7, <2>1 DEF Release, Send, KeyTypes, lineVars, Released
  <2>3. ASSUME ~odd'
        PROVE  \E d, t : Record(d, t)'
    <3>1. ~odd /\ Ordinary(held, c + Released)
      BY <1>7, <2>1, <2>3 DEF Release, Ordinary, Released
    <3>2. held' = After(held, c + Released) /\ typed' = TextAfter(typed, held, c + Released)
      BY <1>7, <2>1 DEF Release, After, TextAfter, Released
    <3>3. c + Released \in 0 .. 255
      BY <2>1 DEF Released
    <3> QED
      BY <1>7, <3>1, <3>2, <3>3, SendExtends DEF Release
  <2> QED
    BY <2>2, <2>3
<1> QED
  BY <1>1, <1>2, <1>3, <1>4, <1>5, <1>6, <1>7 DEF Next, Interrupts

LEMMA LineInit == Init => LineInv
<1> SUFFICES ASSUME Init PROVE LineInv
  OBVIOUS
<1> DEFINE none == [i \in {0} |-> {}]
           empty == [i \in {0} |-> <<>>]
<1>1. KeyTypes
  <2>1. /\ queue = <<>> /\ held = {} /\ requests = {}
        /\ high = FALSE /\ odd = FALSE
    BY DEF Init
  <2>2. queue \in Seq(0 .. 255)
    BY <2>1
  <2> QED
    BY <2>1, <2>2, Zenon DEF KeyTypes
<1>2. Record(none, empty)
  <2>1. /\ queue = <<>> /\ Len(queue) = 0 /\ high = FALSE
        /\ line = <<>> /\ held = {} /\ typed = <<>>
    BY DEF Init
  <2>2. none[0] = {} /\ empty[0] = <<>>
    OBVIOUS
  <2>3. 0 .. 0 = {0} /\ 1 .. 0 = {}
    OBVIOUS
  <2> HIDE DEF none, empty
  <2> QED
    BY <2>1, <2>2, <2>3 DEF Record, OneShift
<1> QED
  BY <1>1, <1>2 DEF LineInv

(* Whatever main prints meanwhile and however far the handler lags behind, *)
(* once every scan code is handled the line buffer holds what was typed    *)
(* (kernel.c:40, keyboard.c:20).                                           *)
THEOREM LineTheorem == Spec => []LineIsWhatWasTyped
<1>1. LineInv => LineIsWhatWasTyped
  <2> SUFFICES ASSUME LineInv, ~odd, queue = <<>>
               PROVE  line = typed
    BY DEF LineIsWhatWasTyped
  <2> QED
    BY DEF LineInv, Record
<1> QED
  BY <1>1, LineInit, LineStep, PTL DEF Spec

-----------------------------------------------------------------------------
(* arithmetic of rows *)

LEMMA Division ==
    ASSUME NEW n \in Nat, NEW d \in Nat \ {0}
    PROVE  /\ n \div d \in Nat /\ n % d \in 0 .. d - 1
           /\ (n \div d) * d <= n /\ n < ((n \div d) + 1) * d
           /\ n = d * (n \div d) + (n % d)
<1>1. n \div d \in Nat /\ (n \div d) * d <= n
  OBVIOUS
<1>2. n < ((n \div d) + 1) * d
  OBVIOUS
<1>3. n % d \in 0 .. d - 1
  OBVIOUS
<1>4. n = d * (n \div d) + (n % d)
  OBVIOUS
<1> QED
  BY <1>1, <1>2, <1>3, <1>4

LEMMA RowsBelow ==
    ASSUME NEW n \in Nat, NEW d \in Nat \ {0}, NEW t \in Nat
    PROVE  (n + t * d) \div d = (n \div d) + t
OBVIOUS

LEMMA NextRow ==
    ASSUME NEW n \in Nat, NEW d \in Nat \ {0}
    PROVE  (n + d) \div d = (n \div d) + 1
OBVIOUS

LEMMA Smaller ==
    ASSUME NEW a \in Nat, NEW b \in Nat, NEW d \in Nat \ {0}, a * d < b * d
    PROVE  a < b
OBVIOUS

LEMMA Screenful ==
    /\ Cols \in Nat \ {0} /\ Rows \in Nat \ {0} /\ Base \in Nat \ {0}
    /\ Cells \in Nat \ {0} /\ Cells = Rows * Cols /\ Cells < Base * Base
    /\ (Rows - 1) * Cols = Cells - Cols
    /\ MaxCodes \in Nat /\ MaxCodes <= Cells - Cols
<1>1. /\ Cols \in Nat \ {0} /\ Rows \in Nat \ {0} /\ Base \in Nat \ {0}
      /\ BufferSize \in Nat \ {0}
      /\ Cells < Base * Base /\ MaxCodes \in Nat /\ MaxCodes <= BufferSize
      /\ BufferSize <= (Rows - 1) * Cols
  BY ConsoleAssumption
<1>2. Cells \in Nat \ {0} /\ Cells = Rows * Cols
  BY <1>1 DEF Cells
<1>3. (Rows - 1) * Cols = Cells - Cols
  BY <1>1, <1>2
<1> QED
  BY <1>1, <1>2, <1>3

(* the row of a cell *)
LEMMA RowOf ==
    ASSUME NEW i \in 0 .. Cells - 1
    PROVE  /\ i \div Cols \in 0 .. Rows - 1
           /\ i \div Cols = Rows - 1 <=> i + Cols >= Cells
           /\ (i + Cols) \div Cols = (i \div Cols) + 1
<1> USE Screenful
<1>1. PICK k \in Nat : /\ k = i \div Cols /\ k * Cols <= i /\ i < (k + 1) * Cols
  BY Division
<1>2. k < Rows
  <2>1. k * Cols < Rows * Cols
    BY <1>1
  <2> QED
    BY <2>1, Smaller
<1>3. k = Rows - 1 => i + Cols >= Cells
  BY <1>1
<1>4. k # Rows - 1 => i + Cols < Cells
  <2> SUFFICES ASSUME k # Rows - 1
               PROVE  i + Cols < Cells
    OBVIOUS
  <2>1. PICK m \in Nat : Rows = k + 2 + m
    <3>1. Rows - (k + 2) \in Nat
      BY <1>2
    <3> QED
      BY <3>1
  <2>2. Rows * Cols = (k + 1) * Cols + Cols + m * Cols /\ m * Cols \in Nat
    BY <2>1
  <2> QED
    BY <1>1, <2>2
<1>5. (i + Cols) \div Cols = (i \div Cols) + 1
  <2>1. i \in Nat /\ Cols \in Nat \ {0}
    OBVIOUS
  <2> QED
    BY <2>1, NextRow
<1> QED
  BY <1>1, <1>2, <1>3, <1>4, <1>5

(* A position is in the registers as two digits.                           *)
LEMMA Digits ==
    ASSUME NEW n \in 0 .. Cells - 1
    PROVE  /\ DOMAIN Split(n) = {14, 15}
           /\ Split(n)[14] * Base + Split(n)[15] = n
<1> USE Screenful
<1>1. DOMAIN Split(n) = {14, 15} /\ Split(n)[14] = (n \div Base) % Base /\ Split(n)[15] = n % Base
  BY DEF Split
<1>2. PICK q \in Nat, k \in Nat : /\ q = n \div Base /\ k = n % Base
                                  /\ q * Base <= n /\ n = Base * q + k
  BY Division
<1>3. q < Base
  <2>1. q * Base < Base * Base
    BY <1>2
  <2> QED
    BY <2>1, Smaller
<1>4. q % Base = q
  BY <1>3
<1> QED
  BY <1>1, <1>2, <1>4

-----------------------------------------------------------------------------
(* the paper *)

(* what is printed in place n of the paper *)
InkAt(p, n) == IF \E d \in p.ink : d[1] = n
               THEN (CHOOSE d \in p.ink : d[1] = n)[2] ELSE Blank

(* the cell behind the last character *)
Place(p) == p.at - p.top * Cols

(* Each place is printed on once, in front of the end, and the end is on    *)
(* the screen.                                                             *)
PaperOK(p) ==
    /\ p.at \in Nat /\ p.top \in Nat
    /\ Place(p) \in 0 .. Cells - 1
    /\ \A d \in p.ink : d[1] \in Nat /\ d[1] < p.at
    /\ \A d, e \in p.ink : d[1] = e[1] => d = e

(* the screen when the rows above row r - 1 are moved up *)
Partly(p, r) == [i \in 0 .. Cells - 1 |->
    InkAt(p, i + (IF i \div Cols < r - 1 THEN p.top ELSE p.top - 1) * Cols)]

(* the registers hold cell p *)
Position(p) == cursor = Split(p)

Steps == {"select", "high", "selectLow", "low", "char", "loop",
          "scroll", "point", "storeHigh", "pointLow", "store"}

(* where main has not begun, or has finished, to put a character *)
Fixed == pc \in {"select", "high", "selectLow", "low", "char", "loop"}

(* what main has done of the character it is at *)
InPrint ==
    /\ pc \in {"high", "storeHigh"} => index = 14
    /\ pc \in {"low", "store"} => index = 15
    /\ pc \in {"selectLow", "low"} => pos = cursor[14] * Base
    /\ pc \in {"char", "point", "storeHigh", "pointLow", "store"} => pos = Place(paper)
    /\ pc \in {"pointLow", "store"} => cursor[14] = Split(pos)[14]
    /\ pc \in {"point", "storeHigh", "pointLow", "store"} => screen = Shown(paper)
    /\ pc = "scroll" => /\ row \in 1 .. Rows
                        /\ pos = Cells /\ Place(paper) = Cells - Cols
                        /\ screen = Partly(paper, row)

(* what is left to print, the line, and the codes that may still grow it *)
Keys == {KeyOf(print_letter(c), b) : c \in 0 .. 255, b \in BOOLEAN}

Texts ==
    /\ message \in Seq(Printed) /\ messages \in Seq(Seq(Printed))
    /\ line \in Seq(Keys)
    /\ sent \in 0 .. MaxCodes
    /\ Len(line) + Len(queue) <= sent

(* before the screen is cleared: no interrupts, the boot loader's cursor *)
Cleared ==
    /\ ~enabled
    /\ line = <<>>
    /\ Cursor \in 0 .. Cells - 1
    /\ Position(Cursor)
    /\ paper = [at |-> Cursor, ink |-> {}, top |-> 0]
    /\ DOMAIN screen = 0 .. Cells - 1

(* from then on, as long as nothing raced *)
Painted ==
    /\ PaperOK(paper)
    /\ Len(line) <= Place(paper)
    /\ DOMAIN cursor = {14, 15}
    /\ Fixed \/ message = <<>> => screen = Shown(paper) /\ Position(Place(paper))
    /\ ~Fixed => message # <<>>
    /\ message # <<>> => InPrint

ScreenInv ==
    /\ Texts
    /\ pc \in Steps \cup {"clear"}
    /\ outside => raced
    /\ raced \in BOOLEAN
    /\ ~raced => IF pc = "clear" THEN Cleared ELSE Painted

LEMMA InkIs ==
    ASSUME NEW p, \A d, e \in p.ink : d[1] = e[1] => d = e
    PROVE  /\ \A d \in p.ink : InkAt(p, d[1]) = d[2]
           /\ \A n : (\A d \in p.ink : d[1] # n) => InkAt(p, n) = Blank
<1>1. ASSUME NEW d \in p.ink
      PROVE  InkAt(p, d[1]) = d[2]
  <2>1. d = CHOOSE e \in p.ink : e[1] = d[1]
    OBVIOUS
  <2> QED
    BY <2>1 DEF InkAt
<1>2. ASSUME NEW n, \A d \in p.ink : d[1] # n
      PROVE  InkAt(p, n) = Blank
  BY <1>2 DEF InkAt
<1> QED
  BY <1>1, <1>2

LEMMA BlankBelow ==
    ASSUME NEW p, PaperOK(p), NEW n \in Nat, n >= p.at
    PROVE  InkAt(p, n) = Blank
<1>1. \A d \in p.ink : d[1] # n
  BY DEF PaperOK
<1> QED
  BY <1>1, InkIs DEF PaperOK

(* The character goes to its place, and to no other.                       *)
LEMMA StruckInk ==
    ASSUME NEW p, PaperOK(p), NEW c, c = Backspace => p.at > 0
    PROVE  LET q == Strike(p, c) IN
           /\ \A d, e \in q.ink : d[1] = e[1] => d = e
           /\ q.at \in Nat => \A d \in q.ink : d[1] \in Nat /\ (c = Newline \/ d[1] < q.at)
           /\ c = Newline => \A n : InkAt(q, n) = InkAt(p, n)
           /\ c = Backspace =>
                \A n : InkAt(q, n) = IF n = p.at - 1 THEN Blank ELSE InkAt(p, n)
           /\ c \notin {Newline, Backspace} =>
                \A n : InkAt(q, n) = IF n = p.at THEN c ELSE InkAt(p, n)
<1> DEFINE q == Strike(p, c)
<1>1. Newline # Backspace
  BY LettersDiffer
<1>2. /\ p.at \in Nat
      /\ \A d \in p.ink : d[1] \in Nat /\ d[1] < p.at
      /\ \A d, e \in p.ink : d[1] = e[1] => d = e
  BY DEF PaperOK
<1>3. CASE c = Newline
  <2>1. q.ink = p.ink
    BY <1>1, <1>3 DEF Strike
  <2>2. \A n : InkAt(q, n) = InkAt(p, n)
    BY <2>1 DEF InkAt
  <2> HIDE DEF q
  <2> QED
    BY <1>1, <1>2, <1>3, <2>1, <2>2 DEF q
<1>4. CASE c = Backspace
  <2>1. q.at = p.at - 1 /\ q.ink = {i \in p.ink : i[1] # p.at - 1}
    BY <1>1, <1>4 DEF Strike
  <2> HIDE DEF q
  <2>2. \A d, e \in q.ink : d[1] = e[1] => d = e
    BY <1>2, <2>1
  <2>3. \A d \in q.ink : d[1] \in Nat /\ d[1] < q.at
    <3> TAKE d \in q.ink
    <3>1. d[1] \in Nat /\ d[1] < p.at /\ d[1] # p.at - 1
      BY <1>2, <2>1
    <3> QED
      BY <1>2, <2>1, <3>1
  <2>4. ASSUME NEW n
        PROVE  InkAt(q, n) = IF n = p.at - 1 THEN Blank ELSE InkAt(p, n)
    <3>1. CASE n = p.at - 1
      BY <2>1, <2>2, <3>1, InkIs
    <3>2. CASE n # p.at - 1 /\ \E d \in p.ink : d[1] = n
      <4>1. PICK d \in p.ink : d[1] = n
        BY <3>2
      <4>2. d \in q.ink
        BY <2>1, <3>2, <4>1
      <4>3. InkAt(p, n) = d[2] /\ InkAt(q, n) = d[2]
        BY <1>2, <2>2, <4>1, <4>2, InkIs
      <4> QED
        BY <3>2, <4>3
    <3>3. CASE n # p.at - 1 /\ \A d \in p.ink : d[1] # n
      <4>1. \A d \in q.ink : d[1] # n
        BY <2>1, <3>3
      <4> QED
        BY <1>2, <2>2, <3>3, <4>1, InkIs
    <3> QED
      BY <3>1, <3>2, <3>3
  <2> QED
    BY <1>1, <1>4, <2>2, <2>3, <2>4 DEF q
<1>5. CASE c \notin {Newline, Backspace}
  <2>1. q.at = p.at + 1 /\ q.ink = {i \in p.ink : i[1] # p.at} \cup {<<p.at, c>>}
    BY <1>5 DEF Strike
  <2> HIDE DEF q
  <2>2. \A d \in q.ink : d = <<p.at, c>> \/ (d \in p.ink /\ d[1] # p.at)
    BY <2>1
  <2>3. <<p.at, c>>[1] = p.at /\ <<p.at, c>>[2] = c /\ <<p.at, c>> \in q.ink
    BY <2>1
  <2>4. \A d, e \in q.ink : d[1] = e[1] => d = e
    BY <1>2, <2>2, <2>3
  <2>5. \A d \in q.ink : d[1] \in Nat /\ d[1] < q.at
    <3> TAKE d \in q.ink
    <3>1. d[1] = p.at \/ (d[1] \in Nat /\ d[1] < p.at)
      BY <1>2, <2>2, <2>3
    <3> QED
      BY <1>2, <2>1, <3>1
  <2>6. ASSUME NEW n
        PROVE  InkAt(q, n) = IF n = p.at THEN c ELSE InkAt(p, n)
    <3>1. CASE n = p.at
      BY <2>3, <2>4, <3>1, InkIs
    <3>2. CASE n # p.at /\ \E d \in p.ink : d[1] = n
      <4>1. PICK d \in p.ink : d[1] = n
        BY <3>2
      <4>2. d \in q.ink
        BY <2>1, <3>2, <4>1
      <4>3. InkAt(p, n) = d[2] /\ InkAt(q, n) = d[2]
        BY <1>2, <2>4, <4>1, <4>2, InkIs
      <4> QED
        BY <3>2, <4>3
    <3>3. CASE n # p.at /\ \A d \in p.ink : d[1] # n
      <4>1. \A d \in q.ink : d[1] # n
        BY <2>2, <2>3, <3>3
      <4> QED
        BY <1>2, <2>4, <3>3, <4>1, InkIs
    <3> QED
      BY <3>1, <3>2, <3>3
  <2> QED
    BY <1>5, <2>4, <2>5, <2>6 DEF q
<1> QED
  BY <1>3, <1>4, <1>5

(* Where the paper and the screen are when the cursor moves from cell p to  *)
(* cell x: the screen follows by at most a row, and only from its end.     *)
LEMMA StruckPlace ==
    ASSUME NEW p, PaperOK(p), NEW c, c = Backspace => Place(p) > 0
    PROVE  LET q == Strike(p, c)
               x == Moved(Place(p), c) IN
           /\ x \in 0 .. Cells
           /\ c = Backspace => x = Place(p) - 1
           /\ c # Backspace => x > Place(p)
           /\ q.at = x + p.top * Cols /\ q.at \in Nat
           /\ q.top = IF x = Cells THEN p.top + 1 ELSE p.top
           /\ Place(q) = IF x = Cells THEN Cells - Cols ELSE x
<1> DEFINE x == Moved(Place(p), c)
           q == Strike(p, c)
<1>0. \A n, t \in Nat : (n + t * Cols) \div Cols = (n \div Cols) + t
  BY Screenful, RowsBelow
<1> USE Screenful
<1>1. PICK P \in 0 .. Cells - 1, T \in Nat, A \in Nat, TC \in Nat :
         P = Place(p) /\ T = p.top /\ A = p.at /\ TC = T * Cols /\ A = P + TC
  <2>1. p.at \in Nat /\ p.top \in Nat /\ Place(p) \in 0 .. Cells - 1
    BY DEF PaperOK
  <2>2. p.top * Cols \in Nat /\ Place(p) = p.at - p.top * Cols
    BY <2>1 DEF Place
  <2>3. p.at = Place(p) + p.top * Cols
    BY <2>1, <2>2
  <2> QED
    BY <2>1, <2>2, <2>3
<1>2. PICK k \in Nat : /\ k = P \div Cols /\ k * Cols <= P /\ P < (k + 1) * Cols
                       /\ k \in 0 .. Rows - 1
  <2>1. P \in Nat /\ Cols \in Nat \ {0}
    OBVIOUS
  <2>2. /\ P \div Cols \in Nat
        /\ (P \div Cols) * Cols <= P /\ P < ((P \div Cols) + 1) * Cols
    BY <2>1, Division
  <2>3. P \div Cols \in 0 .. Rows - 1
    BY RowOf
  <2> QED
    BY <2>2, <2>3
<1>3. A \div Cols = k + T
  <2>1. P \in Nat /\ Cols \in Nat \ {0} /\ A = P + T * Cols
    BY <1>1
  <2>3. T \in Nat
    BY <1>1
  <2>2. (P + T * Cols) \div Cols = (P \div Cols) + T
    BY <2>1, <2>3, <1>0, Zenon
  <2> QED
    BY <1>2, <2>1, <2>2
<1>4. /\ x \in 0 .. Cells
      /\ c = Backspace => x = P - 1
      /\ c # Backspace => x > P
      /\ q.at = x + TC
  <2>1. CASE c = Newline
    <3>1. x = Cols * (k + 1) /\ q.at = Cols * (k + T + 1)
      <4>1. p.at \div Cols = k + T /\ Place(p) \div Cols = k
        BY <1>1, <1>2, <1>3
      <4>2. x = Cols * (k + 1)
        BY <2>1, <4>1, LettersDiffer DEF Moved
      <4>3. q.at = Cols * (k + T + 1)
        BY <2>1, <4>1, LettersDiffer DEF Strike
      <4> QED
        BY <4>2, <4>3
    <3>2. Cols * (k + 1) = (k + 1) * Cols /\ Cols * (k + T + 1) = (k + 1) * Cols + TC
      BY <1>1
    <3>3. (k + 1) * Cols <= Rows * Cols
      <4>1. PICK m \in Nat : Rows = k + 1 + m
        <5>1. Rows - (k + 1) \in Nat
          BY <1>2
        <5> QED
          BY <5>1
      <4>2. Rows * Cols = (k + 1) * Cols + m * Cols /\ m * Cols \in Nat
        BY <4>1
      <4>3. (k + 1) * Cols \in Nat
        OBVIOUS
      <4> QED
        BY <4>2, <4>3
    <3>4. (k + 1) * Cols \in Nat
      OBVIOUS
    <3> QED
      <4>1. x = (k + 1) * Cols /\ q.at = (k + 1) * Cols + TC
        BY <3>1, <3>2
      <4>2. (k + 1) * Cols \in 0 .. Cells /\ (k + 1) * Cols > P
        BY <1>2, <3>3, <3>4
      <4> HIDE DEF x, q
      <4> QED
        BY <2>1, <4>1, <4>2, LettersDiffer
  <2>2. CASE c = Backspace
    <3>1. x = P - 1 /\ q.at = A - 1
      BY <1>1, <2>2, LettersDiffer DEF Moved, Strike
    <3> QED
      BY <1>1, <2>2, <3>1
  <2>3. CASE c \notin {Newline, Backspace}
    <3>1. x = P + 1 /\ q.at = A + 1
      BY <1>1, <2>3 DEF Moved, Strike
    <3> QED
      BY <1>1, <2>3, <3>1
  <2> QED
    BY <2>1, <2>2, <2>3
<1>5. q.top = LET over == q.at \div Cols - Rows + 1 IN IF over > T THEN over ELSE T
  BY <1>1 DEF Strike
<1>6. q.at \div Cols = (x \div Cols) + T
  <2>1. x \in Nat /\ Cols \in Nat \ {0} /\ q.at = x + T * Cols
    BY <1>1, <1>4
  <2> HIDE DEF x, q
  <2>3. T \in Nat
    BY <1>1
  <2>2. (x + T * Cols) \div Cols = (x \div Cols) + T
    BY <2>1, <2>3, <1>0, Zenon
  <2> QED
    BY <2>1, <2>2
<1>7. Place(q) = q.at - q.top * Cols
  BY DEF Place
<1> HIDE DEF x, q
<1>8. CASE x = Cells
  <2>1. x \div Cols = Rows
    BY <1>8
  <2>2. q.top = T + 1
    BY <1>5, <1>6, <2>1
  <2>3. q.top * Cols = TC + Cols
    BY <1>1, <2>2
  <2>4. Place(q) = Cells - Cols
    BY <1>1, <1>4, <1>7, <1>8, <2>3
  <2> QED
    BY <1>1, <1>4, <1>8, <2>2, <2>4 DEF x, q
<1>9. CASE x # Cells
  <2>1. x \in 0 .. Cells - 1
    BY <1>4, <1>9
  <2>2. x \div Cols \in 0 .. Rows - 1
    BY <2>1, RowOf
  <2>3. q.top = T
    BY <1>5, <1>6, <2>2
  <2>4. Place(q) = x
    BY <1>1, <1>4, <1>7, <2>3
  <2> QED
    BY <1>1, <1>4, <1>9, <2>3, <2>4 DEF x, q
<1> QED
  BY <1>8, <1>9

LEMMA StruckOK ==
    ASSUME NEW p, PaperOK(p), NEW c, c = Backspace => Place(p) > 0
    PROVE  PaperOK(Strike(p, c))
<1> DEFINE q == Strike(p, c)
           x == Moved(Place(p), c)
<1>1. /\ p.at \in Nat /\ p.top \in Nat /\ p.top * Cols \in Nat
      /\ Place(p) \in 0 .. Cells - 1 /\ p.at = Place(p) + p.top * Cols
  <2>1. p.at \in Nat /\ p.top \in Nat /\ Place(p) \in 0 .. Cells - 1
    BY DEF PaperOK
  <2>2. p.top * Cols \in Nat /\ Place(p) = p.at - p.top * Cols
    BY <2>1, Screenful DEF Place
  <2>3. p.at = Place(p) + p.top * Cols
    BY <2>1, <2>2
  <2> QED
    BY <2>1, <2>2, <2>3
<1>2. /\ x \in 0 .. Cells
      /\ c # Backspace => x > Place(p)
      /\ q.at = x + p.top * Cols /\ q.at \in Nat
      /\ q.top = IF x = Cells THEN p.top + 1 ELSE p.top
      /\ Place(q) = IF x = Cells THEN Cells - Cols ELSE x
  BY StruckPlace
<1>3. c = Backspace => p.at > 0
  BY <1>1
<1>4. /\ \A d, e \in q.ink : d[1] = e[1] => d = e
      /\ \A d \in q.ink : d[1] \in Nat /\ (c = Newline \/ d[1] < q.at)
      /\ c = Newline => q.ink = p.ink
  <2>1. c = Newline => q.ink = p.ink
    BY LettersDiffer DEF Strike
  <2> QED
    BY <1>2, <1>3, <2>1, StruckInk
<1> HIDE DEF q, x
<1>5. \A d \in q.ink : d[1] < q.at
  <2> SUFFICES ASSUME NEW d \in q.ink, c = Newline
               PROVE  d[1] < q.at
    BY <1>4
  <2>1. d[1] \in Nat /\ d[1] < p.at
    BY <1>4 DEF PaperOK
  <2>2. q.at > p.at
    <3>1. c # Backspace
      BY LettersDiffer
    <3>2. x > Place(p) /\ x \in Int
      BY <1>2, <3>1, Screenful
    <3> QED
      BY <1>1, <1>2, <3>2
  <2> QED
    BY <1>1, <1>2, <2>1, <2>2
<1>6. Place(q) \in 0 .. Cells - 1 /\ q.top \in Nat
  <2>1. Cells - Cols \in 0 .. Cells - 1
    BY Screenful
  <2> QED
    BY <1>1, <1>2, <2>1, Screenful
<1>7. PaperOK(q)
  BY <1>2, <1>4, <1>5, <1>6 DEF PaperOK
<1> QED
  BY <1>7 DEF q

(* What print_char draws is what is now printed on the paper.              *)
LEMMA DrawnInk ==
    ASSUME NEW p, PaperOK(p), NEW c, c = Backspace => Place(p) > 0
    PROVE  Drawn(Shown(p), Place(p), c)
               = [i \in 0 .. Cells - 1 |-> InkAt(Strike(p, c), i + p.top * Cols)]
<1> DEFINE q == Strike(p, c)
<1>1. PICK P \in 0 .. Cells - 1, N \in Nat : P = Place(p) /\ N = p.top * Cols /\ p.at = P + N
  <2>1. p.at \in Nat /\ p.top \in Nat /\ Place(p) \in 0 .. Cells - 1
    BY DEF PaperOK
  <2>2. p.top * Cols \in Nat /\ Place(p) = p.at - p.top * Cols
    BY <2>1, Screenful DEF Place
  <2>3. p.at = Place(p) + p.top * Cols
    BY <2>1, <2>2
  <2> QED
    BY <2>1, <2>2, <2>3
<1>2. Shown(p) = [i \in 0 .. Cells - 1 |-> InkAt(p, i + N)]
  BY <1>1 DEF Shown, InkAt
<1>3. c = Backspace => p.at > 0
  BY <1>1
<1>4. /\ c = Newline => \A n : InkAt(q, n) = InkAt(p, n)
      /\ c = Backspace =>
             \A n : InkAt(q, n) = IF n = p.at - 1 THEN Blank ELSE InkAt(p, n)
      /\ c \notin {Newline, Backspace} =>
             \A n : InkAt(q, n) = IF n = p.at THEN c ELSE InkAt(p, n)
  BY <1>3, StruckInk
<1> HIDE DEF q
<1>5. CASE c = Newline
  <2>1. Drawn(Shown(p), P, c) = Shown(p)
    BY <1>5, LettersDiffer DEF Drawn
  <2> QED
    BY <1>1, <1>2, <1>4, <1>5, <2>1 DEF q
<1>6. CASE c = Backspace
  <2>1. P - 1 \in 0 .. Cells - 1
    BY <1>1, <1>6, Screenful
  <2>2. Drawn(Shown(p), P, c) = [Shown(p) EXCEPT ![P - 1] = Blank]
    BY <1>2, <1>6, <2>1, LettersDiffer DEF Drawn, Put
  <2>3. \A i \in 0 .. Cells - 1 : i + N = p.at - 1 <=> i = P - 1
    BY <1>1
  <2>4. \A i \in 0 .. Cells - 1 :
            InkAt(q, i + N) = IF i = P - 1 THEN Blank ELSE InkAt(p, i + N)
    BY <1>4, <1>6, <2>3
  <2>5. [Shown(p) EXCEPT ![P - 1] = Blank] = [i \in 0 .. Cells - 1 |-> InkAt(q, i + N)]
    BY <1>2, <2>1, <2>4
  <2> QED
    BY <1>1, <2>2, <2>5 DEF q
<1>7. CASE c \notin {Newline, Backspace}
  <2>1. Drawn(Shown(p), P, c) = [Shown(p) EXCEPT ![P] = c]
    BY <1>1, <1>2, <1>7 DEF Drawn, Put
  <2>2. \A i \in 0 .. Cells - 1 : i + N = p.at <=> i = P
    BY <1>1
  <2> QED
    BY <1>1, <1>2, <1>4, <1>7, <2>1, <2>2 DEF q
<1> QED
  BY <1>5, <1>6, <1>7

(* In the middle of the screen that is all; at its end the rows move up,   *)
(* one by one (main) or in one step of the handler.                        *)
LEMMA DrawnShows ==
    ASSUME NEW p, PaperOK(p), NEW c, c = Backspace => Place(p) > 0
    PROVE  LET q == Strike(p, c)
               s == Drawn(Shown(p), Place(p), c) IN
           IF Moved(Place(p), c) >= Cells
           THEN s = Partly(q, 1) /\ Scrolled(s) = Shown(q)
           ELSE s = Shown(q)
<1> DEFINE q == Strike(p, c)
           s == Drawn(Shown(p), Place(p), c)
           x == Moved(Place(p), c)
<1>1. s = [i \in 0 .. Cells - 1 |-> InkAt(q, i + p.top * Cols)]
  BY DrawnInk
<1>2. /\ x \in 0 .. Cells
      /\ q.top = IF x = Cells THEN p.top + 1 ELSE p.top
      /\ q.at = x + p.top * Cols
  BY StruckPlace
<1>3. PaperOK(q)
  BY StruckOK
<1>4. p.top \in Nat
  BY DEF PaperOK
<1> HIDE DEF q, s, x
<1>5. CASE x = Cells
  <2>1. q.top = p.top + 1 /\ q.top - 1 = p.top
    BY <1>2, <1>4, <1>5
  <2>2. s = Partly(q, 1)
    <3>1. \A i \in 0 .. Cells - 1 : ~(i \div Cols < 1 - 1)
      BY RowOf
    <3> QED
      BY <1>1, <2>1, <3>1 DEF Partly
  <2>3. PICK N \in Nat : N = p.top * Cols /\ q.top * Cols = N + Cols
    BY <1>4, <2>1, Screenful
  <2>4. Scrolled(s) = [i \in 0 .. Cells - 1 |->
                         IF i + Cols \in 0 .. Cells - 1 THEN s[i + Cols] ELSE Blank]
    BY <1>1 DEF Scrolled
  <2>5. ASSUME NEW i \in 0 .. Cells - 1
        PROVE  Scrolled(s)[i] = InkAt(q, i + q.top * Cols)
    <3>1. CASE i + Cols \in 0 .. Cells - 1
      <4>1. Scrolled(s)[i] = InkAt(q, (i + Cols) + N)
        BY <1>1, <2>3, <2>4, <3>1
      <4>2. (i + Cols) + N = i + q.top * Cols
        BY <2>3, Screenful
      <4> QED
        BY <4>1, <4>2
    <3>2. CASE i + Cols \notin 0 .. Cells - 1
      <4>1. i + q.top * Cols \in Nat /\ i + q.top * Cols >= q.at
        BY <1>2, <1>5, <2>3, <3>2, Screenful
      <4>2. InkAt(q, i + q.top * Cols) = Blank
        BY <1>3, <4>1, BlankBelow
      <4> QED
        BY <2>4, <3>2, <4>2
    <3> QED
      BY <3>1, <3>2
  <2>6. Shown(q) = [i \in 0 .. Cells - 1 |-> InkAt(q, i + q.top * Cols)]
    BY DEF Shown, InkAt
  <2>7. Scrolled(s) = Shown(q)
    BY <2>4, <2>5, <2>6
  <2> QED
    BY <1>5, <2>2, <2>7, Screenful DEF q, s, x
<1>6. CASE x # Cells
  <2>1. s = Shown(q)
    BY <1>1, <1>2, <1>6 DEF Shown, InkAt
  <2>2. ~(x >= Cells)
    BY <1>2, <1>6, Screenful
  <2> QED
    BY <2>1, <2>2 DEF q, s, x
<1> QED
  BY <1>5, <1>6

(* The loop that scrolls moves up one more row.                            *)
LEMMA RowMovedUp ==
    ASSUME NEW p, p.top \in Nat, NEW r \in 1 .. Rows - 1
    PROVE  RowUp(Partly(p, r), r) = Partly(p, r + 1)
<1> DEFINE s == Partly(p, r)
           t == RowUp(s, r)
<1>1. DOMAIN s = 0 .. Cells - 1
  BY DEF Partly
<1>2. t = [i \in 0 .. Cells - 1 |-> IF i \div Cols = r - 1 THEN s[i + Cols] ELSE s[i]]
  BY <1>1 DEF RowUp
<1>3. /\ r \in Nat /\ Rows \in Nat /\ r < Rows /\ r >= 1
      /\ Cols \in Nat /\ Cells \in Nat
  BY Screenful
<1>4. ASSUME NEW i \in 0 .. Cells - 1
      PROVE  t[i] = InkAt(p, i + (IF i \div Cols < r THEN p.top ELSE p.top - 1) * Cols)
  <2>1. i \div Cols \in 0 .. Rows - 1
    BY RowOf
  <2>2. CASE i \div Cols = r - 1
    <3>1. i + Cols \in 0 .. Cells - 1
      <4>1. i \div Cols # Rows - 1
        BY <1>3, <2>2
      <4>2. ~(i + Cols >= Cells)
        BY <4>1, RowOf
      <4> QED
        BY <1>3, <4>2
    <3>2. (i + Cols) \div Cols = r
      <4>1. (i + Cols) \div Cols = (i \div Cols) + 1
        BY RowOf
      <4> QED
        BY <1>3, <2>2, <4>1
    <3>3. t[i] = s[i + Cols]
      BY <1>2, <2>2
    <3>4. s[i + Cols] = InkAt(p, (i + Cols) + (p.top - 1) * Cols)
      <4>1. ~(r < r - 1)
        BY <1>3
      <4> QED
        BY <3>1, <3>2, <4>1 DEF Partly
    <3>5. (i + Cols) + (p.top - 1) * Cols = i + p.top * Cols
      <4>1. (p.top - 1) * Cols = p.top * Cols - Cols /\ p.top * Cols \in Nat
        BY <1>3
      <4> QED
        BY <1>3, <4>1
    <3>6. i \div Cols < r
      BY <1>3, <2>2
    <3> QED
      BY <3>3, <3>4, <3>5, <3>6
  <2>3. CASE i \div Cols # r - 1
    <3>1. t[i] = s[i]
      BY <1>2, <2>3
    <3>2. i \div Cols < r <=> i \div Cols < r - 1
      BY <1>3, <2>1, <2>3
    <3> QED
      BY <3>1, <3>2 DEF Partly
  <2> QED
    BY <2>2, <2>3
<1>5. (r + 1) - 1 = r
  BY <1>3
<1>6. Partly(p, r + 1) = [i \in 0 .. Cells - 1 |->
          InkAt(p, i + (IF i \div Cols < r THEN p.top ELSE p.top - 1) * Cols)]
  BY <1>5 DEF Partly
<1> HIDE DEF t
<1>7. t = Partly(p, r + 1)
  BY <1>2, <1>4, <1>6
<1> QED
  BY <1>7 DEF t

(* The last row is cleared, and the paper has nothing there.               *)
LEMMA LastRowCleared ==
    ASSUME NEW p, PaperOK(p), Place(p) = Cells - Cols
    PROVE  LastCleared(Partly(p, Rows)) = Shown(p)
<1> DEFINE s == Partly(p, Rows)
<1>1. DOMAIN s = 0 .. Cells - 1
  BY DEF Partly
<1>2. LastCleared(s) = [i \in 0 .. Cells - 1 |-> IF i \div Cols = Rows - 1 THEN Blank ELSE s[i]]
  BY <1>1 DEF LastCleared
<1>3. PICK N \in Nat : N = p.top * Cols /\ p.at = (Cells - Cols) + N
  <2>1. p.at \in Nat /\ p.top \in Nat
    BY DEF PaperOK
  <2>2. p.top * Cols \in Nat /\ Place(p) = p.at - p.top * Cols
    BY <2>1, Screenful DEF Place
  <2> QED
    BY <2>1, <2>2, Screenful
<1>4. ASSUME NEW i \in 0 .. Cells - 1
      PROVE  LastCleared(s)[i] = InkAt(p, i + N)
  <2>1. CASE i \div Cols = Rows - 1
    <3>1. i + N \in Nat /\ i + N >= p.at
      BY <1>3, <2>1, RowOf, Screenful
    <3>2. InkAt(p, i + N) = Blank
      BY <3>1, BlankBelow
    <3> QED
      BY <1>2, <2>1, <3>2
  <2>2. CASE i \div Cols # Rows - 1
    <3>1. i \div Cols < Rows - 1
      <4>1. i \div Cols \in 0 .. Rows - 1
        BY RowOf
      <4> QED
        BY <2>2, <4>1, Screenful
    <3> QED
      BY <1>2, <1>3, <2>2, <3>1 DEF Partly
  <2> QED
    BY <2>1, <2>2
<1>5. Shown(p) = [i \in 0 .. Cells - 1 |-> InkAt(p, i + N)]
  BY <1>3 DEF Shown, InkAt
<1> QED
  BY <1>2, <1>4, <1>5

-----------------------------------------------------------------------------
(* the handler *)

LEMMA KeysTyped ==
    ASSUME NEW c \in 0 .. 255, NEW b \in BOOLEAN
    PROVE  KeyOf(print_letter(c), b) \in Keys
BY DEF Keys

LEMMA FrontFacts ==
    ASSUME NEW S, NEW s \in Seq(S), s # <<>>
    PROVE  /\ SubSeq(s, 1, Len(s) - 1) \in Seq(S)
           /\ Len(SubSeq(s, 1, Len(s) - 1)) = Len(s) - 1
<1>1. Len(s) \in Nat \ {0}
  OBVIOUS
<1>2. 1 \in 1 .. Len(s) + 1 /\ Len(s) - 1 \in 1 - 1 .. Len(s)
  BY <1>1
<1>3. (Len(s) - 1) - 1 + 1 = Len(s) - 1
  BY <1>1
<1> QED
  BY <1>2, <1>3, SubSeqProperties

LEMMA KeysPrint ==
    ASSUME NEW l, NEW b, l # Backspace
    PROVE  KeyOf(l, b) # Backspace
<1>1. (\A i \in 1 .. 26 : Upper[i] # Backspace) /\ ":" # Backspace
  BY DEF Upper, Backspace
<1>2. DOMAIN Lower = 1 .. 26
  BY DEF Lower
<1>3. Capital(l) # Backspace
  <2>1. CASE \E i \in DOMAIN Lower : Lower[i] = l
    <3>1. PICK i \in DOMAIN Lower : i = CHOOSE j \in DOMAIN Lower : Lower[j] = l
      BY <2>1
    <3>2. Capital(l) = Upper[i]
      BY <2>1, <3>1 DEF Capital
    <3> QED
      BY <1>1, <1>2, <3>1, <3>2
  <2>2. CASE ~ \E i \in DOMAIN Lower : Lower[i] = l
    BY <1>1, <2>2 DEF Capital
  <2> QED
    BY <2>1, <2>2
<1> QED
  BY <1>3 DEF KeyOf

(* main prints no backspace *)
LEMMA MessagesPrint ==
    ASSUME Texts, message # <<>>
    PROVE  /\ Head(message) # Backspace
           /\ Tail(message) \in Seq(Printed)
<1>1. message \in Seq(Printed)
  BY DEF Texts
<1>2. Head(message) \in Printed /\ Tail(message) \in Seq(Printed)
  BY <1>1, TailFacts
<1> QED
  BY <1>2 DEF Printed

(* what a handler that prints does to the line *)
EditedLine(c) ==
    /\ line' \in Seq(Keys)
    /\ c = Backspace => line # <<>> /\ Len(line') = Len(line) - 1
    /\ c # Backspace => Len(line') = Len(line) + 1

(* A handler that changes the line prints the change; what is left of the  *)
(* queue and the line are not longer than what was sent.                   *)
LEMMA LineAndScreen ==
    ASSUME KeyTypes, Texts, KeyboardInterrupt
    PROVE  /\ Texts'
           /\ \/ PrintsNothing /\ line' = line
              \/ \E c : HandlerPrints(c) /\ EditedLine(c)
<1> DEFINE c == Head(queue)
           l == print_letter(c)
<1>1. /\ queue \in Seq(0 .. 255) /\ queue # <<>>
      /\ queue' = Tail(queue)
  BY DEF KeyboardInterrupt, Interrupt, KeyTypes
<1>2. c \in 0 .. 255 /\ Len(queue') = Len(queue) - 1 /\ Len(queue) \in Nat
  BY <1>1, TailFacts
<1>3. /\ message \in Seq(Printed) /\ messages \in Seq(Seq(Printed))
      /\ line \in Seq(Keys) /\ Len(line) \in Nat
      /\ sent \in 0 .. MaxCodes /\ Len(line) + Len(queue) <= sent
  BY DEF Texts
<1>4. /\ message' = message /\ messages' = messages /\ sent' = sent
  BY DEF KeyboardInterrupt, Interrupt, mainVars
<1>5. MaxCodes \in Nat
  BY Screenful
<1>6. ASSUME line' \in Seq(Keys), Len(line') <= Len(line) + 1
      PROVE  Texts'
  <2>1. Len(line') \in Nat
    BY <1>6
  <2>2. Len(line') + Len(queue') <= sent'
    BY <1>2, <1>3, <1>4, <1>5, <1>6, <2>1
  <2> QED
    BY <1>3, <1>4, <1>6, <2>2 DEF Texts
<1>7. Shift(l) \/ Dead(l) \/ Erase(l) \/ Enter(l) \/ Type(l)
  BY DEF KeyboardInterrupt
<1>8. KeyOf(l, high) \in Keys
  <2>1. c \in 0 .. 255 /\ high \in BOOLEAN
    BY <1>2 DEF KeyTypes
  <2> QED
    BY <2>1, KeysTyped
<1> HIDE DEF c, l
<1>9. CASE PrintsNothing /\ line' = line
  BY <1>3, <1>6, <1>9
<1>10. CASE Shift(l) \/ Dead(l) \/ Enter(l)
  BY <1>9, <1>10 DEF Shift, Dead, Enter, lineVars
<1>11. CASE Erase(l)
  <2>1. CASE line = <<>>
    BY <1>9, <1>11, <2>1 DEF Erase
  <2>2. CASE line # <<>>
    <3>1. line' = SubSeq(line, 1, Len(line) - 1) /\ HandlerPrints(l) /\ l = Backspace
      BY <1>11, <2>2 DEF Erase
    <3>2. line' \in Seq(Keys) /\ Len(line') = Len(line) - 1
      BY <1>3, <2>2, <3>1, FrontFacts
    <3>3. EditedLine(l)
      <4>1. l = Backspace
        BY <3>1
      <4> QED
        BY <2>2, <3>2, <4>1, Zenon DEF EditedLine
    <3> QED
      BY <1>3, <1>6, <3>1, <3>2, <3>3
  <2> QED
    BY <2>1, <2>2
<1>12. CASE Type(l)
  <2>1. /\ line' = Append(line, KeyOf(l, high)) /\ HandlerPrints(KeyOf(l, high))
        /\ l # Backspace
    BY <1>12 DEF Type
  <2>2. line' \in Seq(Keys) /\ Len(line') = Len(line) + 1
    BY <1>3, <1>8, <2>1
  <2>3. KeyOf(l, high) # Backspace
    BY <2>1, KeysPrint
  <2>4. EditedLine(KeyOf(l, high))
    BY <2>2, <2>3 DEF EditedLine
  <2> QED
    BY <1>3, <1>6, <2>1, <2>2, <2>4
<1> QED
  BY <1>7, <1>10, <1>11, <1>12

(* The line stays in front of the cursor: the screen scrolls by one row,   *)
(* and the line is shorter than what is left.                              *)
LEMMA LineFits ==
    ASSUME NEW p, PaperOK(p), NEW c, c = Backspace => Place(p) > 0,
           NEW old \in Nat, NEW new \in Nat, old <= Place(p), new <= MaxCodes,
           IF c = Backspace THEN new <= old - 1 ELSE new <= old + 1
    PROVE  new <= Place(Strike(p, c))
<1> DEFINE q == Strike(p, c)
           x == Moved(Place(p), c)
<1>1. /\ x \in 0 .. Cells
      /\ c = Backspace => x = Place(p) - 1
      /\ c # Backspace => x > Place(p)
      /\ Place(q) = IF x = Cells THEN Cells - Cols ELSE x
  BY StruckPlace
<1>2. Place(p) \in 0 .. Cells - 1
  BY DEF PaperOK
<1> HIDE DEF q, x
<1>3. CASE x = Cells
  BY <1>1, <1>3, Screenful DEF q
<1>4. CASE x # Cells
  <2>1. x >= new
    BY <1>1, <1>2, Screenful
  <2> QED
    BY <1>1, <1>4, <2>1 DEF q
<1> QED
  BY <1>3, <1>4

(* A handler that does not print in the middle of a message leaves the     *)
(* paper, the screen and the cursor together.                              *)
LEMMA HandlerPaints ==
    ASSUME KeyTypes', Texts, Texts', Painted, ~Printing, pc # "clear",
           pc \in Steps, UNCHANGED mainVars, NEW c, HandlerPrints(c), EditedLine(c)
    PROVE  Painted' /\ (outside' => outside)
<1> DEFINE P == Place(paper)
           q == Strike(paper, c)
           x == Moved(P, c)
<1>1. PaperOK(paper) /\ Len(line) <= P /\ P \in 0 .. Cells - 1
  BY DEF Painted, PaperOK
<1>2. /\ screen = Shown(paper) /\ Position(P)
      /\ message # <<>> => pc \in {"select", "loop"}
      /\ Fixed
  BY DEF Painted, Printing, Fixed, Steps
<1>3. Cursor = P
  BY <1>1, <1>2, Digits DEF Cursor, Position
<1>4. Len(line) \in Nat /\ Len(line') \in Nat /\ Len(line') <= MaxCodes
  <2>1. /\ Len(line) \in Nat /\ Len(line') \in Nat /\ sent' \in 0 .. MaxCodes
        /\ Len(line') + Len(queue') <= sent'
    BY DEF Texts
  <2>2. Len(queue') \in Nat
    BY DEF KeyTypes
  <2> QED
    BY <2>1, <2>2, Screenful
<1>5. c = Backspace => P > 0
  <2>1. c = Backspace => Len(line) # 0
    BY DEF EditedLine, Texts
  <2> QED
    BY <1>1, <1>4, <2>1
<1> HIDE DEF P
<1>6. ~Missed(Cursor, c) /\ ~OffScreen(Cursor)
  BY <1>1, <1>3, <1>5, Screenful DEF Missed, OffScreen
<1>7. /\ outside' => outside
      /\ paper' = q
      /\ IF x >= Cells
         THEN /\ screen' = Scrolled(Drawn(screen, P, c))
              /\ cursor' = Split(ScrolledPos(x))
         ELSE screen' = Drawn(screen, P, c) /\ cursor' = Split(x)
  <2>1. outside' = (outside \/ Missed(Cursor, c))
    BY DEF HandlerPrints
  <2>2. outside' => outside
    BY <1>6, <2>1, Zenon
  <2>3. paper' = q
    BY <1>6 DEF HandlerPrints
  <2> QED
    BY <1>3, <1>6, <2>2, <2>3 DEF HandlerPrints
<1>8. /\ x \in 0 .. Cells
      /\ Place(q) = IF x = Cells THEN Cells - Cols ELSE x
  BY <1>1, <1>5, StruckPlace DEF P
<1>9. /\ IF x >= Cells
         THEN Scrolled(Drawn(Shown(paper), P, c)) = Shown(q)
         ELSE Drawn(Shown(paper), P, c) = Shown(q)
  BY <1>1, <1>5, DrawnShows DEF P
<1>10. PaperOK(q)
  BY <1>1, <1>5, StruckOK DEF P
<1>11. Len(line') <= Place(q)
  <2>1. IF c = Backspace THEN Len(line') <= Len(line) - 1 ELSE Len(line') <= Len(line) + 1
    BY <1>4 DEF EditedLine
  <2> QED
    BY <1>1, <1>4, <1>5, <2>1, LineFits DEF P
<1> HIDE DEF q, x
<1>12. screen' = Shown(q) /\ cursor' = Split(Place(q))
  <2>1. CASE x >= Cells
    <3>1. x = Cells /\ ScrolledPos(x) = Cells - Cols
      BY <1>8, <2>1, Screenful DEF ScrolledPos
    <3> QED
      BY <1>2, <1>7, <1>8, <1>9, <2>1, <3>1
  <2>2. CASE ~(x >= Cells)
    <3>1. x # Cells
      BY <1>8, <2>2, Screenful
    <3> QED
      BY <1>2, <1>7, <1>8, <1>9, <2>2, <3>1
  <2> QED
    BY <2>1, <2>2
<1>13. DOMAIN cursor' = {14, 15}
  BY <1>12 DEF Split
<1>14. (message # <<>> => InPrint)'
  BY <1>2 DEF InPrint, mainVars
<1> QED
  BY <1>2, <1>7, <1>10, <1>11, <1>12, <1>13, <1>14 DEF Painted, Fixed, Position, mainVars

-----------------------------------------------------------------------------
(* main *)

LEMMA MainTexts ==
    ASSUME Texts, pc \in Steps \cup {"clear"}, MainStep
    PROVE  Texts' /\ pc' \in Steps
<1>1. UNCHANGED <<queue, sent, line>>
  BY DEF MainStep, ClearScreen, GetCursorOffset, CharOffScreen, Char, ScrollRow,
         ClearLastRow, SetCursorOffset, NextMessage, Select, ReadHigh, ReadLow,
         WriteHigh, WriteLow, Main, keyVars, lineVars
<1>2. pc' \in Steps
  BY DEF MainStep, ClearScreen, GetCursorOffset, CharOffScreen, Char, ScrollRow,
         ClearLastRow, SetCursorOffset, NextMessage, Select, ReadHigh, ReadLow,
         WriteHigh, WriteLow, Main, Steps
<1>3. message' \in Seq(Printed) /\ messages' \in Seq(Seq(Printed))
  <2>1. message \in Seq(Printed) /\ messages \in Seq(Seq(Printed))
    BY DEF Texts
  <2>2. CASE UNCHANGED <<message, messages>>
    BY <2>1, <2>2
  <2>3. CASE message # <<>> /\ message' = Tail(message) /\ messages' = messages
    BY <2>1, <2>3, MessagesPrint
  <2>4. CASE NextMessage /\ messages # <<>>
    <3>1. message' = Head(messages) /\ messages' = Tail(messages)
      BY <2>4 DEF NextMessage
    <3> QED
      BY <2>1, <2>4, <3>1, TailFacts
  <2>5. CASE NextMessage /\ messages = <<>>
    BY <2>1, <2>5 DEF NextMessage
  <2>6. CASE WriteLow /\ message = <<>>
    <3>1. message' = Tail(message) /\ messages' = messages
      BY <2>6 DEF WriteLow
    <3> QED
      BY <2>1, <2>6, <3>1
  <2> QED
    BY <2>2, <2>3, <2>4, <2>5, <2>6
       DEF MainStep, ClearScreen, GetCursorOffset, CharOffScreen, Char, ScrollRow,
           ClearLastRow, SetCursorOffset, Select, ReadHigh, ReadLow, WriteHigh,
           WriteLow
<1> QED
  BY <1>1, <1>2, <1>3 DEF Texts

LEMMA ClearPaints ==
    ASSUME Cleared, ClearScreen
    PROVE  Painted' /\ outside' = outside
<1>1. /\ pc' = "select" /\ outside' = outside
      /\ screen' = [i \in 0 .. Cells - 1 |-> Blank]
      /\ UNCHANGED <<line, cursor, paper, message>>
  BY DEF Cleared, ClearScreen, Main, lineVars
<1>2. /\ Cursor \in 0 .. Cells - 1 /\ cursor = Split(Cursor) /\ line = <<>>
      /\ paper.at = Cursor /\ paper.ink = {} /\ paper.top = 0
  BY DEF Cleared, Position
<1>3. Place(paper) = Cursor
  BY <1>2, Screenful DEF Place
<1>4. PaperOK(paper)
  BY <1>2, <1>3, Screenful DEF PaperOK
<1>5. screen' = Shown(paper)
  BY <1>1, <1>2 DEF Shown
<1>6. DOMAIN cursor = {14, 15}
  BY <1>2, Digits
<1>7. Len(line) <= Place(paper)
  BY <1>2, <1>3
<1>8. (message # <<>> => InPrint)'
  BY <1>1 DEF InPrint
<1>9. Fixed'
  BY <1>1 DEF Fixed
<1> QED
  BY <1>1, <1>2, <1>3, <1>4, <1>5, <1>6, <1>7, <1>8, <1>9 DEF Painted, Position

(* Reading the cursor registers changes nothing on the screen.             *)
LEMMA ReadPaints ==
    ASSUME Painted, GetCursorOffset
    PROVE  Painted' /\ outside' = outside
<1>1. /\ PaperOK(paper) /\ Len(line) <= Place(paper) /\ DOMAIN cursor = {14, 15}
      /\ Fixed => screen = Shown(paper) /\ Position(Place(paper))
      /\ message # <<>> => InPrint
  BY DEF Painted
<1>2. UNCHANGED <<message, screen, cursor, paper, outside, line>>
  BY DEF GetCursorOffset, Select, ReadHigh, ReadLow, Main, videoVars, lineVars
<1>3. Fixed /\ Fixed'
  BY DEF GetCursorOffset, Select, ReadHigh, ReadLow, Main, Fixed
<1>4. (message # <<>> => InPrint)'
  <2> SUFFICES ASSUME message # <<>>
               PROVE  InPrint'
    BY <1>2
  <2>1. CASE Select("select", "high", 14)
    BY <2>1 DEF InPrint, Select, Main
  <2>2. CASE ReadHigh
    BY <1>1, <2>2 DEF InPrint, ReadHigh, Main, videoVars
  <2>3. CASE Select("selectLow", "low", 15)
    BY <1>1, <2>3 DEF InPrint, Select, Main
  <2>4. CASE ReadLow
    <3>1. /\ pc' = "char" /\ pos' = pos + cursor[15] /\ pos = cursor[14] * Base
      BY <1>1, <2>4 DEF InPrint, ReadLow, Main
    <3>2. pos' = Place(paper)
      BY <1>1, <1>3, <3>1, Digits DEF Position, PaperOK
    <3> QED
      BY <1>2, <3>1, <3>2 DEF InPrint
  <2> QED
    BY <2>1, <2>2, <2>3, <2>4 DEF GetCursorOffset
<1> QED
  BY <1>1, <1>2, <1>3, <1>4 DEF Painted, Position

LEMMA CharPaints ==
    ASSUME Texts, Texts', Painted, Char
    PROVE  Painted' /\ (outside' => outside)
<1> DEFINE c == Head(message)
           P == Place(paper)
           q == Strike(paper, c)
           x == Moved(P, c)
<1>1. /\ pc = "char" /\ message # <<>> /\ UNCHANGED <<message, line, cursor>>
      /\ pc' = IF Moved(pos, c) >= Cells THEN "scroll" ELSE "point"
      /\ screen' = Drawn(screen, pos, c)
      /\ outside' = (outside \/ Missed(pos, c))
      /\ pos' = Moved(pos, c)
      /\ row' = 1
      /\ paper' = q
  BY DEF Char, Main, lineVars
<1>2. /\ PaperOK(paper) /\ Len(line) <= P /\ DOMAIN cursor = {14, 15}
      /\ screen = Shown(paper) /\ pos = P
  BY <1>1 DEF Painted, Fixed, InPrint
<1>3. c # Backspace
  BY <1>1, MessagesPrint
<1>4. /\ x \in 0 .. Cells
      /\ Place(q) = IF x = Cells THEN Cells - Cols ELSE x
  BY <1>2, <1>3, StruckPlace
<1>5. IF x >= Cells THEN screen' = Partly(q, 1) ELSE screen' = Shown(q)
  BY <1>1, <1>2, <1>3, DrawnShows
<1>6. PaperOK(q)
  BY <1>2, <1>3, StruckOK
<1>7. Len(line) <= Place(q)
  <2>1. Len(line) \in Nat /\ Len(line) <= MaxCodes
    <3>1. /\ Len(line) \in Nat /\ sent' \in 0 .. MaxCodes
          /\ Len(line) + Len(queue') <= sent' /\ Len(queue') \in Nat
      BY <1>1 DEF Texts
    <3> QED
      BY <3>1, Screenful
  <2>2. Len(line) <= Len(line) + 1
    BY <2>1
  <2> QED
    BY <1>2, <1>3, <2>1, <2>2, LineFits
<1>8. outside' => outside
  BY <1>1, <1>3, Zenon DEF Missed
<1> HIDE DEF c, P, q, x
<1>9. pos' = x
  BY <1>1, <1>2 DEF x
<1>10. CASE x >= Cells
  <2>1. x = Cells /\ Place(q) = Cells - Cols
    BY <1>4, <1>10, Screenful
  <2>2. pc' = "scroll"
    BY <1>1, <1>2, <1>10 DEF x
  <2>3. row' \in 1 .. Rows
    BY <1>1, Screenful
  <2>4. InPrint'
    BY <1>1, <1>5, <1>9, <1>10, <2>1, <2>2, <2>3 DEF InPrint
  <2>5. ~Fixed'
    BY <2>2 DEF Fixed
  <2> QED
    BY <1>1, <1>2, <1>6, <1>7, <1>8, <2>4, <2>5 DEF Painted
<1>11. CASE ~(x >= Cells)
  <2>1. x # Cells /\ Place(q) = x
    BY <1>4, <1>11, Screenful
  <2>2. pc' = "point"
    BY <1>1, <1>2, <1>11 DEF x
  <2>4. InPrint'
    BY <1>1, <1>5, <1>9, <1>11, <2>1, <2>2 DEF InPrint
  <2>5. ~Fixed'
    BY <2>2 DEF Fixed
  <2> QED
    BY <1>1, <1>2, <1>6, <1>7, <1>8, <2>4, <2>5 DEF Painted
<1> QED
  BY <1>10, <1>11

LEMMA ScrollPaints ==
    ASSUME Painted, ScrollRow \/ ClearLastRow
    PROVE  Painted' /\ outside' = outside
<1>1. /\ pc = "scroll" /\ UNCHANGED <<message, line, cursor, paper, outside>>
  BY DEF ScrollRow, ClearLastRow, Main, lineVars
<1>2. /\ PaperOK(paper) /\ Len(line) <= Place(paper) /\ DOMAIN cursor = {14, 15}
      /\ message # <<>> /\ row \in 1 .. Rows
      /\ pos = Cells /\ Place(paper) = Cells - Cols
      /\ screen = Partly(paper, row)
  BY <1>1 DEF Painted, Fixed, InPrint
<1>3. CASE ScrollRow
  <2>1. /\ row < Rows /\ pc' = "scroll" /\ screen' = RowUp(screen, row)
        /\ row' = row + 1 /\ pos' = pos
    BY <1>3 DEF ScrollRow, Main
  <2>2. row \in 1 .. Rows - 1 /\ row' \in 1 .. Rows
    BY <1>2, <2>1, Screenful
  <2>3. screen' = Partly(paper, row')
    BY <1>2, <2>1, <2>2, RowMovedUp DEF PaperOK
  <2>4. InPrint'
    BY <1>1, <1>2, <2>1, <2>2, <2>3 DEF InPrint
  <2>5. ~Fixed'
    BY <2>1 DEF Fixed
  <2> QED
    BY <1>1, <1>2, <2>4, <2>5 DEF Painted
<1>4. CASE ClearLastRow
  <2>1. /\ row >= Rows /\ pc' = "point" /\ screen' = LastCleared(screen)
        /\ pos' = ScrolledPos(pos)
    BY <1>4 DEF ClearLastRow, Main
  <2>2. row = Rows
    BY <1>2, <2>1, Screenful
  <2>3. screen' = Shown(paper)
    BY <1>2, <2>1, <2>2, LastRowCleared
  <2>4. pos' = Place(paper)
    BY <1>2, <2>1 DEF ScrolledPos
  <2>5. InPrint'
    BY <1>1, <2>1, <2>3, <2>4 DEF InPrint
  <2>6. ~Fixed'
    BY <2>1 DEF Fixed
  <2> QED
    BY <1>1, <1>2, <2>5, <2>6 DEF Painted
<1> QED
  BY <1>3, <1>4

(* The two registers get the two digits of the new position.               *)
LEMMA WritePaints ==
    ASSUME Painted, SetCursorOffset
    PROVE  Painted' /\ outside' = outside
<1>1. /\ pc \in {"point", "storeHigh", "pointLow", "store"}
      /\ UNCHANGED <<screen, line, paper, outside, pos>>
  BY DEF SetCursorOffset, Select, WriteHigh, WriteLow, Main, lineVars
<1>2. /\ PaperOK(paper) /\ Len(line) <= Place(paper) /\ DOMAIN cursor = {14, 15}
      /\ message # <<>> /\ screen = Shown(paper) /\ pos = Place(paper)
      /\ InPrint
  BY <1>1 DEF Painted, Fixed, InPrint
<1>3. CASE Select("point", "storeHigh", 14)
  <2>1. pc' = "storeHigh" /\ index' = 14 /\ UNCHANGED <<message, cursor>>
    BY <1>3 DEF Select, Main
  <2>2. InPrint' /\ ~Fixed'
    BY <1>1, <1>2, <2>1 DEF InPrint, Fixed
  <2> QED
    BY <1>1, <1>2, <2>1, <2>2 DEF Painted
<1>4. CASE WriteHigh
  <2>1. /\ pc = "storeHigh" /\ pc' = "pointLow" /\ UNCHANGED <<message, index>>
        /\ cursor' = [cursor EXCEPT ![index] = Split(pos)[14]]
    BY <1>4 DEF WriteHigh, Main
  <2>2. index = 14
    BY <1>2, <2>1 DEF InPrint
  <2>3. DOMAIN cursor' = {14, 15} /\ cursor'[14] = Split(pos)[14]
    BY <1>2, <2>1, <2>2
  <2>4. InPrint' /\ ~Fixed'
    BY <1>1, <1>2, <2>1, <2>3 DEF InPrint, Fixed
  <2> QED
    BY <1>1, <1>2, <2>1, <2>3, <2>4 DEF Painted
<1>5. CASE Select("pointLow", "store", 15)
  <2>1. pc = "pointLow" /\ pc' = "store" /\ index' = 15 /\ UNCHANGED <<message, cursor>>
    BY <1>5 DEF Select, Main
  <2>2. InPrint' /\ ~Fixed'
    BY <1>1, <1>2, <2>1 DEF InPrint, Fixed
  <2> QED
    BY <1>1, <1>2, <2>1, <2>2 DEF Painted
<1>6. CASE WriteLow
  <2>1. /\ pc = "store" /\ pc' = "char"
        /\ cursor' = [cursor EXCEPT ![index] = Split(pos)[15]]
    BY <1>6 DEF WriteLow, Main
  <2>2. index = 15 /\ cursor[14] = Split(pos)[14]
    BY <1>2, <2>1 DEF InPrint
  <2>3. cursor' = [r \in {14, 15} |-> IF r = 15 THEN Split(pos)[15] ELSE cursor[r]]
    BY <1>2, <2>1, <2>2
  <2>4. DOMAIN cursor' = {14, 15} /\ cursor' = Split(pos)
    BY <2>2, <2>3 DEF Split
  <2>5. InPrint' /\ Fixed'
    BY <1>1, <1>2, <2>1 DEF InPrint, Fixed
  <2> QED
    BY <1>1, <1>2, <2>4, <2>5 DEF Painted, Position
<1> QED
  BY <1>3, <1>4, <1>5, <1>6 DEF SetCursorOffset

LEMMA MainPaints ==
    ASSUME Texts, Texts', pc \in Steps \cup {"clear"}, MainStep,
           IF pc = "clear" THEN Cleared ELSE Painted
    PROVE  Painted' /\ (outside' => outside)
<1>1. CASE ClearScreen
  BY <1>1, ClearPaints DEF ClearScreen, Main
<1> SUFFICES ASSUME ~ClearScreen
             PROVE  Painted' /\ (outside' => outside)
  BY <1>1
<1>2. pc # "clear"
  BY DEF MainStep, GetCursorOffset, CharOffScreen, Char, ScrollRow, ClearLastRow,
         SetCursorOffset, NextMessage, Select, ReadHigh, ReadLow, WriteHigh, WriteLow,
         Main
<1>3. Painted
  BY <1>2
<1>4. CASE CharOffScreen
  <2>1. pc = "char" /\ message # <<>> /\ OffScreen(pos)
    BY <1>4 DEF CharOffScreen, Main
  <2>2. pos = Place(paper) /\ Place(paper) \in 0 .. Cells - 1
    BY <1>3, <2>1 DEF Painted, InPrint, PaperOK
  <2> QED
    BY <2>1, <2>2, Screenful DEF OffScreen
<1>5. CASE NextMessage
  <2>1. /\ pc = "char" /\ pc' \in {"loop", "select"}
        /\ UNCHANGED <<screen, cursor, paper, line, outside>>
    BY <1>5 DEF NextMessage, videoVars, lineVars
  <2>2. /\ PaperOK(paper) /\ Len(line) <= Place(paper) /\ DOMAIN cursor = {14, 15}
        /\ screen = Shown(paper) /\ Position(Place(paper))
    BY <1>3, <2>1 DEF Painted, Fixed
  <2>3. Fixed' /\ InPrint'
    BY <2>1 DEF Fixed, InPrint
  <2> QED
    BY <2>1, <2>2, <2>3 DEF Painted, Position
<1> QED
  BY <1>3, <1>4, <1>5, ReadPaints, CharPaints, ScrollPaints, WritePaints DEF MainStep

LEMMA ScreenStep ==
    ASSUME KeyTypes, KeyTypes', ScreenInv, [Next]_vars
    PROVE  ScreenInv'
<1>1. /\ Texts /\ pc \in Steps \cup {"clear"}
      /\ outside => raced
      /\ raced \in BOOLEAN
      /\ ~raced => IF pc = "clear" THEN Cleared ELSE Painted
  BY DEF ScreenInv
(* a step that leaves screen and line alone *)
<1>a. ASSUME UNCHANGED <<mainVars, videoVars, enabled, line, paper, raced, outside>>, Texts'
      PROVE  ScreenInv'
  <2>1. (IF pc = "clear" THEN Cleared ELSE Painted)'
            <=> IF pc = "clear" THEN Cleared ELSE Painted
    BY <1>a DEF Cleared, Painted, Fixed, InPrint, Position, Cursor, mainVars, videoVars
  <2>2. pc' = pc
    BY <1>a DEF mainVars
  <2> QED
    BY <1>1, <1>a, <2>1, <2>2 DEF ScreenInv
<1>2. ASSUME UNCHANGED <<mainVars, videoVars, enabled, line, paper, raced, outside>>,
             UNCHANGED <<queue, sent>>
      PROVE  ScreenInv'
  BY <1>1, <1>2, <1>a DEF Texts, mainVars
<1>3. CASE UNCHANGED vars
  BY <1>2, <1>3 DEF vars, irqVars, keyVars, lineVars
<1>4. CASE MainStep
  <2>1. Texts' /\ pc' \in Steps
    BY <1>1, <1>4, MainTexts
  <2>2. raced' = raced
    BY <1>4 DEF MainStep, ClearScreen, GetCursorOffset, CharOffScreen, Char, ScrollRow,
        ClearLastRow, SetCursorOffset, NextMessage, Select, ReadHigh, ReadLow,
        WriteHigh, WriteLow, Main
  <2>3. ~raced => Painted' /\ (outside' => outside)
    BY <1>1, <1>4, <2>1, MainPaints
  <2>4. pc' # "clear"
    BY <2>1 DEF Steps
  <2> QED
    BY <1>1, <2>1, <2>2, <2>3, <2>4 DEF ScreenInv
<1>5. CASE KeyboardInterrupt
  <2>1. Texts'
    BY <1>1, <1>5, LineAndScreen
  <2>2. UNCHANGED mainVars /\ enabled /\ enabled' = enabled
    BY <1>5 DEF KeyboardInterrupt, Interrupt
  <2>3. CASE PrintsNothing /\ line' = line
    BY <1>a, <2>1, <2>2, <2>3 DEF PrintsNothing
  <2>4. ASSUME NEW c, HandlerPrints(c), EditedLine(c)
        PROVE  ScreenInv'
    <3>1. raced' = (raced \/ Printing)
      BY <2>4 DEF HandlerPrints
    <3>2. pc' = pc
      BY <2>2 DEF mainVars
    <3>3. Printing \in BOOLEAN
      BY DEF Printing
    <3>4. ASSUME ~raced'
          PROVE  pc # "clear" /\ Painted' /\ ~outside'
      <4>1. ~raced /\ ~Printing
        BY <3>1, <3>4
      <4>2. pc # "clear"
        BY <1>1, <2>2, <4>1 DEF Cleared
      <4>3. pc \in Steps
        BY <1>1, <4>2
      <4>4. Painted' /\ (outside' => outside)
        BY <1>1, <2>1, <2>2, <2>4, <4>1, <4>2, <4>3, HandlerPaints
      <4> QED
        BY <1>1, <4>1, <4>2, <4>4
    <3> QED
      BY <1>1, <2>1, <3>1, <3>2, <3>3, <3>4 DEF ScreenInv
  <2> QED
    BY <1>1, <1>5, <2>3, <2>4, LineAndScreen
<1>6. ASSUME NEW irq \in Unhandled, NoHandler(irq)
      PROVE  ScreenInv'
  BY <1>2, <1>6 DEF NoHandler, Interrupt, keyVars, lineVars
<1>7. ASSUME NEW irq \in Unhandled, Raise(irq)
      PROVE  ScreenInv'
  BY <1>2, <1>7 DEF Raise, keyVars, lineVars
<1>8. ASSUME NEW c, Send(c)
      PROVE  ScreenInv'
  <2>1. UNCHANGED <<mainVars, videoVars, enabled, line, paper, raced, outside>>
    BY <1>8 DEF Send, lineVars
  <2>2. Texts'
    <3>1. /\ sent < MaxCodes /\ sent' = sent + 1 /\ Len(queue') = Len(queue) + 1
          /\ UNCHANGED <<message, messages, line>>
      BY <1>8 DEF Send, KeyTypes, mainVars, lineVars
    <3>2. Len(line) \in Nat /\ Len(queue) \in Nat
      BY <1>1 DEF Texts, KeyTypes
    <3> QED
      BY <1>1, <3>1, <3>2, Screenful DEF Texts
  <2> QED
    BY <1>a, <2>1, <2>2
<1> QED
  BY <1>3, <1>4, <1>5, <1>6, <1>7, <1>8 DEF Next, Interrupts, Press, Release

LEMMA ScreenInit == Init => ScreenInv
<1> SUFFICES ASSUME Init PROVE ScreenInv
  OBVIOUS
<1>1. /\ pc = "clear" /\ message = Greeting /\ messages = Prompts
      /\ DOMAIN screen = 0 .. Cells - 1 /\ enabled = FALSE
      /\ queue = <<>> /\ sent = 0 /\ line = <<>>
      /\ paper = [at |-> Cursor, ink |-> {}, top |-> 0]
      /\ raced = FALSE /\ outside = FALSE
  BY DEF Init
<1>2. PICK p \in Starts : cursor = Split(p)
  BY DEF Init
<1>3. p \in 0 .. Cells - 1
  BY ConsoleAssumption
<1>4. Cursor = p
  BY <1>2, <1>3, Digits DEF Cursor
<1>5. Texts
  <2>1. Greeting \in Seq(Printed) /\ Prompts \in Seq(Seq(Printed))
    BY ConsoleAssumption
  <2> QED
    BY <1>1, <2>1, Screenful DEF Texts
<1>6. Cleared
  BY <1>1, <1>2, <1>3, <1>4 DEF Cleared, Position
<1> QED
  BY <1>1, <1>5, <1>6 DEF ScreenInv

LEMMA ScreenInvariant == Spec => []ScreenInv
<1>1. Init => LineInv /\ ScreenInv
  BY LineInit, ScreenInit
<1>2. LineInv /\ ScreenInv /\ [Next]_vars => (LineInv /\ ScreenInv)'
  <2> SUFFICES ASSUME LineInv, ScreenInv, [Next]_vars
               PROVE  LineInv' /\ ScreenInv'
    OBVIOUS
  <2>1. LineInv'
    BY LineStep
  <2>2. KeyTypes /\ KeyTypes'
    BY <2>1 DEF LineInv
  <2> QED
    BY <2>1, <2>2, ScreenStep
<1> QED
  BY <1>1, <1>2, PTL DEF Spec

LEMMA BetweenMessages ==
    ASSUME ScreenInv, ~raced, ~Printing, pc # "clear"
    PROVE  /\ screen = Shown(paper)
           /\ Cursor = Place(paper)
           /\ Len(line) <= Cursor
<1>1. Painted
  BY DEF ScreenInv
<1>2. Fixed \/ message = <<>>
  BY DEF Printing, Fixed
<1>3. screen = Shown(paper) /\ Position(Place(paper)) /\ Len(line) <= Place(paper)
  BY <1>1, <1>2 DEF Painted
<1>4. Place(paper) \in 0 .. Cells - 1
  BY <1>1 DEF Painted, PaperOK
<1>5. Cursor = Place(paper)
  BY <1>3, <1>4, Digits DEF Position, Cursor
<1> QED
  BY <1>3, <1>5

(* As long as no handler printed in the middle of a message of main, the   *)
(* screen shows the end of everything printed and the cursor is behind it, *)
(* however often it scrolled, wrapped or erased (screen.c:121, 149).       *)
THEOREM ScreenTheorem == Spec => []ScreenShowsPaper
<1>1. ScreenInv => ScreenShowsPaper
  BY BetweenMessages DEF ScreenShowsPaper, Place
<1> QED
  BY <1>1, ScreenInvariant, PTL

(* Without such a race no backspace writes in front of video memory: the   *)
(* line buffer is never longer than the text in front of the cursor        *)
(* (screen.c:138, kernel.c:40).                                            *)
THEOREM BackspaceTheorem == Spec => []BackspaceStaysOnScreen
<1>1. ScreenInv => BackspaceStaysOnScreen
  BY BetweenMessages DEF BackspaceStaysOnScreen, ScreenInv
<1> QED
  BY <1>1, ScreenInvariant, PTL
=============================================================================
