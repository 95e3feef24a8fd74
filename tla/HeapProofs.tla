----------------------------- MODULE HeapProofs -----------------------------
(***************************************************************************)
(* Theorems about the kernel heap, for every heap size, header size and    *)
(* set of request sizes.                                                   *)
(***************************************************************************)
EXTENDS Heap, WellFoundedInduction, TLAPS

(* Where the locals of k_malloc and k_free may be set. *)
Locals ==
    /\ pc = "idle" => to_free = NULL /\ previous = NULL /\ resizing = NULL
    /\ pc = "find" => to_free = NULL /\ previous = NULL
    /\ pc = "seek" => resizing = NULL

HeadFree == Head \in Free

LiveUnlinked == \A b \in live : next[b] = NULL

(* The shape of the heap between two steps. *)
Shape == HeadFree /\ Tiling /\ FreeListSorted /\ Coalesced /\ LiveUnlinked

(***************************************************************************)
(* The inductive invariant.  No part is inductive alone: Take needs the    *)
(* tiling to know its new header lies inside the block it cuts; Insert     *)
(* needs the bracket the walk found to keep the list sorted, the sorted    *)
(* list to know no free block lies between, and the tiling to know that    *)
(* "contiguous" is the only way two free blocks can touch.                 *)
(***************************************************************************)
IInv == TypeOK /\ Locals /\ Shape /\ PassedTooSmall /\ SeekBrackets

USE HeapAssumption DEF NULL, Head

LEMMA InitIInv == Init => IInv
  BY DEF Init, IInv, TypeOK, Locals, Shape, HeadFree, Tiling, FreeListSorted,
         Coalesced, LiveUnlinked, PassedTooSmall, SeekBrackets, Free, End, Addresses

(***************************************************************************)
(* Starting a call and walking the list change no header.                  *)
(***************************************************************************)
LEMMA ShapeKept ==
    ASSUME Shape, UNCHANGED heapVars
    PROVE  Shape'
  BY DEF heapVars, Shape, HeadFree, Tiling, FreeListSorted, Coalesced,
         LiveUnlinked, Free, End

LEMMA MallocCallIInv ==
    ASSUME IInv, NEW n \in Sizes, MallocCall(n)
    PROVE  IInv'
  <1>1. Shape'
    BY ShapeKept DEF IInv, MallocCall
  <1> QED
    BY <1>1 DEF MallocCall, IInv, heapVars, TypeOK, Locals, Shape, HeadFree,
       PassedTooSmall, SeekBrackets, Free, Addresses

LEMMA FreeCallIInv ==
    ASSUME IInv, NEW b \in live, FreeCall(b)
    PROVE  IInv'
  <1>1. Shape'
    BY ShapeKept DEF IInv, FreeCall
  <1> QED
    BY <1>1 DEF FreeCall, IInv, heapVars, TypeOK, Locals, Shape, HeadFree,
       PassedTooSmall, SeekBrackets, Free, Addresses

LEMMA ReallocCallIInv ==
    ASSUME IInv, NEW b \in live, NEW n \in Sizes, ReallocCall(b, n)
    PROVE  IInv'
  <1>1. Shape'
    BY ShapeKept DEF IInv, ReallocCall
  <1> QED
    BY <1>1 DEF ReallocCall, IInv, heapVars, TypeOK, Locals, Shape, HeadFree,
       PassedTooSmall, SeekBrackets, Free, Addresses

LEMMA FindNextIInv ==
    ASSUME IInv, FindNext
    PROVE  IInv'
  <1>1. Shape'
    BY ShapeKept DEF IInv, FindNext
  <1> QED
    BY <1>1 DEF FindNext, IInv, heapVars, TypeOK, Locals, Shape, FreeListSorted,
       PassedTooSmall, SeekBrackets, TooSmall, Free, Addresses

LEMMA FindFailIInv ==
    ASSUME IInv, FindFail
    PROVE  IInv'
  <1>1. Shape'
    BY ShapeKept DEF IInv, FindFail
  <1> QED
    BY <1>1 DEF FindFail, IInv, heapVars, TypeOK, Locals, PassedTooSmall,
       SeekBrackets, Free

LEMMA SeekNextIInv ==
    ASSUME IInv, SeekNext
    PROVE  IInv'
  <1>1. Shape'
    BY ShapeKept DEF IInv, SeekNext
  <1> QED
    BY <1>1 DEF SeekNext, IInv, heapVars, TypeOK, Locals, Shape, HeadFree,
       FreeListSorted, PassedTooSmall, SeekBrackets, Free, Addresses

(***************************************************************************)
(* A block lies inside the heap, header and payload.                       *)
(***************************************************************************)
LEMMA BlockBounds ==
    ASSUME TypeOK, Tiling, NEW b \in blocks
    PROVE  /\ b \in 0 .. HeapSize - Header
           /\ size[b] \in 0 .. HeapSize
           /\ End(b) \in Int
           /\ End(b) = b + Header + size[b]
           /\ End(b) <= HeapSize
  <1>1. b \in 0 .. HeapSize - Header /\ size[b] \in 0 .. HeapSize
    BY DEF TypeOK, Addresses
  <1>2. End(b) = b + Header + size[b] /\ End(b) \in Int
    BY <1>1 DEF End
  <1>3. End(b) \in blocks \/ End(b) = HeapSize
    BY DEF Tiling
  <1>4. blocks \subseteq 0 .. HeapSize - Header
    BY DEF TypeOK, Addresses
  <1> QED
    BY <1>1, <1>2, <1>3, <1>4

(***************************************************************************)
(* Take: the new block is the tail of node, which starts inside it and     *)
(* ends where node ended.                                                  *)
(***************************************************************************)
LEMMA TakeCutsInside ==
    ASSUME IInv, Take
    PROVE  \E n \in blocks, left \in Int, m \in Int :
               /\ n = node /\ left = size[n] - (wanted + Header) /\ m = n + left + Header
               /\ wanted \in 0 .. HeapSize
               /\ left \in 0 .. HeapSize
               /\ m \in 0 .. HeapSize - Header
               /\ n < m
               /\ m + Header + wanted = End(n)
               /\ m \notin blocks
  <1>1. TypeOK /\ Tiling /\ node \in blocks
    BY DEF IInv, Shape, Take, PassedTooSmall, Free
  <1>2. PICK n \in blocks, left \in Int, m \in Int :
            n = node /\ left = size[n] - (wanted + Header) /\ m = n + left + Header
    BY <1>1, BlockBounds DEF TypeOK
  <1>3. /\ n \in 0 .. HeapSize - Header
        /\ size[n] \in 0 .. HeapSize
        /\ End(n) = n + Header + size[n]
        /\ End(n) <= HeapSize
        /\ \A b \in blocks : b \in Int /\ End(b) \in Int /\ b < End(b)
    BY <1>1, BlockBounds
  <1>4. /\ wanted \in 0 .. HeapSize
        /\ left \in 0 .. HeapSize
        /\ m \in 0 .. HeapSize - Header
        /\ n < m
        /\ m + Header + wanted = End(n)
    <2>1. wanted \in Nat /\ size[n] >= wanted + Header
      BY <1>1, <1>2, <1>3 DEF Take, TooSmall, TypeOK
    <2> QED
      BY <2>1, <1>2, <1>3
  <1>5. m \notin blocks
    BY <1>1, <1>3, <1>4 DEF Tiling
  <1> QED
    BY <1>2, <1>4, <1>5

LEMMA TakeIInv ==
    ASSUME IInv, Take
    PROVE  IInv'
  <1>1. TypeOK /\ Tiling /\ FreeListSorted /\ Coalesced /\ node \in Free /\ node \in blocks
    BY DEF IInv, Shape, Take, PassedTooSmall, Free
  <1>2. PICK n \in blocks, left \in Int, m \in Int :
            /\ n = node /\ left = size[n] - (wanted + Header) /\ m = n + left + Header
            /\ wanted \in 0 .. HeapSize
            /\ left \in 0 .. HeapSize
            /\ m \in 0 .. HeapSize - Header
            /\ n < m
            /\ m + Header + wanted = End(n)
            /\ m \notin blocks
    BY TakeCutsInside
  <1>3. \A b \in blocks : b \in 0 .. HeapSize - Header /\ End(b) \in Int /\ b < End(b)
    BY <1>1, BlockBounds
  <1>4. wanted \in 0 .. HeapSize /\ n < m /\ m + Header + wanted = End(n)
    BY <1>2
  <1>5. m \in 0 .. HeapSize - Header /\ left \in 0 .. HeapSize /\ m \notin blocks
    BY <1>2
  <1>6. /\ blocks' = blocks \cup {m}
        /\ live' = live \cup {m}
        /\ size' = [size EXCEPT ![n] = left, ![m] = wanted]
        /\ next' = [next EXCEPT ![m] = NULL]
    BY <1>2 DEF Take
  <1>7. Free' = Free
    BY <1>5, <1>6, <1>1 DEF Free, TypeOK
  <1>8. /\ \A b \in blocks : b # n => size'[b] = size[b]
        /\ size'[n] = left
        /\ size'[m] = wanted
        /\ \A b \in blocks : next'[b] = next[b]
        /\ next'[m] = NULL
    BY <1>1, <1>3, <1>4, <1>5, <1>6 DEF TypeOK, Addresses
  <1>9. /\ \A b \in blocks : b # n => End(b)' = End(b)
        /\ End(n)' = m
        /\ End(m)' = End(n)
    BY <1>2, <1>3, <1>4, <1>8 DEF End
  <1>10. TypeOK'
    <2>1. size' \in [Addresses -> 0 .. HeapSize] /\ next' \in [Addresses -> Addresses \cup {NULL}]
      BY <1>1, <1>3, <1>4, <1>5, <1>6 DEF TypeOK
    <2>2. blocks' \subseteq Addresses /\ live' \subseteq blocks'
      BY <1>1, <1>5, <1>6 DEF TypeOK, Addresses
    <2> QED
      BY <2>1, <2>2, <1>6, <1>7, <1>1 DEF IInv, TypeOK, Take, Shape, HeadFree, Locals
  <1>11. Tiling'
    <2>1. \A b \in blocks' : End(b)' \in blocks' \cup {HeapSize}
      BY <1>1, <1>6, <1>9 DEF Tiling
    <2>2. ASSUME NEW a \in blocks', NEW b \in blocks', a < b
          PROVE  End(a)' <= b
      <3>1. CASE a = m
        BY <3>1, <2>2, <1>1, <1>3, <1>4, <1>6, <1>9 DEF Tiling
      <3>2. CASE a # m /\ b = m
        BY <3>2, <2>2, <1>1, <1>3, <1>4, <1>6, <1>9 DEF Tiling
      <3>3. CASE a # m /\ b # m
        BY <3>3, <2>2, <1>1, <1>3, <1>4, <1>6, <1>9 DEF Tiling
      <3> QED
        BY <3>1, <3>2, <3>3
    <2> QED
      BY <2>1, <2>2 DEF Tiling
  <1>12. FreeListSorted' /\ HeadFree' /\ LiveUnlinked'
    <2>1. \A f \in Free : next'[f] = next[f]
      BY <1>8 DEF Free
    <2> QED
      BY <2>1, <1>1, <1>6, <1>7, <1>8
         DEF IInv, Shape, FreeListSorted, HeadFree, LiveUnlinked, TypeOK
  <1>13. Coalesced'
    <2>1. ASSUME NEW f \in Free PROVE End(f)' \notin Free
      BY <2>1, <1>1, <1>5, <1>9 DEF Coalesced, Free
    <2> QED
      BY <2>1, <1>7 DEF Coalesced
  <1>14. Locals' /\ PassedTooSmall' /\ SeekBrackets'
    <2>1. Locals' /\ PassedTooSmall'
      BY DEF IInv, Take, Locals, PassedTooSmall
    <2>2. resizing # NULL => resizing \in live /\ resizing \in Int /\ Head < resizing
      BY <1>1 DEF IInv, Shape, HeadFree, Free, TypeOK, Addresses
    <2> QED
      BY <2>1, <2>2, <1>6 DEF IInv, Take, Locals, SeekBrackets
  <1> QED
    BY <1>10, <1>11, <1>12, <1>13, <1>14 DEF IInv, Shape

(***************************************************************************)
(* Insert.  p and t are the locals previous and to_free, n is node: p is   *)
(* free and below t, n is p's successor, and no free block lies between p  *)
(* and n.  l is the block the others are merged into and e where it ends   *)
(* when the step is done.  No other block moves its end.                   *)
(***************************************************************************)
LEMMA InsertPlace ==
    ASSUME IInv, Insert
    PROVE  \E p \in Free, t \in live, n \in Free \cup {NULL} :
               /\ p = previous /\ t = to_free /\ n = node
               /\ p < t /\ next[p] = n
               /\ n = NULL \/ t < n
  <1>1. /\ pc = "seek" /\ previous # NULL
        /\ to_free \in live /\ node # to_free
        /\ previous < to_free /\ next[previous] = node
        /\ node = NULL \/ node >= to_free
    BY DEF IInv, Insert, AtPlace, SeekBrackets
  <1>2. previous \in Free /\ node \in Free \cup {NULL}
    BY <1>1 DEF IInv, TypeOK
  <1>3. node = NULL \/ to_free < node
    BY <1>1, <1>2 DEF IInv, TypeOK, Addresses, Free
  <1> QED
    BY <1>1, <1>2, <1>3

LEMMA InsertIInv ==
    ASSUME IInv, Insert
    PROVE  IInv'
  <1>1. TypeOK /\ Tiling /\ FreeListSorted /\ Coalesced
    BY DEF IInv, Shape
  <1>2. PICK p \in Free, t \in live, n \in Free \cup {NULL} :
            /\ p = previous /\ t = to_free /\ n = node
            /\ p < t /\ next[p] = n
            /\ n = NULL \/ t < n
    BY InsertPlace
  <1>3. PICK l \in {p, t} : l = IF End(p) = t THEN p ELSE t
    OBVIOUS
  <1>4. PICK e \in Int : e = IF End(t) = n THEN End(n) ELSE End(t)
    BY <1>1, BlockBounds DEF TypeOK, Free
  <1>5. /\ \A b \in blocks : b \in Int /\ End(b) \in Int /\ b < End(b) /\ End(b) <= HeapSize
        /\ Free \subseteq blocks /\ live \subseteq blocks /\ Free \cap live = {}
        /\ p \in blocks /\ t \in blocks /\ t \notin Free /\ t \in Int /\ p \in Int
        /\ n \in Int /\ (n # NULL => n \in Free /\ n \in blocks)
        /\ End(t) = n => n # NULL
        /\ \A g \in Free : g <= p \/ (n # NULL /\ n <= g)
    BY <1>1, <1>2, BlockBounds DEF TypeOK, Free, FreeListSorted
  <1>6. /\ blocks' = {b \in blocks : ~(b = t /\ End(p) = t) /\ ~(b = n /\ End(t) = n)}
        /\ live' = live \ {t}
        /\ \A b : b \in Free' <=> b \in blocks' /\ (b \in Free \/ b = t)
        /\ l \in Free' /\ l \in blocks'
    <2>1. blocks' = blocks \ ({b \in {t} : End(p) = t} \cup {b \in {n} : End(t) = n})
      BY <1>2 DEF Insert, LinkAndMerge, IsContiguous
    <2>2. live' = live \ {t}
      BY <1>2 DEF Insert, Return
    <2>3. \A b : b \in blocks' <=> b \in blocks /\ ~(b = t /\ End(p) = t) /\ ~(b = n /\ End(t) = n)
      BY <2>1
    <2>4. \A b : b \in Free' <=> b \in blocks' /\ (b \in Free \/ b = t)
      BY <2>2, <2>3 DEF Free
    <2>5. l \in blocks' /\ (l = t \/ l \in Free)
      BY <2>3, <1>2, <1>3, <1>5
    <2> QED
      BY <2>2, <2>3, <2>4, <2>5
  <1>7. /\ \A b \in blocks' : b # l => End(b)' = End(b)
        /\ End(l)' = e
        /\ \A a \in Addresses : size'[a] \in {size[a], 0, e - l - Header}
    <2>1. size' = [a \in Addresses |->
              IF a = l
              THEN size[l] + ((IF End(p) = t THEN size[t] + Header ELSE 0)
                                + (IF End(t) = n THEN size[n] + Header ELSE 0))
              ELSE IF a \in {b \in {t} : End(p) = t} \cup {b \in {n} : End(t) = n} THEN 0
              ELSE size[a]]
      BY <1>2, <1>3 DEF Insert, LinkAndMerge, IsContiguous
    <2>2. \A b \in blocks' : b # l => size'[b] = size[b]
      BY <2>1, <1>1, <1>6 DEF TypeOK
    <2>3. size'[l] = e - l - Header
      <3>1. /\ End(p) = p + Header + size[p] /\ size[p] \in Int
            /\ End(t) = t + Header + size[t] /\ size[t] \in Int
            /\ n # NULL => End(n) = n + Header + size[n] /\ size[n] \in Int
        BY <1>1, <1>5, BlockBounds
      <3>2. size'[l] = size[l] + ((IF End(p) = t THEN size[t] + Header ELSE 0)
                                + (IF End(t) = n THEN size[n] + Header ELSE 0))
        BY <2>1, <1>1, <1>6 DEF TypeOK
      <3> QED
        BY <3>1, <3>2, <1>3, <1>4, <1>5
    <2> QED
      BY <2>1, <2>2, <2>3, <1>3, <1>4, <1>5 DEF End
  <1>8. /\ next'[l] = IF End(t) = n THEN next[n] ELSE n
        /\ End(p) # t => next'[p] = t
        /\ \A b \in blocks' : b # l /\ b # p => next'[b] = next[b]
    <2>1. next' = [a \in Addresses |->
              IF a = l THEN IF End(t) = n THEN next[n] ELSE n
              ELSE IF a \in {b \in {t} : End(p) = t} \cup {b \in {n} : End(t) = n} THEN NULL
              ELSE IF a = p THEN t
              ELSE next[a]]
      BY <1>2, <1>3 DEF Insert, LinkAndMerge, IsContiguous
    <2>2. p \in Addresses /\ l \in Addresses /\ blocks' \subseteq Addresses
      BY <1>1, <1>5, <1>6 DEF TypeOK
    <2> QED
      BY <2>1, <2>2, <1>2, <1>3, <1>5, <1>6
  <1>9. TypeOK'
    <2>1. size' \in [Addresses -> 0 .. HeapSize]
      <3>1. l \in Addresses /\ l + Header <= e /\ e <= HeapSize
        BY <1>1, <1>2, <1>3, <1>4, <1>5, BlockBounds DEF Addresses
      <3>2. e - l - Header \in 0 .. HeapSize
        BY <3>1, <1>4 DEF Addresses
      <3>3. \A a \in Addresses : size'[a] \in {size[a], 0, e - l - Header}
        BY <1>7, <1>1 DEF TypeOK
      <3>4. DOMAIN size' = Addresses /\ size' = [a \in Addresses |-> size'[a]]
        BY DEF Insert, LinkAndMerge
      <3> QED
        BY <3>2, <3>3, <3>4, <1>1 DEF TypeOK
    <2>2. next' \in [Addresses -> Addresses \cup {NULL}]
      BY <1>1, <1>2, <1>5 DEF Insert, LinkAndMerge, IsContiguous, TypeOK
    <2>3. blocks' \subseteq Addresses /\ live' \subseteq blocks'
      BY <1>1, <1>2, <1>5, <1>6 DEF TypeOK
    <2> QED
      BY <2>1, <2>2, <2>3 DEF TypeOK, Insert, Return, AtPlace, IInv, Locals
  <1>10. Tiling'
    <2>1. \A b \in blocks' : End(b)' \in blocks' \cup {HeapSize}
      <3>1. e \in blocks' \cup {HeapSize}
        BY <1>1, <1>2, <1>4, <1>5, <1>6 DEF Tiling
      <3>2. ASSUME NEW b \in blocks', b # l
            PROVE  End(b) \in blocks' \cup {HeapSize}
        <4>1. End(b) = t => b = p \/ End(p) # t
          BY <1>1, <1>2, <1>5, <1>6 DEF Tiling
        <4>2. End(b) = n => b = t \/ End(t) # n
          BY <1>1, <1>2, <1>5, <1>6 DEF Tiling
        <4> QED
          BY <4>1, <4>2, <3>2, <1>1, <1>3, <1>5, <1>6 DEF Tiling
      <3> QED
        BY <3>1, <3>2, <1>7
    <2>2. ASSUME NEW a \in blocks', NEW b \in blocks', a < b
          PROVE  End(a)' <= b
      <3>1. CASE a # l
        BY <3>1, <2>2, <1>1, <1>6, <1>7 DEF Tiling
      <3>2. CASE a = l
        <4>1. End(t) <= b
          BY <3>2, <2>2, <1>1, <1>2, <1>3, <1>5, <1>6 DEF Tiling
        <4>2. e <= b
          BY <4>1, <1>1, <1>4, <1>5, <1>6 DEF Tiling
        <4> QED
          BY <3>2, <4>2, <1>7
      <3> QED
        BY <3>1, <3>2
    <2> QED
      BY <2>1, <2>2 DEF Tiling
  <1>11. HeadFree' /\ LiveUnlinked'
    <2>1. HeadFree'
      BY <1>1, <1>2, <1>5, <1>6 DEF IInv, Shape, HeadFree, TypeOK, Addresses
    <2>2. ASSUME NEW b \in live' PROVE next'[b] = NULL
      BY <2>2, <1>1, <1>2, <1>3, <1>5, <1>6, <1>8 DEF IInv, Shape, LiveUnlinked, Free, TypeOK
    <2> QED
      BY <2>1, <2>2 DEF LiveUnlinked
  <1>12. FreeListSorted'
    <2>1. ASSUME NEW f \in Free'
          PROVE  \/ next'[f] = NULL /\ \A g \in Free' : g <= f
                 \/ /\ next'[f] \in Free' /\ f < next'[f]
                    /\ \A g \in Free' : g <= f \/ next'[f] <= g
      <3>1. CASE f = l /\ End(t) = n
        <4>1. /\ n \in Free /\ n \in Int /\ t < n /\ n # NULL
              /\ l <= t /\ p <= l /\ l \in Int /\ next'[f] = next[n]
          BY <3>1, <1>2, <1>3, <1>5, <1>8
        <4>2. ASSUME NEW g \in Free'
              PROVE  g \in Int /\ (g = l \/ g \in Free) /\ (g <= n => g <= l)
          <5>1. g \in blocks /\ g \in Int /\ (g = t \/ g \in Free) /\ g # n
            BY <3>1, <1>5, <1>6
          <5>2. g = t => g = l
            BY <1>3, <1>6
          <5> QED
            BY <5>1, <5>2, <4>1, <1>5
        <4>3. CASE next[n] = NULL
          BY <3>1, <4>1, <4>2, <4>3, <1>1, <1>2, <1>5, <1>6 DEF FreeListSorted
        <4>4. CASE next[n] # NULL
          <5>1. PICK m \in Free :
                    next[n] = m /\ n < m /\ \A g \in Free : g <= n \/ m <= g
            BY <4>1, <4>4, <1>1 DEF FreeListSorted
          <5>2. m \in blocks /\ m \in Int /\ m # t /\ m # n
            BY <5>1, <4>1, <1>5
          <5>3. m \in Free'
            BY <5>2, <1>6
          <5>4. \A g \in Free' : g <= l \/ m <= g
            BY <5>1, <4>1, <4>2
          <5> QED
            BY <5>1, <5>2, <5>3, <5>4, <4>1, <3>1, <1>5
        <4> QED
          BY <4>3, <4>4
      <3>2. CASE f = l /\ End(t) # n
        BY <3>2, <1>1, <1>2, <1>3, <1>5, <1>6, <1>8
      <3>3. CASE f # l /\ f = p
        BY <3>3, <1>1, <1>2, <1>3, <1>5, <1>6, <1>8
      <3>4. CASE f # l /\ f # p
        <4>1. next'[f] = next[f] /\ f \in Free /\ f \in blocks
          BY <3>4, <2>1, <1>3, <1>6, <1>8
        <4> QED
          BY <4>1, <3>4, <1>1, <1>2, <1>3, <1>5, <1>6 DEF FreeListSorted
      <3> QED
        BY <3>1, <3>2, <3>3, <3>4
    <2> QED
      BY <2>1 DEF FreeListSorted
  <1>13. Coalesced'
    <2>1. e \notin Free'
      <3>1. CASE End(t) = n
        BY <3>1, <1>1, <1>2, <1>4, <1>5, <1>6 DEF Coalesced
      <3>2. CASE End(t) # n
        BY <3>2, <1>1, <1>2, <1>4, <1>5, <1>6 DEF Tiling
      <3> QED
        BY <3>1, <3>2
    <2>2. ASSUME NEW f \in Free', f # l
          PROVE  End(f) \notin Free'
      <3>1. f \in Free /\ f \in blocks
        BY <2>2, <1>3, <1>6
      <3>2. End(f) # t
        BY <3>1, <2>2, <1>1, <1>2, <1>3, <1>5 DEF Tiling
      <3> QED
        BY <3>1, <3>2, <1>1, <1>6 DEF Coalesced
    <2> QED
      BY <2>1, <2>2, <1>6, <1>7 DEF Coalesced
  <1>14. Locals' /\ PassedTooSmall' /\ SeekBrackets'
    BY DEF IInv, Insert, AtPlace, Return, Locals, PassedTooSmall, SeekBrackets
  <1> QED
    BY <1>9, <1>10, <1>11, <1>12, <1>13, <1>14 DEF IInv, Shape

(***************************************************************************)
(* The theorems.                                                           *)
(***************************************************************************)
LEMMA StepIInv == IInv /\ [Next]_vars => IInv'
  <1> SUFFICES ASSUME IInv, [Next]_vars PROVE IInv'
    OBVIOUS
  <1>1. ASSUME NEW n \in Sizes, MallocCall(n) PROVE IInv'
    BY <1>1, MallocCallIInv
  <1>2. ASSUME NEW b \in live, FreeCall(b) PROVE IInv'
    BY <1>2, FreeCallIInv
  <1>3. ASSUME NEW b \in live, NEW n \in Sizes, ReallocCall(b, n) PROVE IInv'
    BY <1>3, ReallocCallIInv
  <1>4. CASE FindNext
    BY <1>4, FindNextIInv
  <1>5. CASE FindFail
    BY <1>5, FindFailIInv
  <1>6. CASE Take
    BY <1>6, TakeIInv
  <1>7. CASE SeekNext
    BY <1>7, SeekNextIInv
  <1>8. CASE Insert
    BY <1>8, InsertIInv
  <1>9. CASE UNCHANGED vars
    <2>1. Shape'
      BY <1>9, ShapeKept DEF IInv, vars
    <2> QED
      BY <2>1, <1>9 DEF vars, heapVars, callVars, IInv, TypeOK, Locals,
         PassedTooSmall, SeekBrackets, TooSmall, Free
  <1> QED
    BY <1>1, <1>2, <1>3, <1>4, <1>5, <1>6, <1>7, <1>8, <1>9 DEF Next, Call, Run

LEMMA InvariantHolds == Spec => []IInv
  BY InitIInv, StepIInv, PTL DEF Spec

(* Every variable of the allocator keeps its type: above all, node and     *)
(* previous only ever point at free blocks.                                *)
THEOREM TypeCorrect == Spec => []TypeOK
  <1>1. IInv => TypeOK
    BY DEF IInv
  <1> QED
    BY <1>1, InvariantHolds, PTL

(* Whatever the calls, the blocks cut and merged tile the heap: none       *)
(* overlap, no byte between two blocks is lost.                            *)
THEOREM TilingHolds == Spec => []Tiling
  <1>1. IInv => Tiling
    BY DEF IInv, Shape
  <1> QED
    BY <1>1, InvariantHolds, PTL

(* The free list is the free blocks in address order, no two of them       *)
(* touching.                                                               *)
THEOREM FreeListHolds == Spec => [](FreeListSorted /\ Coalesced)
  <1>1. IInv => FreeListSorted /\ Coalesced
    BY DEF IInv, Shape
  <1> QED
    BY <1>1, InvariantHolds, PTL

(* The loop invariants of k_malloc (every block passed is too small) and   *)
(* of k_free (the block is bracketed, previous is set where the walk ends).*)
THEOREM LoopInvariantsHold == Spec => [](PassedTooSmall /\ SeekBrackets)
  <1>1. IInv => PassedTooSmall /\ SeekBrackets
    BY DEF IInv
  <1> QED
    BY <1>1, InvariantHolds, PTL

(* When everything has been freed the heap is one block again: were there  *)
(* a second block, head would end where a free block begins.               *)
THEOREM FreeingEverythingRestores == Spec => []AllFreedRestoresHeap
  <1>1. IInv => AllFreedRestoresHeap
    <2> SUFFICES ASSUME IInv, live = {}
                 PROVE  size[Head] = HeapSize - Header /\ next[Head] = NULL
      BY DEF AllFreedRestoresHeap
    <2>1. TypeOK /\ Tiling /\ Coalesced /\ FreeListSorted /\ Free = blocks /\ Head \in blocks
      BY DEF IInv, Shape, HeadFree, Free
    <2>2. End(Head) = Header + size[Head] /\ End(Head) = HeapSize /\ size[Head] \in Int
      BY <2>1, BlockBounds DEF Tiling, Coalesced
    <2>3. next[Head] \notin Free
      <3> SUFFICES ASSUME next[Head] \in Free PROVE FALSE
        OBVIOUS
      <3>1. next[Head] \in Int /\ next[Head] < HeapSize
        BY <2>1 DEF TypeOK, Addresses
      <3>2. Head < next[Head]
        BY <2>1, <3>1 DEF FreeListSorted, TypeOK, Addresses
      <3> QED
        BY <3>1, <3>2, <2>1, <2>2 DEF Tiling
    <2> QED
      BY <2>1, <2>2, <2>3 DEF FreeListSorted
  <1> QED
    BY <1>1, InvariantHolds, PTL

LEMMA SizeOfLiveKept ==
    ASSUME IInv, [Next]_vars, NEW b \in live, b \in live'
    PROVE  size'[b] = size[b]
  <1>1. CASE Take
    <2>1. node \notin live /\ node \in blocks
      BY <1>1 DEF Take, IInv, PassedTooSmall, Free
    <2>2. PICK m \in Int :
              /\ m \notin blocks
              /\ m = node + (size[node] - (wanted + Header)) + Header
      BY <1>1, TakeCutsInside
    <2>3. size' = [size EXCEPT ![node] = size[node] - (wanted + Header), ![m] = wanted]
      BY <1>1, <2>2 DEF Take
    <2> QED
      BY <2>1, <2>2, <2>3 DEF IInv, TypeOK
  <1>2. CASE Insert
    <2>1. previous \in Free /\ node \in Free \cup {NULL} /\ to_free \in live
      BY <1>2, InsertPlace
    <2>2. b # to_free
      BY <1>2 DEF Insert, Return
    <2>3. b # NULL
      BY DEF IInv, TypeOK, Addresses
    <2>4. b # previous /\ b # node
      BY <2>1, <2>3 DEF Free
    <2> QED
      BY <1>2, <2>2, <2>4 DEF Insert, LinkAndMerge, IInv, TypeOK
  <1>3. CASE UNCHANGED heapVars
    BY <1>3 DEF heapVars
  <1> QED
    BY <1>1, <1>2, <1>3 DEF Next, Call, Run, MallocCall, FreeCall, ReallocCall,
       FindNext, FindFail, SeekNext, vars, heapVars

(* No call touches the header of a block that stays in use.                *)
THEOREM LiveBlocksStayUntouched == Spec => LiveBlocksUntouched
  <1>1. IInv /\ IInv' /\ [Next]_vars =>
            [\A b \in live : b \in live' => size'[b] = size[b] /\ next'[b] = NULL]_vars
    BY SizeOfLiveKept DEF IInv, Shape, LiveUnlinked
  <1> QED
    BY <1>1, InvariantHolds, PTL DEF Spec, LiveBlocksUntouched

(***************************************************************************)
(* Refinement.  A refusal is the step that needs an argument: a run of     *)
(* bytes no live block touches starts inside some block, that block is     *)
(* free, and it reaches to the end of the run because no free block follows*)
(* it; so it is large enough, and the search would have taken it.          *)
(***************************************************************************)
LEMMA BlockAround ==
    ASSUME TypeOK, Tiling, Head \in blocks, NEW lo \in 0 .. HeapSize - 1
    PROVE  \E b \in blocks : b <= lo /\ lo < End(b)
  <1> DEFINE D == {HeapSize - b : b \in {c \in blocks : c <= lo}}
             R == OpToRel(<, Nat)
  <1>1. \A b \in blocks : b \in 0 .. HeapSize /\ End(b) \in Int /\ b < End(b)
    BY BlockBounds
  <1>2. D \subseteq Nat /\ D # {}
    BY <1>1
  <1>3. IsWellFoundedOn(R, Nat)
    BY NatLessThanWellFounded
  <1>4. \A x, y \in Nat : <<x, y>> \in R <=> x < y
    BY DEF OpToRel
  <1>5. PICK d \in D : \A y \in D : d <= y
    <2> HIDE DEF D, R
    <2>1. PICK d \in D : \A y \in D : ~(<<y, d>> \in R)
      BY <1>2, <1>3, WFMin
    <2>2. \A y \in D : ~(y < d) /\ y \in Nat /\ d \in Nat
      BY <2>1, <1>2, <1>4
    <2> QED
      BY <2>2
  <1>6. PICK b \in blocks : b <= lo /\ \A c \in blocks : c <= lo => c <= b
    <2>1. PICK b \in blocks : b <= lo /\ d = HeapSize - b
      OBVIOUS
    <2>2. \A c \in blocks : c <= lo => d <= HeapSize - c
      BY <1>5
    <2> QED
      BY <2>1, <2>2, <1>1
  <1>7. End(b) \in blocks \/ End(b) = HeapSize
    BY DEF Tiling
  <1>8. lo < End(b)
    BY <1>1, <1>6, <1>7
  <1> QED
    BY <1>6, <1>8

LEMMA OwnedFacts ==
    /\ DOMAIN Owned = {b + Header : b \in live}
    /\ TypeOK => \A b \in live : Owned[b + Header] = size[b]
  BY DEF Owned, TypeOK, Addresses

(* Nothing a caller can see. *)
LEMMA StutterRefines ==
    ASSUME UNCHANGED <<size, live>>, Request' = Request
    PROVE  UNCHANGED Promise!specVars
  BY DEF Owned, Promise!specVars

LEMMA AskRefines ==
    ASSUME IInv, NEW n \in Sizes, pc = "idle", pc' = "find", wanted' = n,
           UNCHANGED heapVars
    PROVE  Promise!Ask(n)
  BY DEF Owned, Request, heapVars, Promise!Ask, Promise!None

LEMMA RefuseRefines ==
    ASSUME IInv, FindFail
    PROVE  Promise!Refuse
  <1>1. /\ TypeOK /\ Tiling /\ Coalesced /\ Head \in blocks
        /\ wanted \in Nat /\ Request = wanted /\ Request' = -1 /\ Owned' = Owned
    BY DEF IInv, Shape, HeadFree, Free, TypeOK, FindFail, Request, Owned, heapVars
  <1>2. \A f \in Free : size[f] < wanted + Header
    <2>1. node \in Free /\ TooSmall(node) /\ next[node] = NULL
      BY DEF IInv, FindFail, PassedTooSmall
    <2>2. \A f \in Free : f <= node
      BY <2>1, <1>1 DEF IInv, Shape, FreeListSorted, Free, TypeOK, Addresses
    <2>3. ASSUME NEW f \in Free PROVE TooSmall(f)
      <3>1. f \in Int /\ node \in Int /\ f <= node
        BY <2>1, <2>2, <1>1 DEF TypeOK, Free, Addresses
      <3>2. f = node \/ f < node
        BY <3>1
      <3> QED
        BY <3>2, <2>1 DEF IInv, FindFail, PassedTooSmall
    <2> QED
      BY <2>3 DEF TooSmall
  <1>3. ASSUME NEW lo \in 0 .. HeapSize - (Header + Header + wanted),
               Promise!Unowned(lo, lo + Header + Header + wanted)
        PROVE  FALSE
    <2>1. \A b \in live : lo + Header + Header + wanted <= b \/ End(b) <= lo
      <3> TAKE b \in live
      <3>1. PICK q : q = b + Header /\ q \in DOMAIN Owned /\ Owned[q] = size[b]
        BY <1>1, OwnedFacts
      <3>2. lo + Header + Header + wanted <= q - Header \/ q + Owned[q] <= lo
        BY <1>3, <3>1 DEF Promise!Unowned
      <3>3. b \in blocks
        BY <1>1 DEF TypeOK
      <3> QED
        BY <1>1, <3>1, <3>2, <3>3, BlockBounds
    <2>2. lo \in 0 .. HeapSize - 1
      BY <1>1
    <2>3. PICK b \in blocks : b <= lo /\ lo < End(b)
      BY <1>1, <2>2, BlockAround
    <2>4. /\ b \in Int /\ End(b) \in Int /\ End(b) <= HeapSize
          /\ End(b) = b + Header + size[b] /\ size[b] \in Int
      BY <1>1, BlockBounds
    <2>5. b \in Free
      BY <2>1, <2>3, <2>4, <1>1 DEF Free
    <2>6. End(b) < lo + Header + Header + wanted
      BY <1>1, <1>2, <2>3, <2>4, <2>5
    <2>7. End(b) \in live
      BY <1>1, <2>4, <2>5, <2>6 DEF Tiling, Coalesced, Free
    <2>8. End(End(b)) <= lo
      BY <1>1, <2>1, <2>4, <2>6, <2>7
    <2>9. End(b) < End(End(b)) /\ End(End(b)) \in Int
      <3>1. \A c \in blocks : c < End(c) /\ End(c) \in Int
        BY <1>1, BlockBounds
      <3> QED
        BY <3>1, <2>7, <1>1 DEF TypeOK
    <2> QED
      BY <2>3, <2>4, <2>8, <2>9
  <1> QED
    BY <1>1, <1>3 DEF Promise!Refuse, Promise!None

LEMMA GrantRefines ==
    ASSUME IInv, Take
    PROVE  \E q \in Header .. HeapSize : Promise!Grant(q)
  <1>1. TypeOK /\ Tiling /\ Head \in blocks /\ Request = wanted /\ Request' = -1
    BY DEF IInv, Shape, HeadFree, Free, Take, Request
  <1>2. PICK n \in blocks, left \in Int, m \in Int :
            /\ n = node /\ left = size[n] - (wanted + Header) /\ m = n + left + Header
            /\ wanted \in 0 .. HeapSize
            /\ left \in 0 .. HeapSize
            /\ m \in 0 .. HeapSize - Header
            /\ n < m
            /\ m + Header + wanted = End(n)
            /\ m \notin blocks
    BY TakeCutsInside
  <1>3. \A b \in blocks : /\ b \in 0 .. HeapSize - Header /\ End(b) \in Int
                          /\ b < End(b) /\ End(b) <= HeapSize /\ End(b) = b + Header + size[b]
    BY <1>1, BlockBounds
  <1>4. Header <= m /\ m + Header + wanted <= HeapSize
    BY <1>2, <1>3
  <1>5. Promise!Unowned(m, m + Header + wanted)
    <2> SUFFICES ASSUME NEW q \in DOMAIN Owned
                 PROVE  m + Header + wanted <= q - Header \/ q + Owned[q] <= m
      BY DEF Promise!Unowned
    <2>1. PICK b \in live : q = b + Header /\ Owned[q] = size[b]
      BY <1>1, OwnedFacts
    <2>2. b \in blocks /\ b # n
      BY <1>1, <1>2 DEF TypeOK, IInv, Take, PassedTooSmall, Free
    <2>3. b < n \/ n < b
      BY <2>2, <1>3
    <2>4. End(b) <= n \/ End(n) <= b
      BY <2>2, <2>3, <1>1 DEF Tiling
    <2> QED
      BY <2>1, <2>2, <2>4, <1>2, <1>3
  <1>6. PICK q \in Header .. HeapSize : q = m + Header /\ q - Header = m
    BY <1>2, <1>4
  <1>7. Owned' = [x \in DOMAIN Owned \cup {q} |-> IF x = q THEN wanted ELSE Owned[x]]
    <2>1. /\ live' = live \cup {m} /\ m \notin live
          /\ size'[m] = wanted /\ \A b \in live : size'[b] = size[b]
      <3>1. size' = [size EXCEPT ![n] = left, ![m] = wanted] /\ live' = live \cup {m}
        BY <1>2 DEF Take
      <3>2. n \notin live /\ live \subseteq blocks
        BY <1>1, <1>2 DEF IInv, Take, PassedTooSmall, Free, TypeOK
      <3> QED
        BY <3>1, <3>2, <1>1, <1>2 DEF TypeOK, Addresses
    <2>2. {b + Header : b \in live'} = {b + Header : b \in live} \cup {q}
      BY <2>1, <1>6
    <2>3. ASSUME NEW x \in {b + Header : b \in live'}
          PROVE  size'[x - Header] = IF x = q THEN wanted ELSE Owned[x]
      <3>1. PICK b \in live' : x = b + Header
        OBVIOUS
      <3>2. b \in Int /\ x - Header = b
        BY <3>1, <2>1, <1>1, <1>2 DEF TypeOK, Addresses
      <3>3. CASE b = m
        BY <3>1, <3>2, <3>3, <2>1, <1>6
      <3>4. CASE b # m
        <4>1. b \in live /\ x # q
          BY <3>1, <3>2, <3>4, <2>1, <1>6, <1>2
        <4> QED
          BY <3>1, <3>2, <4>1, <2>1, <1>1, OwnedFacts
      <3> QED
        BY <3>3, <3>4
    <2> QED
      BY <2>2, <2>3 DEF Owned
  <1>8. Promise!Unowned(q - Header, q + Request)
    <2>1. q + Request = m + Header + wanted
      BY <1>1, <1>6
    <2> QED
      BY <1>5, <1>6, <2>1
  <1>9. Promise!Grant(q)
    <2>1. Request # -1 /\ q + Request <= HeapSize
      BY <1>1, <1>2, <1>4, <1>6
    <2> QED
      BY <2>1, <1>1, <1>4, <1>6, <1>7, <1>8 DEF Promise!Grant, Promise!None
  <1> QED
    BY <1>9

LEMMA ReleaseRefines ==
    ASSUME IInv, Insert
    PROVE  \E q \in Header .. HeapSize : Promise!Release(q)
  <1>1. TypeOK /\ Request' = Request
    BY DEF IInv, Insert, AtPlace, Return, Request
  <1>2. PICK t \in live : t = to_free /\ live' = live \ {t}
    BY InsertPlace DEF Insert, Return
  <1>3. \A b \in live' : size'[b] = size[b]
    <2>1. [Next]_vars
      BY DEF Next, Run
    <2>2. \A b \in live' : b \in live
      BY <1>2
    <2> QED
      BY <2>1, <2>2, SizeOfLiveKept
  <1>4. \A b \in live : b \in 0 .. HeapSize - Header
    BY <1>1 DEF TypeOK, Addresses
  <1>5. PICK q \in Header .. HeapSize : q = t + Header
    BY <1>4
  <1>6. Owned' = [x \in DOMAIN Owned \ {q} |-> Owned[x]]
    <2>1. {b + Header : b \in live'} = {b + Header : b \in live} \ {q}
      BY <1>2, <1>4, <1>5
    <2>2. ASSUME NEW x \in {b + Header : b \in live'}
          PROVE  size'[x - Header] = Owned[x]
      <3>1. PICK b \in live' : x = b + Header
        OBVIOUS
      <3>2. b \in live /\ x - Header = b
        BY <3>1, <1>2, <1>4
      <3> QED
        BY <3>1, <3>2, <1>1, <1>3, OwnedFacts
    <2> QED
      BY <2>1, <2>2 DEF Owned
  <1>7. q \in DOMAIN Owned
    BY <1>5, OwnedFacts
  <1> QED
    BY <1>1, <1>6, <1>7 DEF Promise!Release

(* The allocator does what HeapSpec promises: in particular it refuses a   *)
(* request only when no free run of bytes is long enough for it.           *)
THEOREM Refinement == Spec => ImplementsHeapSpec
  <1>1. Init => Promise!SpecInit
    BY DEF Init, Promise!SpecInit, Promise!None, Owned, Request
  <1>2. IInv /\ [Next]_vars => [Promise!SpecNext]_(Promise!specVars)
    <2> SUFFICES ASSUME IInv, [Next]_vars
                 PROVE  Promise!SpecNext \/ UNCHANGED Promise!specVars
      OBVIOUS
    <2>1. ASSUME NEW n \in Sizes, MallocCall(n) PROVE Promise!SpecNext
      BY <2>1, AskRefines DEF MallocCall, Promise!SpecNext
    <2>2. ASSUME NEW b \in live, FreeCall(b) PROVE UNCHANGED Promise!specVars
      BY <2>2, StutterRefines DEF FreeCall, heapVars, Request
    <2>3. ASSUME NEW b \in live, NEW n \in Sizes, ReallocCall(b, n) PROVE Promise!SpecNext
      BY <2>3, AskRefines DEF ReallocCall, Promise!SpecNext
    <2>4. CASE FindNext
      BY <2>4, StutterRefines DEF FindNext, heapVars, Request
    <2>5. CASE FindFail
      BY <2>5, RefuseRefines DEF Promise!SpecNext
    <2>6. CASE Take
      BY <2>6, GrantRefines DEF Promise!SpecNext
    <2>7. CASE SeekNext
      BY <2>7, StutterRefines DEF SeekNext, heapVars, Request
    <2>8. CASE Insert
      BY <2>8, ReleaseRefines DEF Promise!SpecNext
    <2>9. CASE UNCHANGED vars
      BY <2>9, StutterRefines DEF vars, heapVars, callVars, Request
    <2> QED
      BY <2>1, <2>2, <2>3, <2>4, <2>5, <2>6, <2>7, <2>8, <2>9 DEF Next, Call, Run
  <1> QED
    BY <1>1, <1>2, InvariantHolds, PTL DEF Spec, ImplementsHeapSpec, Promise!SpecSpec
=============================================================================
