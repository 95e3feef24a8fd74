--------------------------- MODULE Fat32FileProofs ---------------------------
(***************************************************************************)
(* Files of any number and size, on clusters of any size, are what         *)
(* FileSpec says, until a use the code has no test for.                    *)
(***************************************************************************)
EXTENDS Fat32File, TLAPS

(***************************************************************************)
(* The inductive invariant.  Every file has whole clusters, at least one.  *)
(* As long as no unusual use has occurred, a file has at most one node,    *)
(* which knows its size, and nothing but zeroes behind its end, which is   *)
(* what a later write beyond the end leaves in between.                    *)
(***************************************************************************)
Whole(f) == Have(f) \in Nat \ {0} /\ Len(data[f]) = Have(f) * ClusterSize

FileTypes ==
    /\ DOMAIN size \subseteq Files /\ size \in [DOMAIN size -> Offsets]
    /\ data \in [DOMAIN size -> Seq(Bytes)]
    /\ \A f \in DOMAIN size : Whole(f)
    /\ DOMAIN node \subseteq Handles
    /\ node \in [DOMAIN node -> [file : DOMAIN size, size : Offsets, offset : Offsets]]
    /\ room \in Nat
    /\ reply.count \in Nat /\ reply.asked \in Nat
    /\ misused \subseteq {"shared", "behind", "astray", "unchecked", "unsaved"}

Alone   == \A g, h \in DOMAIN node : node[g].file = node[h].file => g = h

Current == \A h \in DOMAIN node : node[h].size = size[node[h].file]

Tails   == \A f \in DOMAIN size : \A i \in 1 .. Len(data[f]) : i > size[f] => data[f][i] = 0

Usual   == misused = {} => Alone /\ Current /\ Tails

FInv    == FileTypes /\ SizeWithinChain /\ ShortWriteMeansNoCluster /\ Usual

-----------------------------------------------------------------------------
(***************************************************************************)
(* The operators.                                                          *)
(***************************************************************************)
LEMMA MaxOfTwo ==
    ASSUME NEW a \in Int, NEW b \in Int
    PROVE  Max({a, b}) = IF a >= b THEN a ELSE b
  <1> DEFINE m == IF a >= b THEN a ELSE b
  <1>1. m \in {a, b} /\ \A y \in {a, b} : m >= y
    OBVIOUS
  <1>2. \A x \in {a, b} : (\A y \in {a, b} : x >= y) => x = m
    OBVIOUS
  <1> QED
    BY <1>1, <1>2 DEF Max

LEMMA MinOfTwo ==
    ASSUME NEW a \in Int, NEW b \in Int
    PROVE  Min({a, b}) = IF a <= b THEN a ELSE b
  <1> DEFINE m == IF a <= b THEN a ELSE b
  <1>1. m \in {a, b} /\ \A y \in {a, b} : m <= y
    OBVIOUS
  <1>2. \A x \in {a, b} : (\A y \in {a, b} : x <= y) => x = m
    OBVIOUS
  <1> QED
    BY <1>1, <1>2 DEF Min

LEMMA Constants ==
    /\ ClusterSize \in Nat \ {0} /\ Clusters \in Nat /\ MaxOffset \in Nat /\ MaxRequest \in Nat
    /\ Wrap \in Nat /\ Wrap > 2 * (MaxOffset + MaxRequest)
    /\ 0 \in Bytes /\ Offsets = 0 .. MaxOffset
    /\ \A b \in Buffers : b \in Seq(Bytes) /\ Len(b) \in Nat /\ Len(b) <= MaxRequest
  BY FileAssumption DEF Offsets

LEMMA Monotone ==
    ASSUME NEW a \in Nat, NEW b \in Nat, a <= b
    PROVE  a * ClusterSize <= b * ClusterSize
  BY Constants

LEMMA OneMore ==
    ASSUME NEW a \in Nat
    PROVE  /\ a * ClusterSize \in Nat
           /\ (a + 1) * ClusterSize = a * ClusterSize + ClusterSize
  BY Constants

LEMMA Added ==
    ASSUME NEW a \in Nat, NEW b \in Nat
    PROVE  (a + b) * ClusterSize = a * ClusterSize + b * ClusterSize
  BY Constants

LEMMA Divided ==
    ASSUME NEW n \in Nat
    PROVE  /\ n \div ClusterSize \in Nat
           /\ (n \div ClusterSize) * ClusterSize <= n
           /\ n < (n \div ClusterSize) * ClusterSize + ClusterSize
  <1>1. n \div ClusterSize \in Nat
    BY Constants
  <1>2. n = ClusterSize * (n \div ClusterSize) + (n % ClusterSize)
    BY Constants
  <1>3. n % ClusterSize \in 0 .. ClusterSize - 1
    BY Constants
  <1>4. ClusterSize * (n \div ClusterSize) = (n \div ClusterSize) * ClusterSize
    BY <1>1, Constants
  <1>5. (n \div ClusterSize) * ClusterSize \in Nat
    BY <1>1, OneMore
  <1> QED
    BY <1>1, <1>2, <1>3, <1>4, <1>5, Constants

(* The loop before the first piece stops in the cluster before an offset   *)
(* that is a multiple of the cluster size.                                 *)
LEMMA SkippedFacts ==
    ASSUME NEW at \in Nat
    PROVE  /\ Skipped(at) \in Nat
           /\ Skipped(at) * ClusterSize \in Nat
           /\ Skipped(at) * ClusterSize <= at
           /\ at <= Skipped(at) * ClusterSize + ClusterSize
           /\ at > 0 => Skipped(at) * ClusterSize < at
  <1>1. CASE at = 0
    BY <1>1, Constants DEF Skipped
  <1>2. CASE at > 0
    <2>1. at - 1 \in Nat /\ Skipped(at) = (at - 1) \div ClusterSize
      BY <1>2 DEF Skipped
    <2>2. /\ Skipped(at) \in Nat
          /\ Skipped(at) * ClusterSize <= at - 1
          /\ at - 1 < Skipped(at) * ClusterSize + ClusterSize
      BY <2>1, Divided
    <2>3. Skipped(at) * ClusterSize \in Nat
      BY <2>2, OneMore
    <2> QED
      BY <2>2, <2>3, Constants
  <1> QED
    BY <1>1, <1>2

(* A chain that holds the offset is long enough for the loop.               *)
LEMMA SkippedWithin ==
    ASSUME NEW at \in Nat, NEW k \in Nat, at <= k * ClusterSize, k > 0
    PROVE  Skipped(at) + 1 <= k
  <1>1. CASE at = 0
    BY <1>1 DEF Skipped
  <1>2. CASE at > 0
    <2>1. Skipped(at) \in Nat /\ Skipped(at) * ClusterSize < k * ClusterSize
      BY <1>2, SkippedFacts, OneMore
    <2>2. ~(k <= Skipped(at))
      BY <2>1, Monotone, OneMore
    <2> QED
      BY <2>1, <2>2
  <1> QED
    BY <1>1, <1>2

(* The clusters that n bytes need.                                          *)
LEMMA NeededFacts ==
    ASSUME NEW n \in Nat
    PROVE  /\ (n + ClusterSize - 1) \div ClusterSize \in Nat
           /\ n <= ((n + ClusterSize - 1) \div ClusterSize) * ClusterSize
  <1>1. n + ClusterSize - 1 \in Nat
    BY Constants
  <1> DEFINE q == (n + ClusterSize - 1) \div ClusterSize
  <1>2. /\ q \in Nat /\ n + ClusterSize - 1 < q * ClusterSize + ClusterSize
    BY <1>1, Divided
  <1>3. q * ClusterSize \in Nat
    BY <1>2, OneMore
  <1> HIDE DEF q
  <1>4. n <= q * ClusterSize
    BY <1>2, <1>3, Constants
  <1> QED
    BY <1>2, <1>4 DEF q

(* A chain stops growing where it was to, or when it gets nothing more.     *)
LEMMA GrownFacts ==
    ASSUME NEW have \in Nat, NEW want \in Nat, NEW got \in 0 .. room, room \in Nat
    PROVE  /\ Grown(have, want, got) \in Nat
           /\ have <= Grown(have, want, got)
           /\ room - (Grown(have, want, got) - have) \in Nat
           /\ Grown(have, want, got) < want =>
                  \/ room - (Grown(have, want, got) - have) = 0
                  \/ have + got < want /\ got < room
           /\ want <= have => Grown(have, want, got) = have
  <1>1. Min({want, have + got}) = IF want <= have + got THEN want ELSE have + got
    BY MinOfTwo
  <1>2. PICK m \in Nat : m = Min({want, have + got}) /\ m = (IF want <= have + got THEN want ELSE have + got)
    BY <1>1
  <1>3. Grown(have, want, got) = IF have >= m THEN have ELSE m
    BY <1>2, MaxOfTwo DEF Grown
  <1> QED
    BY <1>2, <1>3

(* What a chain of k clusters, and then of chain, holds.                    *)
LEMMA LongerFacts ==
    ASSUME FileTypes, NEW f \in DOMAIN size, NEW chain \in Nat, Have(f) <= chain
    PROVE  /\ Longer(f, chain) \in Seq(Bytes)
           /\ Len(Longer(f, chain)) = chain * ClusterSize
           /\ Len(data[f]) \in Nat /\ Len(data[f]) <= chain * ClusterSize
           /\ \A i \in 1 .. chain * ClusterSize :
                  Longer(f, chain)[i] = IF i <= Len(data[f]) THEN data[f][i] ELSE 0
           /\ chain = Have(f) => Longer(f, chain) = data[f]
  <1>1. PICK more \in Nat : more = chain - Have(f)
    BY DEF FileTypes, Whole
  <1>2. /\ data[f] \in Seq(Bytes) /\ Have(f) \in Nat
        /\ Len(data[f]) = Have(f) * ClusterSize /\ Len(data[f]) \in Nat
    BY DEF FileTypes, Whole
  <1>3. chain * ClusterSize = Len(data[f]) + more * ClusterSize
    <2>1. chain = Have(f) + more
      BY <1>1, <1>2
    <2> QED
      BY <1>1, <1>2, <2>1, Added
  <1>4. PICK z \in Nat : z = more * ClusterSize
    BY <1>1, OneMore
  <1>5. PICK zeroes : zeroes = Zeroes(more)
    OBVIOUS
  <1>6. zeroes = [i \in 1 .. z |-> 0]
    BY <1>4, <1>5 DEF Zeroes
  <1>7. zeroes \in Seq(Bytes) /\ Len(zeroes) = z
    BY <1>4, <1>6, Constants
  <1>8. Longer(f, chain) = data[f] \o zeroes
    BY <1>1, <1>5 DEF Longer
  <1>9. /\ data[f] \o zeroes \in Seq(Bytes) /\ Len(data[f] \o zeroes) = Len(data[f]) + z
    BY <1>2, <1>7
  <1>10. ASSUME NEW i \in 1 .. Len(data[f]) + z
         PROVE  (data[f] \o zeroes)[i] = IF i <= Len(data[f]) THEN data[f][i] ELSE 0
    BY <1>2, <1>4, <1>6, <1>7
  <1>11. chain = Have(f) => data[f] \o zeroes = data[f]
    <2>1. chain = Have(f) => z = 0
      BY <1>1, <1>2, <1>4, Constants
    <2>2. z = 0 => zeroes = <<>>
      BY <1>7
    <2> QED
      BY <1>2, <2>1, <2>2
  <1>12. PICK hold \in Nat : hold = chain * ClusterSize
    BY OneMore
  <1>13. hold = Len(data[f]) + z /\ Len(data[f]) <= hold
    BY <1>2, <1>3, <1>4, <1>12
  <1>14. \A i \in 1 .. hold :
             (data[f] \o zeroes)[i] = IF i <= Len(data[f]) THEN data[f][i] ELSE 0
    BY <1>10, <1>13
  <1> QED
    BY <1>2, <1>8, <1>9, <1>11, <1>12, <1>13, <1>14

-----------------------------------------------------------------------------
(***************************************************************************)
(* What a write does, in terms of the clusters it gets (chain), the bytes  *)
(* it counts (count) and what is then in them (new).                       *)
(***************************************************************************)
Kind == {"shared", "behind", "astray", "unchecked", "unsaved"}

Written(h, bytes, f, at, chain, count, new, length) ==
    /\ f = node[h].file /\ at = node[h].offset
    /\ Have(f) <= chain /\ Len(new) = chain * ClusterSize
    /\ count <= Len(bytes) /\ at + count <= MaxOffset
    /\ length = IF node[h].size >= at + count THEN node[h].size ELSE at + count
    /\ data' = [data EXCEPT ![f] = new]
    /\ \/ size' = [size EXCEPT ![f] = length]
       \/ size' = size /\ misused' # {}
    /\ node' = [node EXCEPT ![h] = [file |-> f, size |-> length, offset |-> at + count]]
    /\ reply'.count = count /\ reply'.bytes = <<>> /\ reply'.asked = Len(bytes)
    /\ room' \in Nat
    /\ count < Len(bytes) => room' = 0 \/ reply'.unzeroed
    /\ misused \subseteq misused' /\ misused' \subseteq Kind
    /\ "astray" \notin misused' => at + count <= chain * ClusterSize
    /\ misused' = {} =>
           \A i \in 1 .. Len(new) :
               new[i] = IF i > at /\ i <= at + count THEN bytes[i - at]
                        ELSE IF i <= Len(data[f]) THEN data[f][i] ELSE 0

LEMMA NodeFacts ==
    ASSUME FileTypes, NEW h \in DOMAIN node
    PROVE  /\ node[h].file \in DOMAIN size /\ node[h].offset \in Nat /\ node[h].offset \in Offsets
           /\ node[h].size \in Nat /\ node[h].size \in Offsets /\ node[h].size <= MaxOffset
           /\ node[h] = [file |-> node[h].file, size |-> node[h].size, offset |-> node[h].offset]
           /\ h \in Handles
  <1>1. node[h] \in [file : DOMAIN size, size : Offsets, offset : Offsets] /\ h \in Handles
    BY DEF FileTypes
  <1>2. \A k \in Offsets : k \in Nat /\ k <= MaxOffset
    BY Constants
  <1> QED
    BY <1>1, <1>2

LEMMA FirstPieceFacts ==
    ASSUME NEW at \in Nat, NEW n \in Nat
    PROVE  FirstPiece(at, n) \in Nat /\ FirstPiece(at, n) <= n
  <1>1. PICK s \in Nat : s = Skipped(at) * ClusterSize /\ s <= at /\ at <= s + ClusterSize
    BY SkippedFacts
  <1>2. PICK r \in Nat : r = ClusterSize - (at - s)
    BY <1>1, Constants
  <1>3. Min({n, r}) = IF n <= r THEN n ELSE r
    BY MinOfTwo
  <1>4. FirstPiece(at, n) = Min({n, r})
    BY <1>1, <1>2 DEF FirstPiece
  <1> QED
    BY <1>3, <1>4

LEMMA WriteFacts ==
    ASSUME FileTypes, NEW h \in DOMAIN node, NEW bytes \in Buffers,
           NEW got \in 0 .. room, NEW bad, NEW saved \in BOOLEAN,
           Write(h, bytes, got, bad, saved), node[h].offset + MaxRequest <= MaxOffset
    PROVE  \E f \in DOMAIN size, at \in Nat, chain \in Nat, count \in Nat,
              new \in Seq(Bytes), length \in Nat :
               Written(h, bytes, f, at, chain, count, new, length)
  <1> DEFINE f      == node[h].file
             at     == node[h].offset
             n      == Len(bytes)
             need   == (at + n + ClusterSize - 1) \div ClusterSize
             want   == Max({Skipped(at) + 1, need})
             chain  == Grown(Have(f), want, got)
             lost   == chain <= Skipped(at)
             end    == EndOf(at, n, chain)
             count  == IF lost THEN FirstPiece(at, n) ELSE end - at
             old    == Longer(f, chain)
             put    == [i \in DOMAIN old |->
                           IF ~lost /\ i > at /\ i <= end THEN bytes[i - at] ELSE old[i]]
             new    == Spare(old, put, bad)
             length == LengthAfter(node[h].size, at + count)
  <1>1. /\ misused' = misused \cup (If("astray", lost) \cup If("unchecked", bad # {})
                                        \cup If("unsaved", ~saved))
        /\ room' = room - (chain - Have(f))
        /\ data' = [data EXCEPT ![f] = new]
        /\ size' = IF saved THEN [size EXCEPT ![f] = length] ELSE size
        /\ node' = [node EXCEPT ![h] = [file |-> f, size |-> length, offset |-> at + count]]
        /\ reply' = [NoReply EXCEPT !.count = count, !.asked = n,
                                    !.unzeroed = Have(f) + got < want /\ got < room]
    BY DEF Write, Use
  <1>2. /\ f \in DOMAIN size /\ at \in Nat /\ n \in Nat /\ at + n <= MaxOffset
        /\ Have(f) \in Nat /\ room \in Nat /\ bytes \in Seq(Bytes)
    <2>1. bytes \in Seq(Bytes) /\ n \in Nat /\ n <= MaxRequest
      BY Constants
    <2>2. f \in DOMAIN size /\ at \in Nat
      BY NodeFacts
    <2>3. Have(f) \in Nat /\ room \in Nat
      BY <2>2 DEF FileTypes, Whole
    <2>4. at + MaxRequest <= MaxOffset
      OBVIOUS
    <2> HIDE DEF f, at, n
    <2> QED
      BY <2>1, <2>2, <2>3, <2>4, Constants
  <1>3. node[h].size \in Nat
    BY NodeFacts
  <1> HIDE DEF f, at, n
  <1>4. need \in Nat /\ at + n <= need * ClusterSize
    <2>1. PICK k \in Nat : k = at + n
      BY <1>2
    <2>2. need = (k + ClusterSize - 1) \div ClusterSize
      BY <2>1, Zenon
    <2> HIDE DEF need
    <2> QED
      BY <2>1, <2>2, NeededFacts
  <1> HIDE DEF need
  <1>5. /\ want \in Nat /\ want >= Skipped(at) + 1 /\ want >= need
    <2>1. Skipped(at) \in Nat
      BY <1>2, SkippedFacts
    <2> QED
      BY <1>4, <2>1, MaxOfTwo
  <1> HIDE DEF want
  <1>20. /\ reply'.count = count /\ reply'.bytes = <<>> /\ reply'.asked = n
         /\ reply'.unzeroed <=> Have(f) + got < want /\ got < room
    <2>1. reply' = [count |-> count, bytes |-> <<>>, asked |-> n,
                    unzeroed |-> Have(f) + got < want /\ got < room]
      BY <1>1, Zenon DEF NoReply
    <2> QED
      BY <2>1
  <1>6. /\ chain \in Nat /\ Have(f) <= chain /\ room' \in Nat
        /\ chain < want => room' = 0 \/ reply'.unzeroed
    <2>1. /\ chain \in Nat /\ Have(f) <= chain /\ room - (chain - Have(f)) \in Nat
          /\ chain < want =>
                 room - (chain - Have(f)) = 0 \/ (Have(f) + got < want /\ got < room)
      <3>1. PICK have \in Nat, w \in Nat : have = Have(f) /\ w = want
        BY <1>2, <1>5
      <3>2. chain = Grown(have, w, got)
        BY <3>1, Zenon
      <3> HIDE DEF chain
      <3> QED
        BY <1>2, <3>1, <3>2, GrownFacts
    <2> QED
      BY <1>1, <1>20, <2>1
  <1> HIDE DEF chain
  <1>7. (lost <=> chain <= Skipped(at)) /\ Skipped(at) \in Nat
    BY <1>2, SkippedFacts
  <1>8. PICK hold \in Nat : hold = chain * ClusterSize
    BY <1>6, OneMore
  <1>9. ~lost => at <= hold
    <2>1. SUFFICES ASSUME ~lost PROVE at <= hold
      OBVIOUS
    <2>2. Skipped(at) + 1 <= chain
      BY <1>6, <1>7, <2>1
    <2>3. (Skipped(at) + 1) * ClusterSize <= hold
      BY <1>6, <1>7, <1>8, <2>2, Monotone
    <2>4. /\ (Skipped(at) + 1) * ClusterSize = Skipped(at) * ClusterSize + ClusterSize
          /\ Skipped(at) * ClusterSize \in Nat
      BY <1>7, OneMore
    <2>5. at <= Skipped(at) * ClusterSize + ClusterSize
      BY <1>2, SkippedFacts
    <2> QED
      BY <1>2, <1>8, <2>3, <2>4, <2>5, Constants
  <1> HIDE DEF lost
  <1>10. end \in Nat /\ end = IF at + n <= hold THEN at + n ELSE hold
    BY <1>2, <1>8, MinOfTwo DEF EndOf
  <1> HIDE DEF end
  <1>11. /\ count \in Nat /\ count <= n
         /\ ~lost => at + count = end
    <2>1. CASE lost
      <3>1. count = FirstPiece(at, n)
        BY <2>1
      <3> QED
        BY <1>2, <2>1, <3>1, FirstPieceFacts
    <2>2. CASE ~lost
      <3>1. count = end - at
        BY <2>2
      <3> HIDE DEF count
      <3> QED
        BY <1>2, <1>8, <1>9, <1>10, <2>2, <3>1
    <2> QED
      BY <2>1, <2>2
  <1>12. count < n => room' = 0 \/ reply'.unzeroed
    <2>1. CASE lost
      BY <1>5, <1>6, <1>7, <2>1
    <2>2. CASE ~lost /\ count < n
      <3>1. hold < at + n
        BY <1>2, <1>10, <1>11, <2>2
      <3>2. ~(need <= chain)
        <4>1. need <= chain => need * ClusterSize <= hold
          BY <1>4, <1>6, <1>8, Monotone
        <4>2. PICK w \in Nat : w = need * ClusterSize
          BY <1>4, OneMore
        <4> QED
          BY <1>2, <1>4, <1>8, <3>1, <4>1, <4>2
      <3> QED
        BY <1>4, <1>5, <1>6, <3>2
    <2> QED
      BY <1>7, <2>1, <2>2
  <1> HIDE DEF count
  <1>13. /\ old \in Seq(Bytes) /\ Len(old) = hold
         /\ Len(data[f]) \in Nat /\ Len(data[f]) <= hold
         /\ \A i \in 1 .. hold : old[i] = IF i <= Len(data[f]) THEN data[f][i] ELSE 0
    BY <1>2, <1>6, <1>8, LongerFacts
  <1> HIDE DEF old
  <1>14. DOMAIN old = 1 .. hold
    BY <1>8, <1>13
  <1>15. \A i \in 1 .. hold : put[i] \in Bytes
    <2>1. SUFFICES ASSUME NEW i \in 1 .. hold PROVE put[i] \in Bytes
      OBVIOUS
    <2>2. CASE ~lost /\ i > at /\ i <= end
      <3>1. i - at \in 1 .. Len(bytes)
        BY <1>2, <1>10, <2>2 DEF n
      <3> QED
        BY <1>2, <1>14, <2>2, <3>1
    <2>3. CASE ~(~lost /\ i > at /\ i <= end)
      BY <1>13, <1>14, <2>3
    <2> QED
      BY <2>2, <2>3
  <1>16. /\ DOMAIN put = 1 .. hold
         /\ \A i \in 1 .. hold :
                put[i] = IF ~lost /\ i > at /\ i <= end THEN bytes[i - at] ELSE old[i]
    BY <1>14
  <1> HIDE DEF put
  <1>17. new \in Seq(Bytes) /\ Len(new) = hold
    <2>1. new = [i \in 1 .. hold |->
                    IF (i - 1) \div ClusterSize \in bad THEN old[i] ELSE put[i]]
      BY <1>16 DEF Spare
    <2>2. \A i \in 1 .. hold : old[i] \in Bytes /\ put[i] \in Bytes
      BY <1>13, <1>15
    <2>3. new \in [1 .. hold -> Bytes]
      BY <2>1, <2>2
    <2> HIDE DEF new
    <2> QED
      BY <1>8, <2>3
  <1>18. bad = {} => \A i \in 1 .. hold : new[i] = put[i]
    BY <1>16 DEF Spare
  <1> HIDE DEF new
  <1>19. length \in Nat /\ length = IF node[h].size >= at + count THEN node[h].size ELSE at + count
    BY <1>2, <1>3, <1>11, MaxOfTwo DEF LengthAfter
  <1> HIDE DEF length
  <1>21. /\ misused \subseteq misused' /\ misused' \subseteq Kind
         /\ "astray" \notin misused' => ~lost
         /\ misused' = {} => ~lost /\ bad = {}
         /\ ~saved => misused' # {}
    BY <1>1 DEF If, FileTypes, Kind
  <1>22. misused' = {} =>
             \A i \in 1 .. Len(new) :
                 new[i] = IF i > at /\ i <= at + count THEN bytes[i - at]
                          ELSE IF i <= Len(data[f]) THEN data[f][i] ELSE 0
    BY <1>11, <1>13, <1>16, <1>17, <1>18, <1>21
  <1>23. "astray" \notin misused' => at + count <= hold
    BY <1>2, <1>8, <1>10, <1>11, <1>21
  <1>24. at + count <= MaxOffset
    BY <1>2, <1>11, Constants
  <1>24a. size' = [size EXCEPT ![f] = length] \/ (size' = size /\ misused' # {})
    BY <1>1, <1>21
  <1>25. Written(h, bytes, f, at, chain, count, new, length)
    BY <1>1, <1>24a, <1>6, <1>8, <1>11, <1>12, <1>17, <1>19, <1>20, <1>21, <1>22, <1>23, <1>24
       DEF Written, f, at, n
  <1> QED
    BY <1>2, <1>6, <1>11, <1>17, <1>19, <1>25

-----------------------------------------------------------------------------
(***************************************************************************)
(* What a read does.                                                       *)
(***************************************************************************)
HasRead(h, n, f, at, chain, count, new) ==
    /\ f = node[h].file /\ at = node[h].offset
    /\ Have(f) <= chain /\ Len(new) = chain * ClusterSize
    /\ \A i \in 1 .. Len(new) : new[i] = IF i <= Len(data[f]) THEN data[f][i] ELSE 0
    /\ at + count <= MaxOffset
    /\ data' = [data EXCEPT ![f] = new]
    /\ size' = size
    /\ node' = [node EXCEPT ![h].offset = at + count]
    /\ room' \in Nat
    /\ reply'.count = count /\ reply'.asked = 0
    /\ misused \subseteq misused' /\ misused' \subseteq Kind
    /\ misused' = {} /\ node[h].size <= Len(data[f]) =>
           /\ at <= node[h].size
           /\ new = data[f]
           /\ count = IF n < node[h].size - at THEN n ELSE node[h].size - at
           /\ reply'.bytes = [i \in 1 .. count |-> data[f][at + i]]

(* What is left of a file, unless a node is behind its end.                 *)
LEMMA LeftFacts ==
    ASSUME NEW length \in Nat, NEW at \in Nat, length <= MaxOffset
    PROVE  /\ Left(length, at) \in Nat
           /\ at <= length => Left(length, at) = length - at
  <1>1. Wrap \in Nat \ {0} /\ length < Wrap
    BY Constants
  <1>2. (length - at) % Wrap \in Nat
    BY <1>1
  <1>3. ASSUME at <= length
        PROVE  (length - at) % Wrap = length - at
    <2>1. PICK d \in Nat : d = length - at /\ d < Wrap
      BY <1>1, <1>3
    <2>2. d % Wrap = d
      BY <1>1, <2>1
    <2> QED
      BY <2>1, <2>2
  <1> QED
    BY <1>2, <1>3 DEF Left

LEMMA ReadFacts ==
    ASSUME FileTypes, NEW h \in DOMAIN node, NEW n \in Requests,
           NEW got \in 0 .. room, NEW bad,
           Read(h, n, got, bad), node[h].offset + MaxRequest <= MaxOffset
    PROVE  \E f \in DOMAIN size, at \in Nat, chain \in Nat, count \in Nat, new \in Seq(Bytes) :
               HasRead(h, n, f, at, chain, count, new)
  <1> DEFINE f     == node[h].file
             at    == node[h].offset
             m     == Min({n, Left(node[h].size, at)})
             chain == Grown(Have(f), Skipped(at) + 1, got)
             new   == Longer(f, chain)
             lost  == chain <= Skipped(at)
             there == Len(new) - at
             count == IF lost THEN FirstPiece(at, m)
                      ELSE IF m <= there THEN m
                      ELSE there + Min({ClusterSize, m - there})
             found == [i \in 1 .. count |->
                          IF at + i > Len(new) \/ (at + i - 1) \div ClusterSize \in bad
                          THEN Untouched ELSE new[at + i]]
  <1>1. /\ misused' = misused \cup (If("behind", at > node[h].size) \cup If("unchecked", bad # {}))
        /\ room' = room - (chain - Have(f))
        /\ data' = [data EXCEPT ![f] = new]
        /\ size' = size
        /\ node' = [node EXCEPT ![h].offset = at + count]
        /\ reply' = [NoReply EXCEPT !.count = count, !.bytes = found]
    BY DEF Read, Use
  <1>2. /\ f \in DOMAIN size /\ at \in Nat /\ n \in Nat /\ n <= MaxRequest
        /\ at + n <= MaxOffset
        /\ Have(f) \in Nat \ {0} /\ room \in Nat
        /\ Len(data[f]) = Have(f) * ClusterSize /\ Len(data[f]) \in Nat
    <2>1. n \in Nat /\ n <= MaxRequest
      BY Constants DEF Requests
    <2>2. f \in DOMAIN size /\ at \in Nat
      BY NodeFacts
    <2>3. /\ Have(f) \in Nat \ {0} /\ room \in Nat
          /\ Len(data[f]) = Have(f) * ClusterSize /\ Len(data[f]) \in Nat
      BY <2>2 DEF FileTypes, Whole
    <2>4. at + MaxRequest <= MaxOffset
      OBVIOUS
    <2> HIDE DEF f, at
    <2> QED
      BY <2>1, <2>2, <2>3, <2>4, Constants
  <1>3. node[h].size \in Nat /\ node[h].size <= MaxOffset
    BY NodeFacts
  <1> HIDE DEF f, at
  <1>4. PICK left \in Nat : /\ left = Left(node[h].size, at)
                            /\ at <= node[h].size => left = node[h].size - at
    BY <1>2, <1>3, LeftFacts
  <1>5. m \in Nat /\ m <= n /\ m = IF n <= left THEN n ELSE left
    BY <1>2, <1>4, MinOfTwo
  <1> HIDE DEF m
  <1>6. Skipped(at) \in Nat
    BY <1>2, SkippedFacts
  <1>7. /\ chain \in Nat /\ Have(f) <= chain /\ room' \in Nat
        /\ Skipped(at) + 1 <= Have(f) => chain = Have(f)
    <2>1. PICK want \in Nat : want = Skipped(at) + 1
      BY <1>6
    <2>2. chain = Grown(Have(f), want, got)
      BY <2>1
    <2> HIDE DEF chain
    <2> QED
      BY <1>1, <1>2, <2>1, <2>2, GrownFacts
  <1> HIDE DEF chain
  <1>8. PICK hold \in Nat : hold = chain * ClusterSize
    BY <1>7, OneMore
  <1>9. /\ new \in Seq(Bytes) /\ Len(new) = hold
        /\ \A i \in 1 .. hold : new[i] = IF i <= Len(data[f]) THEN data[f][i] ELSE 0
        /\ chain = Have(f) => new = data[f]
    BY <1>2, <1>7, <1>8, LongerFacts
  <1> HIDE DEF new
  <1>10. lost <=> chain <= Skipped(at)
    OBVIOUS
  <1>11. ~lost => at <= hold
    <2>1. SUFFICES ASSUME ~lost PROVE at <= hold
      OBVIOUS
    <2>2. Skipped(at) + 1 <= chain
      BY <1>6, <1>7, <1>10, <2>1
    <2>3. (Skipped(at) + 1) * ClusterSize <= hold
      BY <1>6, <1>7, <1>8, <2>2, Monotone
    <2>4. /\ (Skipped(at) + 1) * ClusterSize = Skipped(at) * ClusterSize + ClusterSize
          /\ Skipped(at) * ClusterSize \in Nat
      BY <1>6, OneMore
    <2>5. at <= Skipped(at) * ClusterSize + ClusterSize
      BY <1>2, SkippedFacts
    <2> QED
      BY <1>2, <1>8, <2>3, <2>4, <2>5, Constants
  <1> HIDE DEF lost
  <1>12. there = hold - at
    BY <1>9
  <1> HIDE DEF there
  <1>13. count \in Nat /\ count <= m
    <2>1. CASE lost
      <3>1. count = FirstPiece(at, m)
        BY <2>1
      <3> QED
        BY <1>2, <1>5, <3>1, FirstPieceFacts
    <2>2. CASE ~lost /\ m <= there
      <3>1. count = m
        BY <2>2
      <3> QED
        BY <1>5, <3>1
    <2>3. CASE ~lost /\ ~(m <= there)
      <3>1. count = there + Min({ClusterSize, m - there})
        BY <2>3
      <3>2. PICK t \in Nat, r \in Nat : t = there /\ r = m - there
        BY <1>2, <1>5, <1>8, <1>11, <1>12, <2>3
      <3>3. Min({ClusterSize, r}) = IF ClusterSize <= r THEN ClusterSize ELSE r
        BY MinOfTwo, Constants
      <3> HIDE DEF count
      <3> QED
        BY <1>5, <3>1, <3>2, <3>3, Constants
    <2> QED
      BY <2>1, <2>2, <2>3
  <1>14. ASSUME at <= node[h].size, node[h].size <= Len(data[f])
         PROVE  new = data[f] /\ count = m /\ at + m <= Len(new)
    <2>1. Skipped(at) + 1 <= Have(f)
      <3>1. at <= Have(f) * ClusterSize
        BY <1>2, <1>3, <1>14
      <3> QED
        BY <1>2, <3>1, SkippedWithin
    <2>2. chain = Have(f) /\ new = data[f] /\ hold = Len(data[f]) /\ ~lost
      BY <1>2, <1>6, <1>7, <1>8, <1>9, <1>10, <2>1
    <2>3. m <= there /\ at + m <= hold
      <3>1. m <= left /\ left = node[h].size - at
        BY <1>4, <1>5, <1>14
      <3>2. node[h].size <= hold
        BY <1>14, <2>2
      <3>3. m \in Nat /\ at \in Nat /\ hold \in Nat /\ node[h].size \in Nat
        BY <1>2, <1>3, <1>5, <1>8
      <3>4. at + m <= hold
        BY <3>1, <3>2, <3>3
      <3> QED
        BY <1>12, <3>3, <3>4
    <2> QED
      BY <1>9, <2>2, <2>3
  <1> HIDE DEF count
  <1>15. at + count <= MaxOffset
    BY <1>2, <1>5, <1>13, Constants
  <1>16. /\ misused \subseteq misused' /\ misused' \subseteq Kind
         /\ misused' = {} => ~(at > node[h].size) /\ bad = {}
    BY <1>1 DEF If, FileTypes, Kind
  <1>17. reply'.count = count /\ reply'.asked = 0 /\ reply'.bytes = found
    <2>1. reply' = [count |-> count, bytes |-> found, asked |-> 0, unzeroed |-> FALSE]
      BY <1>1, Zenon DEF NoReply
    <2> QED
      BY <2>1
  <1>18. ASSUME misused' = {}, node[h].size <= Len(data[f])
         PROVE  /\ at <= node[h].size
                /\ new = data[f]
                /\ count = IF n < node[h].size - at THEN n ELSE node[h].size - at
                /\ found = [i \in 1 .. count |-> data[f][at + i]]
    <2>1. at <= node[h].size /\ bad = {}
      BY <1>2, <1>3, <1>16, <1>18
    <2>2. new = data[f] /\ count = m /\ at + m <= Len(new)
      BY <1>14, <1>18, <2>1
    <2>3. m = IF n < node[h].size - at THEN n ELSE node[h].size - at
      BY <1>2, <1>3, <1>4, <1>5, <2>1
    <2>4. ASSUME NEW i \in 1 .. count
          PROVE  ~(at + i > Len(new))
      BY <1>2, <1>5, <1>8, <1>9, <2>2
    <2>5. found = [i \in 1 .. count |-> data[f][at + i]]
      BY <2>1, <2>2, <2>4
    <2> QED
      BY <2>1, <2>2, <2>3, <2>5
  <1> HIDE DEF found
  <1>19. HasRead(h, n, f, at, chain, count, new)
    BY <1>1, <1>7, <1>8, <1>9, <1>15, <1>16, <1>17, <1>18 DEF HasRead, f, at
  <1> QED
    BY <1>2, <1>7, <1>9, <1>13, <1>19

-----------------------------------------------------------------------------
(***************************************************************************)
(* The steps that leave the bytes of files as they are.                    *)
(***************************************************************************)
Content == [f \in DOMAIN size |-> SubSeq(data[f], 1, size[f])]

Handle == [h \in DOMAIN node |-> [file |-> node[h].file, at |-> node[h].offset]]

Reply == [count |-> reply.count, bytes |-> reply.bytes]

(* A step of FileSpec, unless something unusual has occurred.               *)
Allowed == misused' # {} \/ (misused = {} /\ Spf!Promised)

LEMMA InitFInv == Init => FInv /\ Spf!FileInit
  <1> SUFFICES ASSUME Init PROVE FInv /\ Spf!FileInit
    OBVIOUS
  <1>1. /\ DOMAIN size = {} /\ DOMAIN data = {} /\ DOMAIN node = {}
        /\ size = [f \in {} |-> 0] /\ data = [f \in {} |-> <<>>]
        /\ node = [h \in {} |-> [file |-> 0, size |-> 0, offset |-> 0]]
        /\ reply.count = 0 /\ reply.bytes = <<>> /\ reply.asked = 0
        /\ room \in Nat /\ misused = {}
    BY Constants DEF Init, NoReply
  <1>2. FileTypes
    BY <1>1 DEF FileTypes
  <1>3. SizeWithinChain /\ ShortWriteMeansNoCluster /\ Usual
    BY <1>1 DEF SizeWithinChain, ShortWriteMeansNoCluster, Usual, Alone, Current, Tails
  <1>4. Spf!FileInit
    BY <1>1 DEF Spf!FileInit, Spf!NoReply
  <1> QED
    BY <1>2, <1>3, <1>4 DEF FInv

(* A new node.                                                              *)
LEMMA NodeForFacts ==
    ASSUME FileTypes, NEW h \in Handles, NEW f, NEW bytes \in Offsets, NodeFor(h, f, bytes)
    PROVE  /\ reply'.count = 0 /\ reply'.bytes = <<>> /\ reply'.asked = 0
           /\ misused \subseteq misused' /\ misused' \subseteq Kind
           /\ misused' = {} => \A x \in DOMAIN node : x # h => node[x].file # f
  BY DEF NodeFor, Use, If, NoReply, FileTypes, Kind

LEMMA OpenFileStep ==
    ASSUME FInv, NEW h \in Handles, NEW f \in Files, OpenFile(h, f)
    PROVE  FInv' /\ Allowed
  <1>1. /\ f \in DOMAIN size /\ NodeFor(h, f, size[f])
        /\ size' = size /\ data' = data /\ room' = room
    BY DEF OpenFile
  <1>2. FileTypes /\ size[f] \in Offsets
    BY <1>1 DEF FInv, FileTypes
  <1>3. PICK bytes \in Offsets : bytes = size[f]
    BY <1>2
  <1>4. NodeFor(h, f, bytes)
    BY <1>1, <1>3
  <1>5. PICK at \in Offsets :
            node' = [x \in DOMAIN node \cup {h} |->
                        IF x = h THEN [file |-> f, size |-> bytes, offset |-> at]
                        ELSE node[x]]
    BY <1>4 DEF NodeFor
  <1>6. /\ reply'.count = 0 /\ reply'.bytes = <<>> /\ reply'.asked = 0
        /\ misused \subseteq misused' /\ misused' \subseteq Kind
        /\ misused' = {} => \A x \in DOMAIN node : x # h => node[x].file # f
    BY <1>2, <1>3, <1>4, NodeForFacts
  <1>7. FileTypes'
    <2>1. DOMAIN node' \subseteq Handles
      BY <1>2, <1>3, <1>5 DEF FileTypes
    <2>2. node' \in [DOMAIN node' -> [file : DOMAIN size, size : Offsets, offset : Offsets]]
      BY <1>1, <1>2, <1>3, <1>5 DEF FileTypes
    <2>3. \A x \in DOMAIN size : Whole(x)'
      BY <1>1, <1>2 DEF FileTypes, Whole, Have
    <2> QED
      BY <1>1, <1>2, <1>6, <2>1, <2>2, <2>3 DEF FileTypes, Kind
  <1>8. SizeWithinChain'
    BY <1>1, <1>3, <1>5, <1>6 DEF FInv, SizeWithinChain
  <1>9. ShortWriteMeansNoCluster'
    BY <1>6 DEF ShortWriteMeansNoCluster
  <1>10. Usual'
    <2>1. SUFFICES ASSUME misused' = {} PROVE (Alone /\ Current /\ Tails)'
      BY DEF Usual
    <2>2. misused = {} /\ Alone /\ Current /\ Tails
      BY <1>6, <2>1 DEF FInv, Usual
    <2>3. Alone'
      BY <1>3, <1>5, <1>6, <2>1, <2>2 DEF Alone
    <2>4. Current'
      BY <1>1, <1>3, <1>5, <2>2 DEF Current
    <2>5. Tails'
      BY <1>1, <2>2 DEF Tails
    <2> QED
      BY <2>3, <2>4, <2>5
  <1>11. Allowed
    <2>1. SUFFICES ASSUME misused' = {} PROVE misused = {} /\ Spf!Promised
      BY DEF Allowed
    <2>2. Spf!Open(h, f)
      BY <1>1, <1>3, <1>5, <1>6 DEF Spf!Open, Spf!OpenAt, Spf!NoReply
    <2> QED
      BY <1>6, <2>1, <2>2 DEF Spf!Promised
  <1> QED
    BY <1>7, <1>8, <1>9, <1>10, <1>11 DEF FInv

LEMMA ForgetStep ==
    ASSUME FInv, NEW h \in DOMAIN node, Forget(h)
    PROVE  FInv' /\ Allowed
  <1>1. /\ node' = [x \in DOMAIN node \ {h} |-> node[x]]
        /\ reply'.count = 0 /\ reply'.bytes = <<>> /\ reply'.asked = 0
        /\ size' = size /\ data' = data /\ room' = room /\ misused' = misused
    BY DEF Forget, NoReply
  <1>2. FileTypes'
    BY <1>1 DEF FInv, FileTypes, Whole, Have
  <1>3. SizeWithinChain' /\ ShortWriteMeansNoCluster'
    BY <1>1 DEF FInv, SizeWithinChain, ShortWriteMeansNoCluster
  <1>4. Usual'
    BY <1>1 DEF FInv, Usual, Alone, Current, Tails
  <1>5. Spf!Drop(h)
    BY <1>1 DEF Spf!Drop, Spf!NoReply
  <1>6. Allowed
    BY <1>1, <1>5 DEF Allowed, Spf!Promised
  <1> QED
    BY <1>2, <1>3, <1>4, <1>6 DEF FInv

(* A node that goes to another offset is a handle that does.               *)
LEMMA HandleMoves ==
    ASSUME NEW h \in DOMAIN node, NEW end, DOMAIN node' = DOMAIN node,
           \A x \in DOMAIN node :
               /\ node'[x].file = node[x].file
               /\ node'[x].offset = IF x = h THEN end ELSE node[x].offset
    PROVE  Handle' = [Handle EXCEPT ![h].at = end]
  <1>1. PICK H : H = Handle
    OBVIOUS
  <1>2. /\ H = [x \in DOMAIN node |-> H[x]]
        /\ \A x \in DOMAIN node : H[x] = [file |-> node[x].file, at |-> node[x].offset]
    BY <1>1 DEF Handle
  <1>3. Handle' = [x \in DOMAIN node |->
                      [file |-> node[x].file, at |-> IF x = h THEN end ELSE node[x].offset]]
    BY DEF Handle
  <1>4. [H[h] EXCEPT !.at = end] = [file |-> node[h].file, at |-> end]
    <2>1. PICK f, a : H[h] = [file |-> f, at |-> a] /\ f = node[h].file
      BY <1>2
    <2>2. [H[h] EXCEPT !.at = end] = [file |-> f, at |-> end]
      BY <2>1
    <2> QED
      BY <2>1, <2>2
  <1>5. Handle' = [H EXCEPT ![h] = [H[h] EXCEPT !.at = end]]
    BY <1>2, <1>3, <1>4
  <1> QED
    BY <1>1, <1>5

LEMMA SeekStep ==
    ASSUME FInv, NEW h \in DOMAIN node, NEW offset, Seek(h, offset)
    PROVE  FInv' /\ Allowed
  <1>1. PICK at \in Offsets :
            /\ node' = [node EXCEPT ![h].offset = at]
            /\ reply'.count = at /\ reply'.bytes = <<>> /\ reply'.asked = 0
            /\ size' = size /\ data' = data /\ room' = room /\ misused' = misused
    BY DEF Seek, NoReply
  <1>2. at \in Nat
    BY Constants
  <1>3. /\ DOMAIN node' = DOMAIN node
        /\ \A x \in DOMAIN node :
               /\ node'[x].file = node[x].file /\ node'[x].size = node[x].size
               /\ node'[x].offset = IF x = h THEN at ELSE node[x].offset
    BY <1>1 DEF FInv, FileTypes
  <1>4. FileTypes'
    <2>1. FileTypes
      BY DEF FInv
    <2>2. node' \in [DOMAIN node' -> [file : DOMAIN size', size : Offsets, offset : Offsets]]
      BY <1>1, <2>1 DEF FileTypes
    <2>3. \A f \in DOMAIN size' : Whole(f)'
      BY <1>1, <2>1 DEF FileTypes, Whole, Have
    <2> QED
      BY <1>1, <1>2, <1>3, <2>1, <2>2, <2>3 DEF FileTypes
  <1>5. SizeWithinChain' /\ ShortWriteMeansNoCluster'
    BY <1>1, <1>2, <1>3 DEF FInv, SizeWithinChain, ShortWriteMeansNoCluster
  <1>6. Usual'
    BY <1>1, <1>3 DEF FInv, Usual, Alone, Current, Tails
  <1>7. Spf!Seek(h)
    <2>1. Handle' = [Handle EXCEPT ![h].at = at]
      BY <1>3, HandleMoves
    <2>2. Handle'[h].at = at
      BY <1>3 DEF Handle
    <2>3. Reply' = [[count |-> 0, bytes |-> <<>>] EXCEPT !.count = Handle'[h].at]
      BY <1>1, <2>2 DEF Reply
    <2> QED
      BY <1>1, <2>1, <2>3 DEF Spf!Seek, Spf!NoReply, Handle, Reply
  <1>8. Allowed
    BY <1>1, <1>7 DEF Allowed, Spf!Promised
  <1> QED
    BY <1>4, <1>5, <1>6, <1>8 DEF FInv

LEMMA Quotient ==
    ASSUME NEW k \in Nat
    PROVE  (k * ClusterSize) \div ClusterSize = k
  <1>1. PICK q \in Nat, n \in Nat :
            /\ n = k * ClusterSize /\ q = n \div ClusterSize
            /\ q * ClusterSize <= n /\ n < q * ClusterSize + ClusterSize
    BY OneMore, Divided
  <1>2. k <= q
    <2>1. ~(q + 1 <= k)
      <3>1. q + 1 <= k => (q + 1) * ClusterSize <= k * ClusterSize
        BY Monotone
      <3>2. (q + 1) * ClusterSize = q * ClusterSize + ClusterSize /\ q * ClusterSize \in Nat
        BY OneMore
      <3> QED
        BY <1>1, <3>1, <3>2, Constants
    <2> QED
      BY <2>1
  <1>3. q <= k
    <2>1. ~(k + 1 <= q)
      <3>1. k + 1 <= q => (k + 1) * ClusterSize <= q * ClusterSize
        BY Monotone
      <3>2. (k + 1) * ClusterSize = k * ClusterSize + ClusterSize /\ q * ClusterSize \in Nat
        BY OneMore
      <3> QED
        BY <1>1, <3>1, <3>2, Constants
    <2> QED
      BY <2>1
  <1> QED
    BY <1>1, <1>2, <1>3

(* A file that gets k clusters has k clusters.                              *)
LEMMA WholeAfter ==
    ASSUME NEW f, NEW k \in Nat, k > 0, Len(data'[f]) = k * ClusterSize
    PROVE  Whole(f)' /\ Have(f)' = k
  <1>1. Have(f)' = Len(data'[f]) \div ClusterSize
    BY DEF Have
  <1>2. Have(f)' = k
    BY <1>1, Quotient
  <1> QED
    BY <1>2 DEF Whole

-----------------------------------------------------------------------------
(***************************************************************************)
(* Files come and go.                                                      *)
(***************************************************************************)
LEMMA CreateFileStep ==
    ASSUME FInv, NEW h \in Handles, NEW f \in Files, CreateFile(h, f)
    PROVE  FInv' /\ Allowed
  <1>1. /\ f \notin DOMAIN size /\ NodeFor(h, f, 0)
        /\ size' = [x \in DOMAIN size \cup {f} |-> IF x = f THEN 0 ELSE size[x]]
        /\ room' = room - 1 /\ room > 0
    BY DEF CreateFile
  <1>2. FileTypes /\ DOMAIN data = DOMAIN size
    BY DEF FInv, FileTypes
  <1>3. PICK zeroes : zeroes = Zeroes(1)
    OBVIOUS
  <1>4. data' = [x \in DOMAIN size \cup {f} |-> IF x = f THEN zeroes ELSE data[x]]
    BY <1>2, <1>3 DEF CreateFile
  <1>5. zeroes = [i \in 1 .. ClusterSize |-> 0]
    <2>1. 1 * ClusterSize = ClusterSize
      BY Constants
    <2> QED
      BY <1>3, <2>1 DEF Zeroes
  <1>6. zeroes \in Seq(Bytes) /\ Len(zeroes) = ClusterSize
    BY <1>5, Constants
  <1>7. PICK at \in Offsets :
            node' = [x \in DOMAIN node \cup {h} |->
                        IF x = h THEN [file |-> f, size |-> 0, offset |-> at]
                        ELSE node[x]]
    BY <1>1 DEF NodeFor
  <1>8. /\ reply'.count = 0 /\ reply'.bytes = <<>> /\ reply'.asked = 0
        /\ misused \subseteq misused' /\ misused' \subseteq Kind
    <2>1. 0 \in Offsets
      BY Constants
    <2> QED
      BY <1>1, <1>2, <2>1, NodeForFacts
  <1>9. \A x \in DOMAIN node : node[x].file \in DOMAIN size /\ node[x].file # f
    BY <1>1, <1>2 DEF FileTypes
  <1>10. FileTypes'
    <2>1. DOMAIN size' = DOMAIN size \cup {f} /\ DOMAIN node' \subseteq Handles
      BY <1>1, <1>2, <1>7 DEF FileTypes
    <2>2. DOMAIN size' \subseteq Files
      BY <1>2, <2>1 DEF FileTypes
    <2>3. size' \in [DOMAIN size' -> Offsets]
      <3>1. 0 \in Offsets
        BY Constants
      <3> QED
        BY <1>1, <1>2, <2>1, <3>1 DEF FileTypes
    <2>4. data' \in [DOMAIN size' -> Seq(Bytes)]
      BY <1>2, <1>4, <1>6, <2>1 DEF FileTypes
    <2>5. node' \in [DOMAIN node' -> [file : DOMAIN size', size : Offsets, offset : Offsets]]
      <3>1. 0 \in Offsets
        BY Constants
      <3> QED
        BY <1>2, <1>7, <2>1, <3>1 DEF FileTypes
    <2>6. \A x \in DOMAIN size' : Whole(x)'
      <3>1. Whole(f)'
        <4>1. Len(data'[f]) = 1 * ClusterSize
          BY <1>4, <1>6, Constants
        <4> QED
          BY <4>1, WholeAfter
      <3>2. ASSUME NEW x \in DOMAIN size
            PROVE  Whole(x)'
        <4>1. data'[x] = data[x] /\ Whole(x)
          BY <1>1, <1>2, <1>4 DEF FileTypes
        <4> QED
          BY <4>1 DEF Whole, Have
      <3> QED
        BY <2>1, <3>1, <3>2
    <2>7. room' \in Nat
      BY <1>1, <1>2 DEF FileTypes
    <2> QED
      BY <1>8, <2>1, <2>2, <2>3, <2>4, <2>5, <2>6, <2>7 DEF FileTypes, Kind
  <1>11. \A x \in DOMAIN size' :
             /\ x = f => size'[x] = 0 /\ data'[x] = zeroes
             /\ x # f => x \in DOMAIN size /\ size'[x] = size[x] /\ data'[x] = data[x]
    BY <1>1, <1>4
  <1>12. \A x \in DOMAIN node' :
             /\ x = h => node'[x].file = f /\ node'[x].size = 0
             /\ x # h => x \in DOMAIN node /\ node'[x] = node[x]
    BY <1>7
  <1>13. DOMAIN size' = DOMAIN size \cup {f}
    BY <1>1
  <1>14. SizeWithinChain'
    <2>1. SUFFICES ASSUME "astray" \notin misused'
                   PROVE  /\ \A x \in DOMAIN size' : size'[x] <= Len(data'[x])
                          /\ \A x \in DOMAIN node' : node'[x].size <= Len(data'[node'[x].file])
      BY DEF SizeWithinChain
    <2>2. /\ \A x \in DOMAIN size : size[x] <= Len(data[x])
          /\ \A x \in DOMAIN node : node[x].size <= Len(data[node[x].file])
      BY <1>8, <2>1 DEF FInv, SizeWithinChain
    <2>3. ASSUME NEW x \in DOMAIN size' PROVE size'[x] <= Len(data'[x])
      <3>1. CASE x = f
        <4>1. 0 <= ClusterSize
          BY Constants
        <4> QED
          BY <1>6, <1>11, <3>1, <4>1
      <3>2. CASE x # f
        BY <1>11, <2>2, <3>2
      <3> QED
        BY <3>1, <3>2
    <2>4. ASSUME NEW x \in DOMAIN node' PROVE node'[x].size <= Len(data'[node'[x].file])
      <3>1. CASE x = h
        <4>1. node'[x].file = f /\ node'[x].size = 0 /\ f \in DOMAIN size'
          BY <1>12, <1>13, <3>1
        <4>2. data'[f] = zeroes /\ 0 <= ClusterSize
          BY <1>11, <4>1, Constants
        <4> QED
          BY <1>6, <4>1, <4>2
      <3>2. CASE x # h
        <4>1. x \in DOMAIN node /\ node'[x] = node[x]
          BY <1>12, <3>2
        <4>2. node[x].file \in DOMAIN size' /\ node[x].file # f
          BY <1>9, <1>13, <4>1
        <4>3. data'[node[x].file] = data[node[x].file]
          BY <1>11, <4>2
        <4> QED
          BY <2>2, <4>1, <4>3
      <3> QED
        BY <3>1, <3>2
    <2> QED
      BY <2>3, <2>4
  <1>15. ShortWriteMeansNoCluster'
    BY <1>8 DEF ShortWriteMeansNoCluster
  <1>16. Usual'
    <2>1. SUFFICES ASSUME misused' = {} PROVE (Alone /\ Current /\ Tails)'
      BY DEF Usual
    <2>2. misused = {} /\ Alone /\ Current /\ Tails
      BY <1>8, <2>1 DEF FInv, Usual
    <2>3. Alone'
      BY <1>9, <1>12, <2>2 DEF Alone
    <2>4. Current'
      BY <1>9, <1>11, <1>12, <1>13, <2>2 DEF Current
    <2>5. ASSUME NEW x \in DOMAIN size', NEW i \in 1 .. Len(data'[x]), i > size'[x]
          PROVE  data'[x][i] = 0
      <3>1. CASE x = f
        <4>1. data'[x] = zeroes /\ i \in 1 .. ClusterSize
          BY <1>6, <1>11, <2>5, <3>1
        <4> QED
          BY <1>5, <4>1
      <3>2. CASE x # f
        <4>1. x \in DOMAIN size /\ size'[x] = size[x] /\ data'[x] = data[x]
          BY <1>11, <2>5, <3>2
        <4> QED
          BY <2>2, <2>5, <4>1 DEF Tails
      <3> QED
        BY <3>1, <3>2
    <2>6. Tails'
      BY <2>5 DEF Tails
    <2> QED
      BY <2>3, <2>4, <2>6
  <1>17. Allowed
    <2>1. SUFFICES ASSUME misused' = {} PROVE misused = {} /\ Spf!Promised
      BY DEF Allowed
    <2>2. Content' = [x \in DOMAIN Content \cup {f} |-> IF x = f THEN <<>> ELSE Content[x]]
      <3>1. SubSeq(zeroes, 1, 0) = <<>>
        BY <1>6
      <3>2. Content' = [x \in DOMAIN size \cup {f} |-> SubSeq(data'[x], 1, size'[x])]
        BY <1>13 DEF Content
      <3>3. ASSUME NEW x \in DOMAIN size \cup {f}
            PROVE  SubSeq(data'[x], 1, size'[x]) = IF x = f THEN <<>> ELSE Content[x]
        BY <1>11, <1>13, <3>1 DEF Content
      <3> QED
        BY <3>2, <3>3 DEF Content
    <2>3. Spf!Create(h, f)
      BY <1>1, <1>7, <1>8, <2>2 DEF Spf!Create, Spf!OpenAt, Spf!NoReply, Content
    <2> QED
      BY <1>8, <2>1, <2>3 DEF Spf!Promised
  <1> QED
    BY <1>10, <1>14, <1>15, <1>16, <1>17 DEF FInv

LEMMA RemoveFileStep ==
    ASSUME FInv, NEW f \in Files, RemoveFile(f)
    PROVE  FInv' /\ Allowed
  <1>1. /\ f \in DOMAIN size
        /\ \A h \in DOMAIN node : node[h].file # f
        /\ size' = [x \in DOMAIN size \ {f} |-> size[x]]
        /\ data' = [x \in DOMAIN data \ {f} |-> data[x]]
        /\ room' = room + Have(f)
        /\ reply'.count = 0 /\ reply'.bytes = <<>> /\ reply'.asked = 0
        /\ node' = node /\ misused' = misused
    BY DEF RemoveFile, NoReply
  <1>2. FileTypes
    BY DEF FInv
  <1>3. FileTypes'
    <2>1. DOMAIN size' = DOMAIN size \ {f} /\ DOMAIN size' \subseteq Files
      BY <1>1, <1>2 DEF FileTypes
    <2>2. size' \in [DOMAIN size' -> Offsets] /\ data' \in [DOMAIN size' -> Seq(Bytes)]
      BY <1>1, <1>2, <2>1 DEF FileTypes
    <2>3. node' \in [DOMAIN node' -> [file : DOMAIN size', size : Offsets, offset : Offsets]]
      BY <1>1, <1>2, <2>1 DEF FileTypes
    <2>4. \A x \in DOMAIN size' : Whole(x)'
      <3>1. ASSUME NEW x \in DOMAIN size'
            PROVE  Whole(x)'
        <4>1. data'[x] = data[x] /\ Whole(x)
          BY <1>1, <1>2, <2>1 DEF FileTypes
        <4> QED
          BY <4>1 DEF Whole, Have
      <3> QED
        BY <3>1
    <2>5. room' \in Nat
      BY <1>1, <1>2 DEF FileTypes, Whole
    <2> QED
      BY <1>1, <1>2, <2>1, <2>2, <2>3, <2>4, <2>5 DEF FileTypes
  <1>4. \A x \in DOMAIN size' : x \in DOMAIN size /\ size'[x] = size[x] /\ data'[x] = data[x]
    BY <1>1, <1>2 DEF FileTypes
  <1>5. \A h \in DOMAIN node : node[h].file \in DOMAIN size'
    BY <1>1, <1>2 DEF FileTypes
  <1>6. ShortWriteMeansNoCluster'
    BY <1>1 DEF ShortWriteMeansNoCluster
  <1>7. SizeWithinChain'
    <2>1. SUFFICES ASSUME "astray" \notin misused'
                   PROVE  /\ \A x \in DOMAIN size' : size'[x] <= Len(data'[x])
                          /\ \A x \in DOMAIN node' : node'[x].size <= Len(data'[node'[x].file])
      BY DEF SizeWithinChain
    <2>2. /\ \A x \in DOMAIN size : size[x] <= Len(data[x])
          /\ \A x \in DOMAIN node : node[x].size <= Len(data[node[x].file])
      BY <1>1, <2>1 DEF FInv, SizeWithinChain
    <2>3. \A x \in DOMAIN size' : size'[x] <= Len(data'[x])
      BY <1>4, <2>2
    <2>4. \A x \in DOMAIN node : node[x].size <= Len(data'[node[x].file])
      BY <1>4, <1>5, <2>2
    <2> QED
      BY <1>1, <2>3, <2>4
  <1>8. Usual'
    <2>1. SUFFICES ASSUME misused' = {} PROVE (Alone /\ Current /\ Tails)'
      BY DEF Usual
    <2>2. Alone /\ Current /\ Tails
      BY <1>1, <2>1 DEF FInv, Usual
    <2>3. Alone'
      BY <1>1, <2>2 DEF Alone
    <2>4. Current'
      BY <1>1, <1>4, <1>5, <2>2 DEF Current
    <2>5. Tails'
      BY <1>4, <2>2 DEF Tails
    <2> QED
      BY <2>3, <2>4, <2>5
  <1>9. Content' = [x \in DOMAIN Content \ {f} |-> Content[x]]
    <2>1. DOMAIN size' = DOMAIN size \ {f}
      BY <1>1
    <2>2. Content' = [x \in DOMAIN size \ {f} |-> SubSeq(data'[x], 1, size'[x])]
      BY <2>1 DEF Content
    <2>3. ASSUME NEW x \in DOMAIN size \ {f}
          PROVE  SubSeq(data'[x], 1, size'[x]) = Content[x]
      <3>1. size'[x] = size[x] /\ data'[x] = data[x]
        BY <1>4, <2>1
      <3> QED
        BY <3>1 DEF Content
    <2> QED
      BY <2>2, <2>3 DEF Content
  <1>10. Spf!Delete(f)
    BY <1>1, <1>9 DEF Spf!Delete, Spf!NoReply, Content
  <1>11. Allowed
    BY <1>1, <1>10 DEF Allowed, Spf!Promised
  <1> QED
    BY <1>3, <1>6, <1>7, <1>8, <1>11 DEF FInv

-----------------------------------------------------------------------------
(***************************************************************************)
(* Reading.                                                                *)
(***************************************************************************)
LEMMA PieceFacts ==
    ASSUME NEW s \in Seq(Bytes), NEW a \in Nat, NEW k \in Nat, a + k <= Len(s)
    PROVE  /\ SubSeq(s, a + 1, a + k) \in Seq(Bytes)
           /\ Len(SubSeq(s, a + 1, a + k)) = k
           /\ SubSeq(s, a + 1, a + k) = [i \in 1 .. k |-> s[a + i]]
  <1>1. SubSeq(s, a + 1, a + k) = [i \in 1 .. k |-> s[a + i]]
    OBVIOUS
  <1>2. \A i \in 1 .. k : s[a + i] \in Bytes
    OBVIOUS
  <1> QED
    BY <1>1, <1>2

LEMMA PrefixFacts ==
    ASSUME NEW s \in Seq(Bytes), NEW k \in Nat, k <= Len(s)
    PROVE  /\ SubSeq(s, 1, k) \in Seq(Bytes) /\ Len(SubSeq(s, 1, k)) = k
           /\ SubSeq(s, 1, k) = [i \in 1 .. k |-> s[i]]
  <1>1. SubSeq(s, 1, k) = [i \in 1 .. k |-> s[i]]
    OBVIOUS
  <1>2. \A i \in 1 .. k : s[i] \in Bytes
    OBVIOUS
  <1> QED
    BY <1>1, <1>2

(* The clusters a file has are as many after a call, or more.              *)
LEMMA LongerHolds ==
    ASSUME FileTypes, NEW f \in DOMAIN size, NEW chain \in Nat, NEW new \in Seq(Bytes),
           Have(f) <= chain, Len(new) = chain * ClusterSize
    PROVE  /\ chain > 0 /\ Len(data[f]) \in Nat /\ Len(new) \in Nat
           /\ Len(data[f]) <= Len(new)
  <1>1. Have(f) \in Nat \ {0} /\ Len(data[f]) = Have(f) * ClusterSize /\ data[f] \in Seq(Bytes)
    BY DEF FileTypes, Whole
  <1>2. Have(f) * ClusterSize <= chain * ClusterSize
    BY <1>1, Monotone
  <1> QED
    BY <1>1, <1>2

LEMMA WholeWith ==
    ASSUME FileTypes, NEW f \in DOMAIN size, NEW chain \in Nat, NEW new \in Seq(Bytes),
           chain > 0, Len(new) = chain * ClusterSize,
           data' = [data EXCEPT ![f] = new]
    PROVE  /\ data' \in [DOMAIN size -> Seq(Bytes)]
           /\ \A x \in DOMAIN size : data'[x] = IF x = f THEN new ELSE data[x]
           /\ \A x \in DOMAIN size : Whole(x)'
  <1>1. /\ data' \in [DOMAIN size -> Seq(Bytes)]
        /\ \A x \in DOMAIN size : data'[x] = IF x = f THEN new ELSE data[x]
    BY DEF FileTypes
  <1>2. Whole(f)'
    BY <1>1, WholeAfter
  <1>3. ASSUME NEW x \in DOMAIN size, x # f
        PROVE  Whole(x)'
    <2>1. data'[x] = data[x] /\ Whole(x)
      BY <1>1, <1>3 DEF FileTypes
    <2> QED
      BY <2>1 DEF Whole, Have
  <1> QED
    BY <1>1, <1>2, <1>3

LEMMA ReadStep ==
    ASSUME FInv, NEW h \in DOMAIN node, NEW n \in Requests,
           NEW got \in 0 .. room, NEW bad,
           Read(h, n, got, bad), node[h].offset + MaxRequest <= MaxOffset
    PROVE  FInv' /\ Allowed
  <1>1. FileTypes /\ SizeWithinChain
    BY DEF FInv
  <1>2. PICK f \in DOMAIN size, at \in Nat, chain \in Nat, count \in Nat, new \in Seq(Bytes) :
            HasRead(h, n, f, at, chain, count, new)
    BY <1>1, ReadFacts
  <1>3. /\ f = node[h].file /\ at = node[h].offset
        /\ Have(f) <= chain /\ Len(new) = chain * ClusterSize
        /\ at + count <= MaxOffset
        /\ data' = [data EXCEPT ![f] = new]
        /\ size' = size
        /\ node' = [node EXCEPT ![h].offset = at + count]
        /\ room' \in Nat /\ reply'.count = count /\ reply'.asked = 0
        /\ misused \subseteq misused' /\ misused' \subseteq Kind
    BY <1>2 DEF HasRead
  <1>4. PICK end \in Offsets : end = at + count
    <2>1. at \in Nat /\ count \in Nat /\ at + count <= MaxOffset
      BY <1>2, <1>3
    <2>2. at + count \in Offsets
      BY <2>1, Constants
    <2> QED
      BY <2>2
  <1>5. /\ DOMAIN node' = DOMAIN node
        /\ \A x \in DOMAIN node :
               /\ node'[x].file = node[x].file /\ node'[x].size = node[x].size
               /\ node'[x].offset = IF x = h THEN end ELSE node[x].offset
    BY <1>1, <1>3, <1>4 DEF FileTypes
  <1>6. chain > 0 /\ Len(data[f]) \in Nat /\ Len(new) \in Nat /\ Len(data[f]) <= Len(new)
    BY <1>1, <1>2, <1>3, LongerHolds
  <1>7. /\ data' \in [DOMAIN size -> Seq(Bytes)]
        /\ \A x \in DOMAIN size : data'[x] = IF x = f THEN new ELSE data[x]
        /\ \A x \in DOMAIN size : Whole(x)'
    BY <1>1, <1>2, <1>3, <1>6, WholeWith
  <1>8. FileTypes'
    <2>1. node' \in [DOMAIN node' -> [file : DOMAIN size, size : Offsets, offset : Offsets]]
      BY <1>1, <1>3, <1>4 DEF FileTypes
    <2> QED
      BY <1>1, <1>2, <1>3, <1>5, <1>7, <2>1 DEF FileTypes, Kind
  <1>9. SizeWithinChain'
    <2>1. SUFFICES ASSUME "astray" \notin misused'
                   PROVE  /\ \A x \in DOMAIN size' : size'[x] <= Len(data'[x])
                          /\ \A x \in DOMAIN node' : node'[x].size <= Len(data'[node'[x].file])
      BY DEF SizeWithinChain
    <2>2. /\ \A x \in DOMAIN size : size[x] <= Len(data[x])
          /\ \A x \in DOMAIN node : node[x].size <= Len(data[node[x].file])
      BY <1>1, <1>3, <2>1 DEF SizeWithinChain
    <2>3. ASSUME NEW x \in DOMAIN size, NEW k \in Offsets, k <= Len(data[x])
          PROVE  k <= Len(data'[x])
      <3>1. k \in Nat
        BY Constants
      <3>2. CASE x = f
        BY <1>6, <1>7, <2>3, <3>1, <3>2
      <3>3. CASE x # f
        BY <1>7, <2>3, <3>3
      <3> QED
        BY <3>2, <3>3
    <2>4. \A x \in DOMAIN size : size[x] \in Offsets
      BY <1>1 DEF FileTypes
    <2>5. \A x \in DOMAIN node : node[x].size \in Offsets /\ node[x].file \in DOMAIN size
      BY <1>1, NodeFacts
    <2> QED
      BY <1>3, <1>5, <2>2, <2>3, <2>4, <2>5
  <1>10. ShortWriteMeansNoCluster'
    BY <1>2, <1>3 DEF ShortWriteMeansNoCluster
  <1>11. ASSUME misused' = {}
         PROVE  /\ misused = {} /\ Alone /\ Current /\ Tails
                /\ size[f] \in Nat /\ size[f] <= Len(data[f]) /\ at <= size[f]
                /\ data' = data
                /\ count = IF n < size[f] - at THEN n ELSE size[f] - at
                /\ reply'.bytes = [i \in 1 .. count |-> data[f][at + i]]
    <2>1. misused = {} /\ Alone /\ Current /\ Tails
      BY <1>3, <1>11 DEF FInv, Usual
    <2>2. node[h].size = size[f] /\ size[f] \in Nat
      BY <1>1, <1>3, <2>1, NodeFacts DEF Current
    <2>3. size[f] <= Len(data[f])
      BY <1>1, <2>1 DEF SizeWithinChain
    <2>4. /\ at <= size[f] /\ new = data[f]
          /\ count = IF n < size[f] - at THEN n ELSE size[f] - at
          /\ reply'.bytes = [i \in 1 .. count |-> data[f][at + i]]
      BY <1>2, <1>11, <2>2, <2>3 DEF HasRead
    <2>5. data' = data
      BY <1>1, <1>2, <1>3, <2>4 DEF FileTypes
    <2> QED
      BY <2>1, <2>2, <2>3, <2>4, <2>5
  <1>12. Usual'
    <2>1. SUFFICES ASSUME misused' = {} PROVE (Alone /\ Current /\ Tails)'
      BY DEF Usual
    <2>2. Alone /\ Current /\ Tails /\ data' = data
      BY <1>11, <2>1
    <2>3. Alone'
      BY <1>5, <2>2 DEF Alone
    <2>4. Current'
      BY <1>3, <1>5, <2>2 DEF Current
    <2>5. Tails'
      BY <1>3, <2>2 DEF Tails
    <2> QED
      BY <2>3, <2>4, <2>5
  <1>13. Allowed
    <2>1. SUFFICES ASSUME misused' = {} PROVE misused = {} /\ Spf!Promised
      BY DEF Allowed
    <2>2. /\ misused = {} /\ size[f] \in Nat /\ size[f] <= Len(data[f]) /\ at <= size[f]
          /\ data' = data
          /\ count = IF n < size[f] - at THEN n ELSE size[f] - at
          /\ reply'.bytes = [i \in 1 .. count |-> data[f][at + i]]
      BY <1>11, <2>1
    <2>3. n \in Nat /\ data[f] \in Seq(Bytes)
      BY <1>1, <1>2, Constants DEF Requests, FileTypes
    <2>4. Content' = Content
      BY <1>3, <2>2 DEF Content
    <2>5. Handle' = [Handle EXCEPT ![h].at = end]
      BY <1>5, HandleMoves
    <2>6. Handle[h] = [file |-> f, at |-> at] /\ DOMAIN Handle = DOMAIN node
      BY <1>3 DEF Handle
    <2>7. PICK file \in Seq(Bytes) : /\ file = Content[f] /\ Len(file) = size[f]
                                     /\ file = [i \in 1 .. size[f] |-> data[f][i]]
      BY <2>2, <2>3, PrefixFacts DEF Content
    <2>8. SubSeq(file, at + 1, at + count) = [i \in 1 .. count |-> data[f][at + i]]
      <3>1. at + count <= Len(file)
        BY <1>2, <2>2, <2>3, <2>7
      <3>2. SubSeq(file, at + 1, at + count) = [i \in 1 .. count |-> file[at + i]]
        BY <1>2, <3>1, PieceFacts
      <3>3. \A i \in 1 .. count : file[at + i] = data[f][at + i]
        BY <1>2, <2>2, <2>7, <3>1
      <3> QED
        BY <3>2, <3>3
    <2>9. Reply' = [count |-> count, bytes |-> SubSeq(file, at + 1, at + count)]
      BY <1>3, <2>2, <2>8 DEF Reply
    <2>10. count = IF n < (IF at > Len(file) THEN 0 ELSE Len(file) - at) THEN n
                   ELSE IF at > Len(file) THEN 0 ELSE Len(file) - at
      BY <1>2, <2>2, <2>3, <2>7
    <2>11. Handle' = [Handle EXCEPT ![h].at = @ + count]
      BY <1>4, <2>5, <2>6
    <2>12. Spf!Read(h, n)
      <3> DEFINE read == Content[Handle[h].file]
                 from == Handle[h].at
                 left == IF from > Len(read) THEN 0 ELSE Len(read) - from
                 m    == IF n < left THEN n ELSE left
      <3>1. read = file /\ from = at
        <4>1. Handle[h].file = f /\ Handle[h].at = at
          BY <2>6
        <4> QED
          BY <2>7, <4>1
      <3>2. m = count
        BY <2>10, <3>1
      <3>3. Reply' = [count |-> m, bytes |-> SubSeq(read, from + 1, from + m)]
        BY <2>9, <3>1, <3>2
      <3>4. Handle' = [Handle EXCEPT ![h].at = @ + m]
        BY <2>11, <3>2
      <3> QED
        BY <1>3, <2>4, <3>3, <3>4, Zenon DEF Spf!Read, Content, Handle, Reply
    <2>13. h \in DOMAIN Handle
      BY <2>6
    <2> QED
      BY <2>2, <2>12, <2>13 DEF Spf!Promised, Handle
  <1> QED
    BY <1>8, <1>9, <1>10, <1>12, <1>13 DEF FInv

-----------------------------------------------------------------------------
(***************************************************************************)
(* Writing.                                                                *)
(***************************************************************************)

(* What a write leaves of a file that had zeroes behind its end.           *)
Replaced(old, whole, new, bytes, at, count, length) ==
    /\ old \in Seq(Bytes) /\ whole \in Seq(Bytes) /\ new \in Seq(Bytes) /\ bytes \in Seq(Bytes)
    /\ at \in Nat /\ count \in Nat /\ length \in Nat
    /\ count <= Len(bytes) /\ length <= Len(new) /\ Len(old) <= Len(whole)
    /\ length = IF Len(old) >= at + count THEN Len(old) ELSE at + count
    /\ \A i \in 1 .. Len(old) : old[i] = whole[i]
    /\ \A i \in 1 .. Len(whole) : i > Len(old) => whole[i] = 0
    /\ \A i \in 1 .. Len(new) :
           new[i] = IF i > at /\ i <= at + count THEN bytes[i - at]
                    ELSE IF i <= Len(whole) THEN whole[i] ELSE 0

LEMMA OverwriteFacts ==
    ASSUME NEW old, NEW whole, NEW new, NEW bytes, NEW at, NEW count, NEW length,
           Replaced(old, whole, new, bytes, at, count, length)
    PROVE  SubSeq(new, 1, length) = Spf!Overwrite(old, at, SubSeq(bytes, 1, count))
  <1>0. /\ old \in Seq(Bytes) /\ whole \in Seq(Bytes) /\ new \in Seq(Bytes) /\ bytes \in Seq(Bytes)
        /\ at \in Nat /\ count \in Nat /\ length \in Nat
        /\ count <= Len(bytes) /\ length <= Len(new) /\ Len(old) <= Len(whole)
        /\ length = IF Len(old) >= at + count THEN Len(old) ELSE at + count
        /\ \A i \in 1 .. Len(old) : old[i] = whole[i]
        /\ \A i \in 1 .. Len(whole) : i > Len(old) => whole[i] = 0
        /\ \A i \in 1 .. Len(new) :
               new[i] = IF i > at /\ i <= at + count THEN bytes[i - at]
                        ELSE IF i <= Len(whole) THEN whole[i] ELSE 0
    BY DEF Replaced
  <1>1. PICK part \in Seq(Bytes) :
            /\ part = SubSeq(bytes, 1, count) /\ Len(part) = count
            /\ part = [i \in 1 .. count |-> bytes[i]]
    BY <1>0, PrefixFacts
  <1>2. PICK had \in Nat, all \in Nat, held \in Nat :
            had = Len(old) /\ all = Len(whole) /\ held = Len(new)
    BY <1>0
  <1>3. Spf!Overwrite(old, at, part) =
            [i \in 1 .. length |-> IF i > at /\ i <= at + count THEN part[i - at]
                                   ELSE IF i <= had THEN old[i] ELSE 0]
    <2>1. length = IF Len(old) > at + Len(part) THEN Len(old) ELSE at + Len(part)
      BY <1>0, <1>1, <1>2
    <2>2. at + Len(part) = at + count
      BY <1>0, <1>1
    <2> QED
      BY <1>0, <1>2, <2>1, <2>2 DEF Spf!Overwrite
  <1>4. SubSeq(new, 1, length) = [i \in 1 .. length |-> new[i]]
    BY <1>0, PrefixFacts
  <1>5. ASSUME NEW i \in 1 .. length
        PROVE  new[i] = IF i > at /\ i <= at + count THEN part[i - at]
                        ELSE IF i <= had THEN old[i] ELSE 0
    <2>1. i \in 1 .. Len(new)
      BY <1>0, <1>2
    <2>2. new[i] = IF i > at /\ i <= at + count THEN bytes[i - at]
                   ELSE IF i <= Len(whole) THEN whole[i] ELSE 0
      BY <1>0, <2>1
    <2>3. CASE i > at /\ i <= at + count
      <3>1. i - at \in 1 .. count
        BY <1>0, <2>3
      <3> QED
        BY <1>0, <1>1, <2>2, <2>3, <3>1
    <2>4. CASE ~(i > at /\ i <= at + count) /\ i <= had
      <3>1. i \in 1 .. Len(old) /\ i <= Len(whole)
        BY <1>0, <1>2, <2>4
      <3> QED
        BY <1>0, <2>2, <2>4, <3>1
    <2>5. CASE ~(i > at /\ i <= at + count) /\ ~(i <= had)
      <3>1. i <= Len(whole) => i \in 1 .. Len(whole) /\ i > Len(old)
        BY <1>0, <1>2, <2>5
      <3>2. i <= Len(whole) => whole[i] = 0
        BY <1>0, <3>1
      <3>3. new[i] = IF i <= Len(whole) THEN whole[i] ELSE 0
        BY <2>2, <2>5, Zenon
      <3>4. new[i] = 0
        BY <3>2, <3>3, Zenon
      <3> QED
        BY <2>5, <3>4, Zenon
    <2> QED
      BY <2>3, <2>4, <2>5, Zenon
  <1>6. [i \in 1 .. length |-> new[i]] =
            [i \in 1 .. length |-> IF i > at /\ i <= at + count THEN part[i - at]
                                   ELSE IF i <= had THEN old[i] ELSE 0]
    BY <1>5, Zenon
  <1> QED
    BY <1>1, <1>3, <1>4, <1>6, Zenon

LEMMA WriteStep ==
    ASSUME FInv, NEW h \in DOMAIN node, NEW bytes \in Buffers,
           NEW got \in 0 .. room, NEW bad, NEW saved \in BOOLEAN,
           Write(h, bytes, got, bad, saved), node[h].offset + MaxRequest <= MaxOffset
    PROVE  FInv' /\ Allowed
  <1>1. FileTypes /\ SizeWithinChain
    BY DEF FInv
  <1>2. PICK f \in DOMAIN size, at \in Nat, chain \in Nat, count \in Nat,
             new \in Seq(Bytes), length \in Nat :
            Written(h, bytes, f, at, chain, count, new, length)
    BY <1>1, WriteFacts
  <1>3. /\ f = node[h].file /\ at = node[h].offset
        /\ Have(f) <= chain /\ Len(new) = chain * ClusterSize
        /\ count <= Len(bytes) /\ at + count <= MaxOffset
        /\ length = IF node[h].size >= at + count THEN node[h].size ELSE at + count
        /\ data' = [data EXCEPT ![f] = new]
        /\ \/ size' = [size EXCEPT ![f] = length]
           \/ size' = size /\ misused' # {}
        /\ node' = [node EXCEPT ![h] = [file |-> f, size |-> length, offset |-> at + count]]
        /\ reply'.count = count /\ reply'.bytes = <<>> /\ reply'.asked = Len(bytes)
        /\ room' \in Nat
        /\ misused \subseteq misused' /\ misused' \subseteq Kind
    BY <1>2 DEF Written
  <1>4. PICK end \in Offsets : end = at + count
    <2>1. at + count \in Nat /\ at + count <= MaxOffset
      BY <1>2, <1>3
    <2> QED
      BY <2>1, Constants
  <1>5. length \in Offsets
    <2>1. node[h].size \in Offsets
      BY <1>1, NodeFacts
    <2>2. length = node[h].size \/ length = end
      BY <1>3, <1>4
    <2> QED
      BY <1>4, <2>1, <2>2
  <1>6. /\ node' = [node EXCEPT ![h] = [file |-> f, size |-> length, offset |-> end]]
        /\ DOMAIN node' = DOMAIN node
        /\ \A x \in DOMAIN node :
               /\ node'[x].file = node[x].file
               /\ node'[x].size = IF x = h THEN length ELSE node[x].size
               /\ node'[x].offset = IF x = h THEN end ELSE node[x].offset
    BY <1>1, <1>3, <1>4 DEF FileTypes
  <1>7. chain > 0 /\ Len(data[f]) \in Nat /\ Len(new) \in Nat /\ Len(data[f]) <= Len(new)
    BY <1>1, <1>2, <1>3, LongerHolds
  <1>8. /\ data' \in [DOMAIN size -> Seq(Bytes)]
        /\ \A x \in DOMAIN size : data'[x] = IF x = f THEN new ELSE data[x]
        /\ \A x \in DOMAIN size : Whole(x)'
    BY <1>1, <1>2, <1>3, <1>7, WholeWith
  <1>9. /\ DOMAIN size' = DOMAIN size /\ size' \in [DOMAIN size -> Offsets]
        /\ \A x \in DOMAIN size : size'[x] = size[x] \/ (x = f /\ size'[x] = length)
        /\ misused' = {} => \A x \in DOMAIN size :
                                size'[x] = IF x = f THEN length ELSE size[x]
    <2>1. CASE size' = size /\ misused' # {}
      BY <1>1, <2>1 DEF FileTypes
    <2>2. CASE size' = [size EXCEPT ![f] = length]
      BY <1>1, <1>2, <1>5, <2>2 DEF FileTypes
    <2> QED
      BY <1>3, <2>1, <2>2
  <1>10. bytes \in Seq(Bytes) /\ Len(bytes) \in Nat
    BY Constants
  <1>11. FileTypes'
    <2>1. node' \in [DOMAIN node' -> [file : DOMAIN size, size : Offsets, offset : Offsets]]
      BY <1>1, <1>2, <1>4, <1>5, <1>6 DEF FileTypes
    <2>2. reply'.count \in Nat /\ reply'.asked \in Nat
      BY <1>2, <1>3, <1>10
    <2> QED
      BY <1>1, <1>3, <1>6, <1>8, <1>9, <2>1, <2>2 DEF FileTypes, Kind
  <1>12. ASSUME "astray" \notin misused'
         PROVE  /\ \A x \in DOMAIN size : size[x] \in Nat /\ size[x] <= Len(data[x])
                /\ \A x \in DOMAIN node : /\ node[x].size \in Nat
                                          /\ node[x].size <= Len(data[node[x].file])
                /\ length <= Len(new)
    <2>1. /\ \A x \in DOMAIN size : size[x] <= Len(data[x])
          /\ \A x \in DOMAIN node : node[x].size <= Len(data[node[x].file])
      BY <1>1, <1>3, <1>12 DEF SizeWithinChain
    <2>2. \A x \in DOMAIN size : size[x] \in Nat
      BY <1>1, Constants DEF FileTypes
    <2>3. \A x \in DOMAIN node : node[x].size \in Nat
      BY <1>1, NodeFacts
    <2>4. at + count <= Len(new)
      BY <1>2, <1>3, <1>12 DEF Written
    <2>5. node[h].size <= Len(new)
      BY <1>3, <1>7, <2>1, <2>3
    <2> QED
      BY <1>3, <2>1, <2>2, <2>3, <2>4, <2>5
  <1>13. SizeWithinChain'
    <2>1. SUFFICES ASSUME "astray" \notin misused'
                   PROVE  /\ \A x \in DOMAIN size' : size'[x] <= Len(data'[x])
                          /\ \A x \in DOMAIN node' : node'[x].size <= Len(data'[node'[x].file])
      BY DEF SizeWithinChain
    <2>2. ASSUME NEW x \in DOMAIN size
          PROVE  size'[x] <= Len(data'[x])
      <3>1. size[x] \in Nat /\ size[x] <= Len(data[x]) /\ length <= Len(new)
        BY <1>12, <2>1
      <3>2. CASE x = f
        BY <1>2, <1>7, <1>8, <1>9, <3>1, <3>2
      <3>3. CASE x # f
        BY <1>8, <1>9, <3>1, <3>3
      <3> QED
        BY <3>2, <3>3
    <2>3. ASSUME NEW x \in DOMAIN node
          PROVE  node'[x].size <= Len(data'[node[x].file])
      <3>1. node[x].file \in DOMAIN size /\ node[x].size \in Nat
        BY <1>1, NodeFacts
      <3>2. node[x].size <= Len(data[node[x].file])
        BY <1>12, <2>1
      <3>3. CASE x = h
        BY <1>3, <1>6, <1>8, <1>12, <2>1, <3>1, <3>3
      <3>4. CASE x # h
        <4>1. node'[x].size = node[x].size
          BY <1>6, <3>4
        <4>2. CASE node[x].file = f
          BY <1>7, <1>8, <3>1, <3>2, <4>1, <4>2
        <4>3. CASE node[x].file # f
          BY <1>8, <3>1, <3>2, <4>1, <4>3
        <4> QED
          BY <4>2, <4>3
      <3> QED
        BY <3>3, <3>4
    <2> QED
      BY <1>6, <1>9, <2>2, <2>3
  <1>14. ShortWriteMeansNoCluster'
    <2>1. count < Len(bytes) => room' = 0 \/ reply'.unzeroed
      BY <1>2 DEF Written
    <2> QED
      BY <1>3, <2>1 DEF ShortWriteMeansNoCluster
  <1>15. ASSUME misused' = {}
         PROVE  /\ misused = {} /\ Alone /\ Current /\ Tails
                /\ node[h].size = size[f]
                /\ size[f] \in Nat /\ size[f] <= Len(data[f]) /\ length <= Len(new)
                /\ \A i \in 1 .. Len(new) :
                       new[i] = IF i > at /\ i <= at + count THEN bytes[i - at]
                                ELSE IF i <= Len(data[f]) THEN data[f][i] ELSE 0
    <2>1. misused = {} /\ Alone /\ Current /\ Tails
      BY <1>3, <1>15 DEF FInv, Usual
    <2>2. node[h].size = size[f]
      BY <1>3, <2>1 DEF Current
    <2>3. size[f] \in Nat /\ size[f] <= Len(data[f]) /\ length <= Len(new)
      BY <1>2, <1>12, <1>15
    <2>4. \A i \in 1 .. Len(new) :
              new[i] = IF i > at /\ i <= at + count THEN bytes[i - at]
                       ELSE IF i <= Len(data[f]) THEN data[f][i] ELSE 0
      BY <1>2, <1>15 DEF Written
    <2> QED
      BY <2>1, <2>2, <2>3, <2>4
  <1>16. Usual'
    <2>1. SUFFICES ASSUME misused' = {} PROVE (Alone /\ Current /\ Tails)'
      BY DEF Usual
    <2>2. Alone /\ Current /\ Tails
      BY <1>15, <2>1
    <2>3. Alone'
      BY <1>6, <2>2 DEF Alone
    <2>4. Current'
      <3>1. ASSUME NEW x \in DOMAIN node
            PROVE  node'[x].size = size'[node[x].file]
        <4>1. node[x].file \in DOMAIN size
          BY <1>1, NodeFacts
        <4>2. CASE x = h
          BY <1>3, <1>6, <1>9, <2>1, <4>1, <4>2
        <4>3. CASE x # h
          <5>1. node[x].file # f
            BY <1>3, <2>2, <4>3 DEF Alone
          <5> QED
            BY <1>6, <1>9, <2>1, <2>2, <4>1, <4>3, <5>1 DEF Current
        <4> QED
          BY <4>2, <4>3
      <3> QED
        BY <1>6, <3>1 DEF Current
    <2>5. ASSUME NEW x \in DOMAIN size, NEW i \in 1 .. Len(data'[x]), i > size'[x]
          PROVE  data'[x][i] = 0
      <3>1. CASE x # f
        <4>1. size'[x] = size[x] /\ data'[x] = data[x]
          BY <1>8, <1>9, <2>1, <3>1
        <4> QED
          BY <2>2, <2>5, <4>1 DEF Tails
      <3>2. CASE x = f
        <4>1. data'[x] = new /\ i \in 1 .. Len(new) /\ i > length
          BY <1>8, <1>9, <2>1, <2>5, <3>2
        <4>2. i > at + count /\ i > size[f]
          BY <1>2, <1>3, <1>7, <1>15, <2>1, <4>1
        <4>3. new[i] = IF i <= Len(data[f]) THEN data[f][i] ELSE 0
          BY <1>2, <1>7, <1>15, <2>1, <4>1, <4>2
        <4>4. i <= Len(data[f]) => data[f][i] = 0
          BY <1>2, <1>7, <2>2, <4>1, <4>2 DEF Tails
        <4> QED
          BY <4>1, <4>3, <4>4
      <3> QED
        BY <3>1, <3>2
    <2>6. Tails'
      BY <1>9, <2>5 DEF Tails
    <2> QED
      BY <2>3, <2>4, <2>6
  <1>17. Allowed
    <2>1. SUFFICES ASSUME misused' = {} PROVE misused = {} /\ Spf!Promised
      BY DEF Allowed
    <2>2. misused = {} /\ Tails /\ node[h].size = size[f] /\ length <= Len(new)
      BY <1>15, <2>1
    <2>3. data[f] \in Seq(Bytes)
      BY <1>1, <1>2 DEF FileTypes
    <2>4. PICK file \in Seq(Bytes) : /\ file = Content[f] /\ Len(file) = size[f]
                                     /\ file = [i \in 1 .. size[f] |-> data[f][i]]
      BY <1>2, <1>15, <2>1, <2>3, PrefixFacts DEF Content
    <2>5. PICK now, put : now = SubSeq(new, 1, length) /\ put = SubSeq(bytes, 1, count)
      OBVIOUS
    <2>6. now = Spf!Overwrite(file, at, put)
      <3>1. length = IF Len(file) >= at + count THEN Len(file) ELSE at + count
        BY <1>3, <2>2, <2>4
      <3>2. \A i \in 1 .. Len(file) : file[i] = data[f][i]
        BY <2>4, <1>15, <2>1
      <3>3. Len(file) <= Len(data[f])
        BY <1>15, <2>1, <2>4
      <3>4. \A i \in 1 .. Len(data[f]) : i > Len(file) => data[f][i] = 0
        BY <1>2, <2>2, <2>4 DEF Tails
      <3>5. \A i \in 1 .. Len(new) :
                new[i] = IF i > at /\ i <= at + count THEN bytes[i - at]
                         ELSE IF i <= Len(data[f]) THEN data[f][i] ELSE 0
        BY <1>15, <2>1
      <3>6. count <= Len(bytes)
        BY <1>3
      <3>7. Replaced(file, data[f], new, bytes, at, count, length)
        BY <1>2, <1>10, <2>3, <2>4, <2>2, <3>1, <3>2, <3>3, <3>4, <3>5, <3>6 DEF Replaced
      <3>8. SubSeq(new, 1, length) = Spf!Overwrite(file, at, SubSeq(bytes, 1, count))
        BY <3>7, OverwriteFacts
      <3> QED
        BY <2>5, <3>8
    <2>7. Content' = [Content EXCEPT ![f] = now]
      <3>1. Content' = [x \in DOMAIN size |-> SubSeq(data'[x], 1, size'[x])]
        BY <1>9 DEF Content
      <3>2. ASSUME NEW x \in DOMAIN size
            PROVE  SubSeq(data'[x], 1, size'[x]) = IF x = f THEN now ELSE Content[x]
        <4>1. CASE x = f
          BY <1>8, <1>9, <2>1, <2>5, <4>1
        <4>2. CASE x # f
          <5>1. data'[x] = data[x] /\ size'[x] = size[x]
            BY <1>8, <1>9, <2>1, <4>2
          <5> QED
            BY <4>2, <5>1 DEF Content
        <4> QED
          BY <4>1, <4>2
      <3>3. Content = [x \in DOMAIN size |-> Content[x]]
        BY DEF Content
      <3> QED
        BY <1>2, <3>1, <3>2, <3>3
    <2>8. Handle' = [Handle EXCEPT ![h].at = end]
      BY <1>6, HandleMoves
    <2>9. Handle[h] = [file |-> f, at |-> at] /\ DOMAIN Handle = DOMAIN node
      BY <1>3 DEF Handle
    <2>10. Handle[h].file = f /\ Handle[h].at = at
      BY <2>9
    <2>11. Handle' = [Handle EXCEPT ![h].at = @ + count]
      BY <1>4, <2>8, <2>10
    <2>12. Content' = [Content EXCEPT ![Handle[h].file] =
                          Spf!Overwrite(@, Handle[h].at, SubSeq(bytes, 1, count))]
      BY <2>4, <2>5, <2>6, <2>7, <2>10
    <2>13. Reply' = [count |-> count, bytes |-> <<>>]
      BY <1>3 DEF Reply
    <2>14. Reply' = [Spf!NoReply EXCEPT !.count = count]
      BY <2>13 DEF Spf!NoReply
    <2>15. count \in 0 .. Len(bytes)
      BY <1>2, <1>3, <1>10
    <2>16. Spf!Write(h, bytes)
      BY <2>11, <2>12, <2>14, <2>15, Zenon DEF Spf!Write, Content, Handle, Reply
    <2> QED
      BY <2>2, <2>9, <2>16 DEF Spf!Promised, Handle
  <1> QED
    BY <1>11, <1>13, <1>14, <1>16, <1>17 DEF FInv

-----------------------------------------------------------------------------
(***************************************************************************)
(* Every step.                                                             *)
(***************************************************************************)
LEMMA StutterStep ==
    ASSUME FInv, UNCHANGED vars
    PROVE  FInv' /\ UNCHANGED Spf!fileVars
  <1>1. /\ size' = size /\ data' = data /\ node' = node /\ reply' = reply
        /\ room' = room /\ misused' = misused
    BY DEF vars
  <1>2. FInv'
    BY <1>1 DEF FInv, FileTypes, Whole, Have, SizeWithinChain, ShortWriteMeansNoCluster,
                Usual, Alone, Current, Tails
  <1>3. UNCHANGED Spf!fileVars
    BY <1>1 DEF Spf!fileVars
  <1> QED
    BY <1>2, <1>3

LEMMA NextStep ==
    ASSUME FInv, Next
    PROVE  FInv' /\ Allowed
  <1>1. ASSUME NEW h \in Handles, NEW f \in Files, OpenFile(h, f) \/ CreateFile(h, f)
        PROVE  FInv' /\ Allowed
    BY <1>1, OpenFileStep, CreateFileStep
  <1>2. ASSUME NEW f \in Files, RemoveFile(f)
        PROVE  FInv' /\ Allowed
    BY <1>2, RemoveFileStep
  <1>3. ASSUME NEW h \in DOMAIN node, Forget(h)
        PROVE  FInv' /\ Allowed
    BY <1>3, ForgetStep
  <1>4. ASSUME NEW h \in DOMAIN node, NEW offset \in (-MaxOffset) .. MaxOffset, Seek(h, offset)
        PROVE  FInv' /\ Allowed
    BY <1>4, SeekStep
  <1>5. ASSUME NEW h \in DOMAIN node, node[h].offset + MaxRequest <= MaxOffset,
               NEW got \in 0 .. room, NEW bad \in BadClusters, NEW n \in Requests,
               Read(h, n, got, bad)
        PROVE  FInv' /\ Allowed
    BY <1>5, ReadStep
  <1>6. ASSUME NEW h \in DOMAIN node, node[h].offset + MaxRequest <= MaxOffset,
               NEW got \in 0 .. room, NEW bad \in BadClusters, NEW bytes \in Buffers,
               NEW saved \in Saves, Write(h, bytes, got, bad, saved)
        PROVE  FInv' /\ Allowed
    BY <1>6, WriteStep, FileAssumption
  <1> QED
    BY <1>1, <1>2, <1>3, <1>4, <1>5, <1>6 DEF Next

LEMMA FilesInvariant == Spec => []FInv
  <1>1. Init => FInv
    BY InitFInv
  <1>2. FInv /\ [Next]_vars => FInv'
    BY NextStep, StutterStep
  <1> QED
    BY <1>1, <1>2, PTL DEF Spec

LEMMA Remainder ==
    ASSUME NEW n \in Nat
    PROVE  n = ClusterSize * (n \div ClusterSize) + (n % ClusterSize) /\ n % ClusterSize \in Nat
  BY Constants

(* FInv says in which shape TypeOK holds.                                   *)
LEMMA FInvTypes == FInv => TypeOK
  <1> SUFFICES ASSUME FInv PROVE TypeOK
    OBVIOUS
  <1>1. FileTypes /\ DOMAIN data = DOMAIN size
    BY DEF FInv, FileTypes
  <1>2. ASSUME NEW f \in DOMAIN size
        PROVE  /\ size[f] \in Nat /\ data[f] \in Seq(Bytes)
               /\ Len(data[f]) % ClusterSize = 0
    <2>1. /\ size[f] \in Nat /\ data[f] \in Seq(Bytes)
          /\ Have(f) \in Nat /\ Len(data[f]) = Have(f) * ClusterSize
      BY <1>1, Constants DEF FileTypes, Whole
    <2>2. PICK n \in Nat, q \in Nat : n = Len(data[f]) /\ q = Have(f) /\ n = q * ClusterSize
      BY <2>1
    <2>3. n \div ClusterSize = q
      BY <2>2, Quotient
    <2>4. n = ClusterSize * (n \div ClusterSize) + (n % ClusterSize) /\ n % ClusterSize \in Nat
      BY <2>2, Remainder
    <2>5. q * ClusterSize = ClusterSize * q
      BY <2>2, Constants
    <2>6. n = n + (n % ClusterSize)
      BY <2>2, <2>3, <2>4, <2>5
    <2>7. n % ClusterSize = 0
      BY <2>2, <2>4, <2>6
    <2> QED
      BY <2>1, <2>2, <2>7
  <1>3. ASSUME NEW h \in DOMAIN node
        PROVE  node[h] \in [file : DOMAIN size, size : Nat, offset : Offsets]
    BY <1>1, NodeFacts
  <1> QED
    BY <1>1, <1>2, <1>3 DEF TypeOK, FileTypes

(* Sizes, bytes and nodes stay of their kinds, and a file has whole         *)
(* clusters.                                                                *)
THEOREM FilesTypeCorrect == Spec => []TypeOK
  BY FilesInvariant, FInvTypes, PTL

(* No entry and no node promises more bytes than the clusters of the file   *)
(* hold, unless the chain did not reach the offset of a write: the volume  *)
(* was full, or a new cluster was not zeroed.                              *)
THEOREM SizesTheorem == Spec => []SizeWithinChain
  <1>1. FInv => SizeWithinChain
    BY DEF FInv
  <1> QED
    BY <1>1, FilesInvariant, PTL

(* write_bytes_in_file stops early only on a full volume, or where the      *)
(* zeroes of a new cluster were not written.                               *)
THEOREM ShortWriteTheorem == Spec => []ShortWriteMeansNoCluster
  <1>1. FInv => ShortWriteMeansNoCluster
    BY DEF FInv
  <1> QED
    BY <1>1, FilesInvariant, PTL

(* fat32_open_file, fat32_read_file, fat32_write_file, fat32_lseek and      *)
(* fat32_remove_file implement FileSpec until a use occurs that the code    *)
(* has no test for.                                                         *)
THEOREM FilesAreContents == Spec => ImplementsFileSpec
  <1>1. Init => Spf!FileInit
    BY InitFInv
  <1>2. FInv /\ [Next]_vars => [Spf!FileNext]_(Spf!fileVars)
    <2> SUFFICES ASSUME FInv, [Next]_vars PROVE Spf!FileNext \/ UNCHANGED Spf!fileVars
      OBVIOUS
    <2>1. CASE Next
      <3>1. Allowed
        BY <2>1, NextStep
      <3> QED
        BY <3>1 DEF Allowed, Spf!FileNext
    <2>2. CASE UNCHANGED vars
      BY <2>2, StutterStep
    <2> QED
      BY <2>1, <2>2
  <1> QED
    BY <1>1, <1>2, FilesInvariant, PTL DEF Spec, ImplementsFileSpec, Spf!FileSafety
=============================================================================
