------------------------------ MODULE HeapSpec ------------------------------
(***************************************************************************)
(* What the kernel heap promises its callers (libc/memory.h): a granted    *)
(* request is a range of bytes that belongs to nobody else, it keeps its   *)
(* extent until it is given back, and a request is refused only when no    *)
(* run of unowned bytes is long enough.  Nothing is said of free lists.    *)
(***************************************************************************)
EXTENDS Integers

CONSTANTS
    HeapSize,   \* bytes between __HEAP and __HEAP_END
    Header,     \* bytes of bookkeeping in front of every range
    Sizes       \* sizes callers ask for

None == -1      \* no request is outstanding

VARIABLES
    owned,      \* first byte of a range in use |-> its length
    request     \* the size being asked for, or None

specVars == <<owned, request>>

SpecInit ==
    /\ owned = [p \in {} |-> 0]
    /\ request = None

(***************************************************************************)
(* The bytes from lo up to hi, hi excluded, touch neither a range in use   *)
(* nor the header in front of it.                                          *)
(***************************************************************************)
Unowned(lo, hi) ==
    \A p \in DOMAIN owned : hi <= p - Header \/ p + owned[p] <= lo

Ask(n) ==
    /\ request = None
    /\ request' = n
    /\ UNCHANGED owned

Grant(p) ==
    /\ request # None
    /\ p - Header >= Header      \* the first header of the heap stays
    /\ p + request <= HeapSize
    /\ Unowned(p - Header, p + request)
    /\ owned' = [q \in DOMAIN owned \cup {p} |->
                    IF q = p THEN request ELSE owned[q]]
    /\ request' = None

(***************************************************************************)
(* A range is cut from the end of a free block, which keeps its header: a  *)
(* refusal means that nowhere is there room for that header, the header of *)
(* the range and the range.                                                *)
(***************************************************************************)
Refuse ==
    /\ request # None
    /\ \A lo \in 0 .. HeapSize - (Header + Header + request) :
            ~Unowned(lo, lo + Header + Header + request)
    /\ request' = None
    /\ UNCHANGED owned

Release(p) ==
    /\ p \in DOMAIN owned
    /\ owned' = [q \in DOMAIN owned \ {p} |-> owned[q]]
    /\ UNCHANGED request

SpecNext ==
    \/ \E n \in Sizes : Ask(n)
    \/ \E p \in Header .. HeapSize : Grant(p) \/ Release(p)
    \/ Refuse

SpecSpec == SpecInit /\ [][SpecNext]_specVars
=============================================================================
