-------------------------------- MODULE Heap --------------------------------
(***************************************************************************)
(* The kernel heap of libc/memory.c: a first-fit allocator over a linked   *)
(* list of free blocks kept in the heap itself, sorted by address.  Each   *)
(* turn of the two search loops is a step of its own, so the loop          *)
(* invariants the code relies on are part of what is checked.              *)
(*                                                                         *)
(* Addresses are byte offsets from __HEAP.  A struct BlockNode at address  *)
(* a is size[a] and next[a]; the bytes behind it are its payload.  The C   *)
(* code has no record of which addresses hold a header: blocks and live    *)
(* are ghosts that remember it.                                            *)
(***************************************************************************)
EXTENDS Integers

CONSTANTS
    HeapSize,   \* heap_end - heap_start
    Header,     \* sizeof(struct BlockNode)
    Sizes       \* sizes passed to k_malloc, far from the 2^32 wrap of size + 8

ASSUME HeapAssumption ==
    /\ HeapSize \in Nat
    /\ Header \in Nat \ {0}
    /\ Header <= HeapSize
    /\ Sizes \subseteq Nat

NULL == -1      \* below every address, as 0 is in the code
Head == 0       \* the global "head" is never reassigned

Addresses == 0 .. HeapSize - Header

VARIABLES
    size,       \* size[a], next[a]: the header stored at address a
    next,
    blocks,     \* ghost: addresses that hold the header of a block
    live,       \* ghost: blocks handed out and not yet freed
    pc,         \* "idle", in the loop of k_malloc ("find") or of k_free ("seek")
    wanted,     \* the size argument of k_malloc
    resizing,   \* the block k_realloc frees once it has the new one, or NULL
    to_free,    \* local of k_free
    previous,   \* local of k_free
    node        \* local of k_malloc and of k_free

callVars == <<pc, wanted, resizing, to_free, previous, node>>
heapVars == <<size, next, blocks, live>>
vars == <<heapVars, callVars>>

Free == blocks \ live
End(b) == b + Header + size[b]

-----------------------------------------------------------------------------
(* k_malloc_init *)

Init ==
    /\ size = [a \in Addresses |-> IF a = Head THEN HeapSize - Header ELSE 0]
    /\ next = [a \in Addresses |-> NULL]
    /\ blocks = {Head}
    /\ live = {}
    /\ pc = "idle"
    /\ wanted = 0
    /\ resizing = NULL
    /\ to_free = NULL
    /\ previous = NULL
    /\ node = NULL

-----------------------------------------------------------------------------
(* k_malloc *)

(* variants with a mistake in them, named for it, stand before the         *)
(* definition they vary                                                    *)
MallocCall(n) ==
    /\ pc = "idle"
    /\ pc' = "find"
    /\ wanted' = n
    /\ node' = Head
    /\ UNCHANGED <<heapVars, resizing, to_free, previous>>

TooSmallForgetsHeader(b) == size[b] < wanted

TooSmall(b) == size[b] < wanted + Header

(* node = node->next, and the search goes on *)
FindNext ==
    /\ pc = "find"
    /\ TooSmall(node)
    /\ next[node] # NULL
    /\ node' = next[node]
    /\ UNCHANGED <<heapVars, pc, wanted, resizing, to_free, previous>>

(* the list is exhausted: k_malloc, and k_realloc, return 0 *)
FindFail ==
    /\ pc = "find"
    /\ TooSmall(node)
    /\ next[node] = NULL
    /\ pc' = "idle"
    /\ resizing' = NULL
    /\ node' = NULL
    /\ UNCHANGED <<heapVars, wanted, to_free, previous>>

(* The new block is cut from the tail of node, whose header stays.         *)
(* k_realloc goes on to free the old block.                                *)
Take ==
    LET newSize == size[node] - (wanted + Header)
        newNode == node + newSize + Header
    IN  /\ pc = "find"
        /\ ~TooSmall(node)
        /\ size' = [size EXCEPT ![node] = newSize, ![newNode] = wanted]
        /\ next' = [next EXCEPT ![newNode] = NULL]
        /\ blocks' = blocks \cup {newNode}
        /\ live' = live \cup {newNode}
        /\ pc' = IF resizing = NULL THEN "idle" ELSE "seek"
        /\ to_free' = resizing
        /\ node' = IF resizing = NULL THEN NULL ELSE Head
        /\ resizing' = NULL
        /\ UNCHANGED <<wanted, previous>>

-----------------------------------------------------------------------------
(* k_free *)

FreeCall(b) ==
    /\ pc = "idle"
    /\ b \in live
    /\ pc' = "seek"
    /\ to_free' = b
    /\ previous' = NULL
    /\ node' = Head
    /\ UNCHANGED <<heapVars, wanted, resizing>>

SeekNextKeepsPrevious ==
    /\ pc = "seek"
    /\ node # NULL
    /\ node < to_free
    /\ node' = next[node]
    /\ UNCHANGED <<heapVars, pc, wanted, resizing, to_free, previous>>

SeekNext ==
    /\ pc = "seek"
    /\ node # NULL
    /\ node < to_free
    /\ previous' = node
    /\ node' = next[node]
    /\ UNCHANGED <<heapVars, pc, wanted, resizing, to_free>>

IsContiguous(l, r) == End(l) = r

(* The block is linked behind previous and in front of rest, then merged   *)
(* with the free block before it and with the one after it; a merge clears *)
(* the header it absorbs.                                                  *)
LinkAndMerge(rest, joinsLeft, joinsRight) ==
    LET left     == IF joinsLeft THEN previous ELSE to_free
        absorbed == {b \in {to_free} : joinsLeft} \cup {b \in {node} : joinsRight}
        gained   == (IF joinsLeft THEN size[to_free] + Header ELSE 0)
                        + (IF joinsRight THEN size[node] + Header ELSE 0)
    IN  /\ size' = [a \in Addresses |->
                        IF a = left THEN size[left] + gained
                        ELSE IF a \in absorbed THEN 0
                        ELSE size[a]]
        /\ next' = [a \in Addresses |->
                        IF a = left THEN IF joinsRight THEN next[node] ELSE rest
                        ELSE IF a \in absorbed THEN NULL
                        ELSE IF a = previous THEN to_free
                        ELSE next[a]]
        /\ blocks' = blocks \ absorbed

Return ==
    /\ live' = live \ {to_free}
    /\ pc' = "idle"
    /\ to_free' = NULL
    /\ previous' = NULL
    /\ node' = NULL
    /\ UNCHANGED <<wanted, resizing>>

AtPlace == pc = "seek" /\ (node = NULL \/ node >= to_free)

InsertLinksToItself ==      \* to_free->next = previous->next, one line too late
    /\ AtPlace
    /\ LinkAndMerge(to_free, IsContiguous(previous, to_free), IsContiguous(to_free, node))
    /\ Return

InsertDropsRest ==
    /\ AtPlace
    /\ LinkAndMerge(NULL, IsContiguous(previous, to_free), IsContiguous(to_free, node))
    /\ Return

InsertAlwaysMergesLeft ==
    /\ AtPlace
    /\ LinkAndMerge(node, TRUE, IsContiguous(to_free, node))
    /\ Return

InsertNeverMergesRight ==
    /\ AtPlace
    /\ LinkAndMerge(node, IsContiguous(previous, to_free), FALSE)
    /\ Return

Insert ==
    /\ AtPlace
    /\ LinkAndMerge(node, IsContiguous(previous, to_free), IsContiguous(to_free, node))
    /\ Return

-----------------------------------------------------------------------------
(* k_realloc.  It copies the old size whatever the new one is, so a block  *)
(* that shrinks is copied past its end: the guard keeps to the calls whose *)
(* copy stays inside the new block.  Without a block it is k_malloc.       *)

ReallocCall(b, n) ==
    /\ pc = "idle"
    /\ b \in live
    /\ size[b] <= n
    /\ pc' = "find"
    /\ wanted' = n
    /\ resizing' = b
    /\ previous' = NULL
    /\ node' = Head
    /\ UNCHANGED <<heapVars, to_free>>

-----------------------------------------------------------------------------
Call ==
    \/ \E n \in Sizes : MallocCall(n)
    \/ \E b \in live : FreeCall(b)
    \/ \E b \in live, n \in Sizes : ReallocCall(b, n)

(* what the allocator does by itself once it is called *)
Run == FindNext \/ FindFail \/ Take \/ SeekNext \/ Insert

Next == Call \/ Run

Spec == Init /\ [][Next]_vars

(* A call runs to its end on the one thread the kernel has: nothing else   *)
(* runs between two of its steps that could stop it.                       *)
FairSpec == Spec /\ WF_vars(Run)

-----------------------------------------------------------------------------
(* Properties *)

TypeOK ==
    /\ size \in [Addresses -> 0 .. HeapSize]
    /\ next \in [Addresses -> Addresses \cup {NULL}]
    /\ blocks \subseteq Addresses
    /\ live \subseteq blocks
    /\ pc \in {"idle", "find", "seek"}
    /\ wanted \in Nat
    /\ resizing \in live \cup {NULL}
    /\ to_free \in live \cup {NULL}
    /\ previous \in Free \cup {NULL}
    /\ node \in Free \cup {NULL}

(* Every byte of the heap belongs to exactly one block: a block ends where *)
(* the next one, or the end of the heap, begins, and no two overlap.       *)
(* Cutting from the tail and merging must not lose or share a byte.        *)
Tiling ==
    /\ \A b \in blocks : End(b) \in blocks \cup {HeapSize}
    /\ \A a, b \in blocks : a < b => End(a) <= b

(* The list reached from head is the free blocks in order of address: from *)
(* each free block next leads to the nearest free one behind it.  k_free   *)
(* stops its walk at the first address above its own and relies on it.     *)
FreeListSorted ==
    \A f \in Free :
        \/ /\ next[f] = NULL
           /\ \A g \in Free : g <= f
        \/ /\ next[f] \in Free
           /\ f < next[f]
           /\ \A g \in Free : g <= f \/ next[f] <= g

(* No two free blocks touch: k_free merges with the one before and the one *)
(* after, and k_malloc never leaves two pieces side by side.  Without it a *)
(* request could fail with enough contiguous memory free.                  *)
Coalesced == \A f \in Free : End(f) \notin Free

(* First fit: every free block the search of k_malloc has gone past is too *)
(* small for the request.                                                  *)
PassedTooSmall ==
    pc = "find" => node \in Free /\ \A f \in Free : f < node => TooSmall(f)

(* The walk of k_free brackets the block: previous is a free block below   *)
(* it and node its successor, and where the walk stops there is a previous *)
(* one: k_free writes through it without a test for NULL.                  *)
SeekBrackets ==
    pc = "seek" =>
        /\ to_free \in live
        /\ previous = NULL => node = Head
        /\ previous # NULL => previous < to_free /\ next[previous] = node
        /\ node = NULL \/ node >= to_free => previous # NULL /\ node # to_free

(* Once every block has been given back the heap is again the one free     *)
(* block k_malloc_init made, whatever the order of the frees: nothing leaks*)
(* and nothing stays fragmented.                                           *)
AllFreedRestoresHeap ==
    pc = "idle" /\ live = {} =>
        size[Head] = HeapSize - Header /\ next[Head] = NULL

(* A block in use is not touched by the calls for other blocks: while it   *)
(* stays allocated its header, and so its place and its extent, is the one *)
(* k_malloc wrote.                                                         *)
LiveBlocksUntouched ==
    [][\A b \in live : b \in live' => size'[b] = size[b] /\ next'[b] = NULL]_vars

(* k_malloc and k_free return: both walks come to an end.                  *)
CallsReturn == pc # "idle" ~> pc = "idle"

(* The heap promises what HeapSpec says, seen from its callers: the ranges *)
(* behind the live headers are owned, and the search of k_malloc is the    *)
(* request being considered.  That a refusal means no room anywhere rests  *)
(* on every free run being one block.                                      *)
Owned == [p \in {b + Header : b \in live} |-> size[p - Header]]
Request == IF pc = "find" THEN wanted ELSE -1

Promise == INSTANCE HeapSpec WITH owned <- Owned, request <- Request

ImplementsHeapSpec == Promise!SpecSpec
=============================================================================
