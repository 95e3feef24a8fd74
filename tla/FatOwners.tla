----------------------------- MODULE FatOwners -----------------------------
(***************************************************************************)
(* What the allocation of clusters promises the files of a volume: a       *)
(* cluster belongs to one file or to none, it comes to a file only from    *)
(* the free ones, and a file loses its clusters only all together.         *)
(***************************************************************************)
EXTENDS Integers

CONSTANTS
    Data,       \* clusters that hold the contents of files
    Files,
    Nobody,     \* the owner of a free cluster
    Limbo       \* allocated, but of no file: being created, being freed, lost

VARIABLES
    owner,      \* of each cluster
    restarts,   \* how often the power has gone
    damaged     \* a failure was ignored: nothing is promised any more

ownerVars == <<owner, restarts, damaged>>

OwnedBy(f) == {c \in Data : owner[c] = f}

OwnersInit ==
    /\ owner = [c \in Data |-> Nobody]
    /\ restarts = 0
    /\ ~damaged

Claim(c) ==
    /\ owner[c] = Nobody
    /\ owner' = [owner EXCEPT ![c] = Limbo]

(* a file that is being created gets its first cluster *)
Enter(f, c) ==
    /\ OwnedBy(f) = {}
    /\ owner[c] = Limbo
    /\ owner' = [owner EXCEPT ![c] = f]

Append(f, c) ==
    /\ OwnedBy(f) # {}
    /\ owner[c] = Nobody
    /\ owner' = [owner EXCEPT ![c] = f]

Drop(f) ==
    owner' = [c \in Data |-> IF owner[c] = f THEN Limbo ELSE owner[c]]

Reclaim(c) ==
    /\ owner[c] = Limbo
    /\ owner' = [owner EXCEPT ![c] = Nobody]

(* A restart may find a cluster free again, or lost: never with a new file.*)
Restart ==
    /\ restarts' = restarts + 1
    /\ \A c \in Data : owner'[c] \in {owner[c], Nobody, Limbo}
    /\ owner' \in [Data -> Files \cup {Nobody, Limbo}]

Promised ==
    \/ /\ \/ \E c \in Data : Claim(c) \/ Reclaim(c)
          \/ \E f \in Files, c \in Data : Enter(f, c) \/ Append(f, c)
          \/ \E f \in Files : Drop(f)
       /\ UNCHANGED restarts
    \/ Restart

OwnersNext ==
    \/ damaged'
    \/ ~damaged /\ ~damaged' /\ Promised

OwnersSpec == OwnersInit /\ [][OwnersNext]_ownerVars
=============================================================================
