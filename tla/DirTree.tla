------------------------------ MODULE DirTree ------------------------------
(***************************************************************************)
(* What the directories of a volume are to those who name files in them:   *)
(* the names that can be found in each.  A call about one name changes     *)
(* what is found under that name and nothing else; a new directory is      *)
(* empty, and directories are never removed.                               *)
(***************************************************************************)
CONSTANTS
    Sites,      \* where a directory may begin
    Top,        \* the root directory
    Names

VARIABLES
    tree,       \* the directories there are; the pairs of one and a name found in it
    damaged     \* nothing is promised any more

treeVars == <<tree, damaged>>

(* calls that lead from the tree t to the tree u *)
Nothing(t, u) == u = t

NewFile(t, u) ==
    \E d \in t.dirs, n \in Names :
        /\ <<d, n>> \notin t.found
        /\ u = [t EXCEPT !.found = @ \cup {<<d, n>>}]

NewDirectory(t, u) ==
    \E d \in t.dirs, n \in Names, c \in Sites \ t.dirs :
        /\ <<d, n>> \notin t.found
        /\ u = [dirs |-> t.dirs \cup {c}, found |-> t.found \cup {<<d, n>>}]

Forget(t, u) ==
    \E d \in t.dirs, n \in Names :
        /\ <<d, n>> \in t.found
        /\ u = [t EXCEPT !.found = @ \ {<<d, n>>}]

TreeInit ==
    /\ ~damaged
    /\ tree \in [dirs : SUBSET Sites, found : SUBSET (Sites \X Names)]
    /\ Top \in tree.dirs
    /\ \A x \in tree.found : x[1] \in tree.dirs

TreeNext ==
    \/ damaged'
    \/ /\ ~damaged /\ ~damaged'
       /\ \E t \in {tree}, u \in {tree'} :
             Nothing(t, u) \/ NewFile(t, u) \/ NewDirectory(t, u) \/ Forget(t, u)

TreeSpec == TreeInit /\ [][TreeNext]_treeVars
=============================================================================
