------------------------------ MODULE FileSpec ------------------------------
(***************************************************************************)
(* What files are to those who read and write them: a file is a sequence   *)
(* of bytes, a handle a position in one.  A write that begins behind the   *)
(* end leaves zeroes between; it may stop early and says where.            *)
(***************************************************************************)
EXTENDS Integers, Sequences

CONSTANTS
    Files, Handles,
    Buffers,        \* what is written: sequences of bytes
    Requests,       \* how much is asked for in a read
    Positions       \* positions a handle may be at

VARIABLES
    content,        \* file |-> its bytes, for the files there are
    handle,         \* handle |-> [file, at], for the handles in use
    reply,          \* what the last call returned
    misused         \* a use has occurred for which nothing is promised

fileVars == <<content, handle, reply, misused>>

NoReply == [count |-> 0, bytes |-> <<>>]

(* content with more bytes written at a position *)
Overwrite(old, at, new) ==
    LET end == at + Len(new)
    IN  [i \in 1 .. IF Len(old) > end THEN Len(old) ELSE end |->
            IF i > at /\ i <= end THEN new[i - at]
            ELSE IF i <= Len(old) THEN old[i] ELSE 0]

FileInit ==
    /\ content = [f \in {} |-> <<>>]
    /\ handle = [h \in {} |-> [file |-> 0, at |-> 0]]
    /\ reply = NoReply
    /\ ~misused

(* a new handle is at no particular position *)
OpenAt(h, f) ==
    /\ \E at \in Positions :
          handle' = [x \in DOMAIN handle \cup {h} |->
                        IF x = h THEN [file |-> f, at |-> at] ELSE handle[x]]
    /\ reply' = NoReply

Open(h, f) ==
    /\ f \in DOMAIN content
    /\ OpenAt(h, f)
    /\ UNCHANGED content

Create(h, f) ==
    /\ f \notin DOMAIN content
    /\ OpenAt(h, f)
    /\ content' = [x \in DOMAIN content \cup {f} |-> IF x = f THEN <<>> ELSE content[x]]

Drop(h) ==
    /\ handle' = [x \in DOMAIN handle \ {h} |-> handle[x]]
    /\ reply' = NoReply
    /\ UNCHANGED content

Delete(f) ==
    /\ f \in DOMAIN content
    /\ content' = [x \in DOMAIN content \ {f} |-> content[x]]
    /\ reply' = NoReply
    /\ UNCHANGED handle

Seek(h) ==
    /\ \E at \in Positions : handle' = [handle EXCEPT ![h].at = at]
    /\ reply' = [NoReply EXCEPT !.count = handle'[h].at]
    /\ UNCHANGED content

Write(h, bytes) ==
    \E n \in 0 .. Len(bytes) :
        LET f == handle[h].file
        IN  /\ content' = [content EXCEPT ![f] =
                              Overwrite(@, handle[h].at, SubSeq(bytes, 1, n))]
            /\ handle' = [handle EXCEPT ![h].at = @ + n]
            /\ reply' = [NoReply EXCEPT !.count = n]

Read(h, n) ==
    LET file == content[handle[h].file]
        at   == handle[h].at
        left == IF at > Len(file) THEN 0 ELSE Len(file) - at
        m    == IF n < left THEN n ELSE left
    IN  /\ reply' = [count |-> m, bytes |-> SubSeq(file, at + 1, at + m)]
        /\ handle' = [handle EXCEPT ![h].at = @ + m]
        /\ UNCHANGED content

Promised ==
    \/ \E h \in Handles, f \in Files : Open(h, f) \/ Create(h, f)
    \/ \E f \in Files : Delete(f)
    \/ \E h \in DOMAIN handle :
          \/ Drop(h)
          \/ Seek(h)
          \/ \E n \in Requests : Read(h, n)
          \/ \E bytes \in Buffers : Write(h, bytes)

FileNext ==
    \/ misused'
    \/ ~misused /\ ~misused' /\ Promised

FileSafety == FileInit /\ [][FileNext]_fileVars
=============================================================================
