----------------------------- MODULE Fat32File -----------------------------
(***************************************************************************)
(* Files of fs/fat32.c: what opening, reading, writing, seeking and        *)
(* removing do to sizes, bytes and the nodes handed out.                   *)
(*                                                                         *)
(* The clusters of a file are the ones FatOwners says are its own, so a    *)
(* file is the bytes of its clusters in the order of its chain; which      *)
(* clusters they are does not matter, only how many are left.  A call is   *)
(* one step.  The two loops of a read and a write are given by where they  *)
(* get to: past k clusters to the offset, then on until the request is     *)
(* done or the chain ends and cannot grow.  It cannot when allocate_cluster *)
(* finds no free cluster or fails to write its zeroes: got is how many     *)
(* clusters a call may get, all that are free unless a zeroing fails.      *)
(***************************************************************************)
EXTENDS Integers, Sequences, FiniteSetsExt

CONSTANTS
    Files, Handles,
    Bytes,          \* what a byte may be; 0 is one of them
    ClusterSize,    \* 512 in the code
    Clusters,       \* number of clusters for the data of files
    Wrap,           \* 2^32 in the code: arithmetic on sizes is modulo this
    MaxOffset,      \* bound on the offset of a node
    MaxRequest,     \* bound on the size of a read
    Buffers,        \* what is written: sequences of bytes
    BadClusters,    \* sets of clusters of a file whose transfer fails in a call
    Saves           \* whether the write of an entry may succeed, and fail

ASSUME FileAssumption ==
    /\ ClusterSize \in Nat \ {0}
    /\ Clusters \in Nat
    /\ MaxOffset \in Nat
    /\ MaxRequest \in Nat
    /\ Wrap \in Nat
    /\ Wrap > 2 * (MaxOffset + MaxRequest)
    /\ Bytes \subseteq Nat
    /\ Buffers \subseteq Seq(Bytes)
    /\ \A b \in Buffers : Len(b) <= MaxRequest
    /\ 0 \in Bytes
    /\ {} \in BadClusters
    /\ Saves \subseteq BOOLEAN

VARIABLES
    size,       \* file |-> the size in its directory entry, for the files there are
    data,       \* file |-> the bytes of its clusters
    node,       \* handle |-> the node behind it, for the handles in use
    reply,      \* what the last call returned, what it put in the buffer, how many
                \* bytes it was asked to write, and whether it could not zero a
                \* free cluster it needed
    room,       \* how many of the clusters are free
    misused     \* ghost: the uses that have occurred for which the code has no test

vars == <<size, data, node, reply, room, misused>>

NoReply   == [count |-> 0, bytes |-> <<>>, asked |-> 0, unzeroed |-> FALSE]
Untouched == -1                 \* a byte of the buffer that was not written
Requests  == 0 .. MaxRequest
Offsets   == 0 .. MaxOffset

Have(f) == Len(data[f]) \div ClusterSize

Zeroes(n) == [i \in 1 .. n * ClusterSize |-> 0]

(* A file opened while it is open ("shared"), a read behind the end         *)
(* ("behind"), a write so far behind the end that the chain, for want of   *)
(* a cluster or of a zeroed one, does not reach its offset ("astray"), and *)
(* failures that are not looked at, of a transfer of bytes ("unchecked")   *)
(* and of save_descriptor ("unsaved").                                     *)
If(kind, occurs) == IF occurs THEN {kind} ELSE {}

Use(kinds) == misused' = misused \cup kinds

-----------------------------------------------------------------------------
(* The first loop of write_bytes_in_file and read_bytes_from_file skips k  *)
(* clusters, and makes the chain longer where it has to.                   *)

Skipped(offset) == IF offset = 0 THEN 0 ELSE (offset - 1) \div ClusterSize

(* clusters of a chain of have that is to have want *)
GrownOneShort(have, want, got) == Max({have, Min({want - 1, have + got})})

Grown(have, want, got) == Max({have, Min({want, have + got})})

Longer(f, chain) == data[f] \o Zeroes(chain - Have(f))

(* where a write of n bytes ends in a chain, and the length of the file    *)
EndOfRequest(at, n, chain) == at + n

EndOf(at, n, chain) == Min({at + n, chain * ClusterSize})

LengthIsEnd(length, end) == end

LengthAfter(length, end) == Max({length, end})

(* the first piece of a request: up to the end of the cluster *)
FirstPiece(offset, n) == Min({n, ClusterSize - (offset - Skipped(offset) * ClusterSize)})

(* bytes as the clusters of bad would have kept or not given them *)
Spare(old, new, bad) ==
    [i \in DOMAIN new |-> IF (i - 1) \div ClusterSize \in bad THEN old[i] ELSE new[i]]

-----------------------------------------------------------------------------
(* fat32_open_file; vfs_file_create_descriptor leaves the offset what the  *)
(* memory held.                                                            *)
NodeFor(h, f, bytes) ==
    /\ Use(If("shared", \E x \in DOMAIN node : x # h /\ node[x].file = f))
    /\ \E at \in Offsets :
          node' = [x \in DOMAIN node \cup {h} |->
                      IF x = h THEN [file |-> f, size |-> bytes, offset |-> at]
                      ELSE node[x]]
    /\ reply' = NoReply

OpenFile(h, f) ==
    /\ f \in DOMAIN size
    /\ NodeFor(h, f, size[f])
    /\ UNCHANGED <<size, data, room>>

CreateUnchecked(h, f) ==
    /\ f \notin DOMAIN size
    /\ size' = [x \in DOMAIN size \cup {f} |-> IF x = f THEN 0 ELSE size[x]]
    /\ data' = [x \in DOMAIN data \cup {f} |-> IF x = f THEN Zeroes(1) ELSE data[x]]
    /\ room' = room - 1
    /\ NodeFor(h, f, 0)

(* with O_CREAT, for a name that is not found; the volume is not full, and *)
(* the first cluster is zeroed                                             *)
CreateFile(h, f) ==
    /\ f \notin DOMAIN size
    /\ room > 0
    /\ size' = [x \in DOMAIN size \cup {f} |-> IF x = f THEN 0 ELSE size[x]]
    /\ data' = [x \in DOMAIN data \cup {f} |-> IF x = f THEN Zeroes(1) ELSE data[x]]
    /\ room' = room - 1
    /\ NodeFor(h, f, 0)

(* There is no call to close a file: its users forget the node. *)
Forget(h) ==
    /\ node' = [x \in DOMAIN node \ {h} |-> node[x]]
    /\ reply' = NoReply
    /\ UNCHANGED <<size, data, room, misused>>

(* fat32_remove_file, of a file nobody uses a node of *)
RemoveFile(f) ==
    /\ f \in DOMAIN size
    /\ \A h \in DOMAIN node : node[h].file # f
    /\ size' = [x \in DOMAIN size \ {f} |-> size[x]]
    /\ data' = [x \in DOMAIN data \ {f} |-> data[x]]
    /\ room' = room + Have(f)
    /\ reply' = NoReply
    /\ UNCHANGED <<node, misused>>

(* write_bytes_in_file and fat32_write_file; saved is what save_descriptor  *)
(* returns, the size in the node is the new one in any case                *)
Write(h, bytes, got, bad, saved) ==
    LET f      == node[h].file
        at     == node[h].offset
        n      == Len(bytes)
        \* the last cluster the request needs, and the clusters it gets
        want   == Max({Skipped(at) + 1, (at + n + ClusterSize - 1) \div ClusterSize})
        chain  == Grown(Have(f), want, got)
        lost   == chain <= Skipped(at)
        end    == EndOf(at, n, chain)
        count  == IF lost THEN FirstPiece(at, n) ELSE end - at
        old    == Longer(f, chain)
        new    == [i \in DOMAIN old |->
                      IF ~lost /\ i > at /\ i <= end THEN bytes[i - at] ELSE old[i]]
        length == LengthAfter(node[h].size, at + count)
    IN  /\ Use(If("astray", lost) \cup If("unchecked", bad # {}) \cup If("unsaved", ~saved))
        /\ room' = room - (chain - Have(f))
        /\ data' = [data EXCEPT ![f] = Spare(old, new, bad)]
        /\ size' = IF saved THEN [size EXCEPT ![f] = length] ELSE size
        /\ node' = [node EXCEPT ![h] = [file |-> f, size |-> length, offset |-> at + count]]
        /\ reply' = [NoReply EXCEPT !.count = count, !.asked = n,
                                    !.unzeroed = Have(f) + got < want /\ got < room]

(* read_bytes_from_file and fat32_read_file.  Behind the end the length    *)
(* that is left wraps, and the way to the offset takes new clusters.  A    *)
(* piece behind the last cluster is counted but not read.                  *)
Left(length, at) == (length - at) % Wrap

Read(h, n, got, bad) ==
    LET f     == node[h].file
        at    == node[h].offset
        m     == Min({n, Left(node[h].size, at)})
        chain == Grown(Have(f), Skipped(at) + 1, got)
        bytes == Longer(f, chain)
        lost  == chain <= Skipped(at)
        there == Len(bytes) - at
        count == IF lost THEN FirstPiece(at, m)
                 ELSE IF m <= there THEN m
                 ELSE there + Min({ClusterSize, m - there})
    IN  /\ Use(If("behind", at > node[h].size) \cup If("unchecked", bad # {}))
        /\ room' = room - (chain - Have(f))
        /\ data' = [data EXCEPT ![f] = bytes]
        /\ node' = [node EXCEPT ![h].offset = at + count]
        /\ reply' = [NoReply EXCEPT !.count = count, !.bytes =
                        [i \in 1 .. count |->
                            IF at + i > Len(bytes) \/ (at + i - 1) \div ClusterSize \in bad
                            THEN Untouched ELSE bytes[at + i]]]
        /\ UNCHANGED size

(* fat32_lseek: where each whence leads *)
SeekSet(h, offset) == IF offset > node[h].offset THEN offset ELSE 0
SeekCur(h, offset) == node[h].offset + offset
SeekEnd(h, offset) == node[h].offset + node[h].size + offset

Seek(h, offset) ==
    \E at \in {SeekSet(h, offset), SeekCur(h, offset), SeekEnd(h, offset)} \cap Offsets :
        /\ node' = [node EXCEPT ![h].offset = at]
        /\ reply' = [NoReply EXCEPT !.count = at]
        /\ UNCHANGED <<size, data, room, misused>>

Init ==
    /\ size = [f \in {} |-> 0]
    /\ data = [f \in {} |-> <<>>]
    /\ node = [h \in {} |-> [file |-> 0, size |-> 0, offset |-> 0]]
    /\ reply = NoReply
    /\ room = Clusters
    /\ misused = {}

Next ==
    \/ \E h \in Handles, f \in Files : OpenFile(h, f) \/ CreateFile(h, f)
    \/ \E f \in Files : RemoveFile(f)
    \/ \E h \in DOMAIN node :
          \/ Forget(h)
          \/ \E offset \in (-MaxOffset) .. MaxOffset : Seek(h, offset)
          \/ /\ node[h].offset + MaxRequest <= MaxOffset
             /\ \E got \in 0 .. room, bad \in BadClusters :
                   \/ \E n \in Requests : Read(h, n, got, bad)
                   \/ \E bytes \in Buffers, saved \in Saves :
                         Write(h, bytes, got, bad, saved)

Spec == Init /\ [][Next]_vars

-----------------------------------------------------------------------------
(* Properties *)

TypeOK ==
    /\ DOMAIN size \subseteq Files
    /\ DOMAIN data = DOMAIN size
    /\ \A f \in DOMAIN size :
          /\ size[f] \in Nat
          /\ data[f] \in Seq(Bytes)
          /\ Len(data[f]) % ClusterSize = 0
    /\ DOMAIN node \subseteq Handles
    /\ \A h \in DOMAIN node : node[h] \in [file : DOMAIN size, size : Nat, offset : Offsets]
    /\ room \in Nat
    /\ reply.count \in Nat
    /\ misused \subseteq {"shared", "behind", "astray", "unchecked", "unsaved"}

(* No directory entry and no node promises more bytes than the clusters of *)
(* the file hold: read_bytes_from_file relies on it to stay in the chain.  *)
(* Neither a file opened twice nor a cluster or an entry that is not read  *)
(* or written changes that; only a write whose offset the chain does not reach does.  *)
SizeWithinChain == "astray" \notin misused =>
    /\ \A f \in DOMAIN size : size[f] <= Len(data[f])
    /\ \A h \in DOMAIN node : node[h].size <= Len(data[node[h].file])

(* write_bytes_in_file stops early only when allocate_cluster gave it      *)
(* nothing: no cluster is free, or the zeroes of one were not written.     *)
ShortWriteMeansNoCluster == reply.count < reply.asked => room = 0 \/ reply.unzeroed

(* fs/fat32.c:363 says "Return the number of bytes written": so many bytes *)
(* of the buffer are in the file after a write.                            *)
CountsBytesWritten ==
    [][\A h \in DOMAIN node, bytes \in Buffers :
          (\E got \in 0 .. room : Write(h, bytes, got, {}, TRUE)) =>
              LET f == node[h].file
                  at == node[h].offset
              IN  \A k \in 1 .. reply'.count :
                      at + k <= Len(data'[f]) /\ data'[f][at + k] = bytes[k]]_vars

Spf == INSTANCE FileSpec WITH
    Positions <- Offsets,
    content   <- [f \in DOMAIN size |-> SubSeq(data[f], 1, size[f])],
    reply     <- [count |-> reply.count, bytes |-> reply.bytes],
    misused   <- misused # {},
    handle    <- [h \in DOMAIN node |-> [file |-> node[h].file, at |-> node[h].offset]]

(* As long as none of the uses above occurs, files are what FileSpec says: a read       *)
(* returns what was written, whatever cluster boundaries lie between, and  *)
(* removing or extending one file leaves the others as they are.           *)
ImplementsFileSpec == Spf!FileSafety
=============================================================================
