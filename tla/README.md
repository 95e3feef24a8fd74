# FileOS: specifications and proofs

FileOS is a small 32-bit x86 kernel in C. It sets up its tables and
interrupts, a heap, a text console with a keyboard, floppy and ATA drivers, and
a virtual file system with one file system behind it, FAT32. Nothing of it has
tests. This directory holds TLA+ modules translated from that code, the TLC
configurations that check them on small instances, and proofs, checked by
TLAPS, that hold for every instance.

Everything runs on one thread. Concurrency comes from interrupt handlers
(keyboard, floppy, timer); failure comes from devices that refuse a transfer
and from the power going between two transfers.

## 1. Inventory

For each component: the state it keeps, what it does, whom it meets, what is
hard about it, and what would make it correct.

| component | code | state | operations |
|---|---|---|---|
| Kernel heap | `libc/memory.c` | headers in the heap, `head` | `k_malloc_init`, `k_malloc`, `k_free`, `k_realloc` |
| FAT32 table cache | `fs/fat32.c` 379-426 | `FAT32_PARTITION.buffer`, `current_sector`, `buffer_loaded`, `buffer_changed`, two copies on disk | `load_fat_sector`, `save_current_fat`, writes into the buffer |
| FAT32 chains | `fs/fat32.c` 270-289, 428-546 | the table, the clusters | allocate, extend, walk, free a chain |
| FAT32 directories | `fs/fat32.c` 153-184, 230-265, 566-763 | entries in the clusters of a directory | search, create an entry, make/open/list a directory, resolve a path |
| FAT32 files | `fs/fat32.c` 108-151, 194-228, 300-377 | size, first cluster, the copy of both in an open node, offset | open, read, write, seek, remove |
| Virtual file system | `fs/vfs.c` | device table, partition table, nodes | register, find partitions, dispatch on drive letter |
| ATA PIO | `drivers/ata/ata.c` | two devices, the controller's registers | identify, read, write, poll |
| Floppy DMA | `drivers/floppy/floppy_dma.c`, `floppy_common.c` | `floppy_dma_waiting`, DMA buffer, DOR | command, wait for IRQ6, seek, retry |
| Floppy PIO | `drivers/floppy/floppy_pio.c`, `floppy.c` | `floppy_buffer_index`, `floppy_buffer_size` | transfer byte by byte, retry |
| Console | `drivers/screen.c`, `drivers/keyboard.c`, `kernel/kernel.c` | cursor, screen, key state, `sh_buffer` | print, scroll, decode a scan code, edit the line |
| Interrupts, timer | `cpu/isr.c`, `cpu/timer.c` | handler table, tick | acknowledge, dispatch |
| Strings, arithmetic | `libc/strings.c`, `libc/math.c`, `kernel/util.c` | `strtok`'s position | pure functions |
| Tasks | `task/` | `current_task` | made once; the switch is unfinished |
| Boot, segments, paging | `boot/`, `cpu/gdt*`, `cpu/pages.c` | tables set once | none afterwards |
| Archive | `archive/` | - | not built |

How they meet. `main` initialises the heap, the interrupt tables and the
console, enables interrupts, then initialises the floppy and ATA drivers.
`ata_init` registers a device with the virtual file system and asks it to find
partitions; `fat32_find_partition` reads the boot sector and registers a
partition, a table of FAT32's methods. A call on a path goes through the drive
letter to those methods; they call `vfs_device_read` and `vfs_device_write`,
which call the driver. Path copies, nodes and partition descriptors live on the
heap. The keyboard's interrupt prints on the console `main` prints on.

What is hard, and what makes each part correct:

* **Heap.** Four ways to relink in `k_free`, a search that relies on the order
  of the list, blocks of size zero. Correct if blocks tile the heap, the list
  is the free blocks in order and none touch, no live block is written to,
  searches end, and a request fails only for want of room.
* **Table cache.** A load evicts; an eviction is two writes; each can fail.
  Correct if it is an array of entries to its callers whatever is evicted, the
  two copies agree, and a restart finds one past state of the array.
* **Chains.** Each step of an allocation or a removal may evict a dirty sector;
  results of loads are not always looked at; the power may go. Correct if no
  cluster belongs to two files, none is lost, none comes with another file's
  bytes, every walk ends, and what a call did is on the disk when it returns.
* **Directories.** Search across clusters, reuse of deleted entries, growth.
  Correct if a name is found exactly when it was created and not removed, and a
  new entry overwrites no other.
* **Files.** Offsets at multiples of the cluster size, reading to the end, a
  node that outlives its file. Correct if a read returns what was written.
* **Virtual file system.** Tables filled once and indexed by a letter, a pointer
  kept from one drive to the next. Correct if the letters are the volumes and no
  two of them keep a table of one disk.
* **ATA.** Polls without limit, a sector's number spread over four registers, its top
  four bits beside the drive's, a drive that goes on storing after the call has
  returned. Correct if a call moves the sectors asked for and no others, reports
  failures, and returns.
* **Floppy.** One flag between a handler and a loop, retries, no timeout, an end
  of track in the middle of a request. Correct if each wait ends with its own
  command, success means that the sectors were moved, and every call returns.
* **Console.** Printing from a handler and from `main` at once; a line buffer
  that is never emptied; the scroll at the last row. Correct if the screen shows
  what was printed, the line is what was typed, and every interrupt is served.

The list of hazards, each at its line and with the property that covers it or
the reason none does, is in `PROJECT.json`.

## 2. Modules

| module | models | state |
|---|---|---|
| `HeapSpec` | what the heap promises its callers | `owned`, `request` |
| `Heap` | `libc/memory.c`, a step per turn of a loop | `size[a]`, `next[a]` are the header at address `a`; `pc` and the locals `node`, `previous`, `to_free` |
| `HeapProofs` | theorems about `Heap` | |
| `FatTable` | what the table promises: an array and its durable past | `table`, `durable`, `restarts` |
| `FatCache` | `load_fat_sector`, `save_current_fat`, one step per transfer | `fat1`, `fat2` on disk; the four fields of the buffer; `phase`, `target`, `result` of the call |
| `FatOwners` | what allocation promises the files | `owner` of each cluster |
| `FatChain` | create, write, remove over `FatCache` | `dir`, `contents` on disk; `pc` and the locals of the functions |
| `FatChainProofs` | theorems about `FatCache` and `FatChain` | |
| `DirTree` | what directories promise: the names found in each | `tree`: the directories there are, and the pairs of one and a name found in it |
| `Fat32Dir` | search, create, make a directory, remove, list; a call is a step | `next` (the table), `slots` (clusters read as entries), `stray`, `givenUp` |
| `Fat32DirProofs` | theorems about `Fat32Dir` | |
| `FileSpec` | what files promise: sequences of bytes, and positions in them | `content`, `handle`, `reply` |
| `Fat32File` | open, create, read, write, seek, remove; a call is a step | `size` and `data` of each file, `node` behind each handle, `room`, `reply` |
| `Fat32FileProofs` | theorems about `Fat32File` | |
| `SectorDevice` | what a disk driver promises the file system | `disk`, `call`, `moved`, `behind` |
| `AtaPio` | `drivers/ata/ata.c` against two drives, one step per access to a register | `task` are the registers, `state`, `active`, `at`, `left` the drive's; `pc` and `call` the driver's |
| `AtaPioProofs` | theorems about `AtaPio` | |
| `Vfs` | `fs/vfs.c` and `ata_init` over volumes of FAT32 | `virtual_devices`, `partitions` with their copies of the table; `node`, the open nodes; `answers`, `boot`, `table`, `entries` of the disks |
| `VfsProofs` | theorems about `Vfs` | |
| `Floppy` | `drivers/floppy/`, both drivers, against a controller | `pc`, `seg`, `tries`, `reply` of the driver, `floppy_dma_waiting`, `index`; `phase`, `out`, `sensed`, `channel` of the hardware |
| `FloppyProofs` | theorems about `Floppy` | |
| `Console` | `screen.c`, `keyboard.c`, the shell of `kernel.c`, `irq_handler` | `screen`, `cursor`, the main program's locals, `high`, `line`, the requests and services of the interrupt controllers |
| `ConsoleProofs` | theorems about `Console` | |
| `MCHeap`, `MCFatChain`, `MCFat32Dir`, `MCFat32File`, `MCAtaPio`, `MCVfs`, `MCFloppy`, `MCConsole` | instances for TLC | |

`FatChain` EXTENDS `FatCache`: an access to the table is a `Fetch` (a `Load`
that may turn into two writes and a read) followed by the step that looks at the
buffer or `Put`s an entry. The other modules meet where one relies on what the
other promises: the transfers of `FatCache` are calls of `SectorDevice`,
`Fat32Dir` reads its table as the array of `FatTable`, `Fat32File` takes
clusters as `FatOwners` gives them, `Vfs` has a table for each letter where
`FatCache` has one.

### Correspondence

**Heap.** `MallocCall` / `FindNext` / `FindFail` / `Take` are `k_malloc`:
entering, a turn of its loop, `return 0`, and everything after the loop.
`FreeCall` / `SeekNext` / `Insert` are `k_free`, `Insert` being the relinking
and both `merge`s at once, as nothing can come between them. `ReallocCall` is
`k_realloc`, which goes through the steps of both. `blocks` and `live` are
ghosts: the C code does not know which addresses hold a header.

**FatCache.** `Load(s)` is `load_fat_sector` past its early return; it decides
whether to save first. `WriteFirst`, `WriteSecond`, `Read` and their `...Fails`
are the transfers, with the code's treatment of each result: a failed first
write leaves the sector dirty, a failed second one leaves it clean, a failed
read leaves the old sector in the buffer. `Put` is
`buffer[offset] = v; buffer_changed = 1`. `PowerCut` is a restart: the disk
stays, memory does not. A transfer of one sector is atomic. `torn` is a ghost
that remembers a save that stopped half-way.

**FatChain.** `pc` names the place in the code: `scan` is the loop of
`find_empty_cluster`, `zero` the `write_cluster` of `allocate_cluster`, `link`,
`term`, `sync` the three parts of `change_fat`, `entry` the `save_descriptor` of
`initialize_node`, `visit` and `next` the two halves of
`traverse_fat_coroutine`, `unlink`, `free`, `mark` those of `fat32_remove_file`
and the loop of `delete_fat_chain`, `flush` the last `save_current_fat` of each.
`Got` is what `get_next_cluster` and `delete_fat_chain` accept, a load that
failed included; `Hit` is what `change_fat` accepts.

Data is abstracted: a cluster holds zeroes, some file's bytes or junk; the
directory is the first cluster of each file. The end-of-chain mark is one value,
where the code writes `0xFFFFFFF` and accepts anything from `0xFFFFFF8` on.
Files have no size: a write may stop at any cluster or go on to any other, which
is what all sizes and offsets together allow. A read that starts behind the chain
makes it longer as well (`fat32.c:313`); what that does to the table and the clusters
is what the steps of a write do, and `Lookup` stands for the reads that stay within
the chain.

**Fat32Dir.** The interleavings inside a call are `FatChain`'s subject; what is
hard here is what a sequence of calls makes of a directory, so a call is one
step and the table is the array `FatTable` says it is. A chain is the least set of
clusters that has the first one in it and that no link leads out of (`Reach`), and
the directories there are (`Dirs`) are what can be reached from the root in the same
way, along the entries that name a directory. An entry is looked at with its place:
`EntriesOf(d)` are those of a directory, `Before` is the order in which the loop of
`find_node_in_directory` meets them, `Stops` are the ones its `switch` leaves the
loop at, `Reusable` those `for_creation` may remember, `Places` is the code after
`after_search`. `Create` is `fat32_open_file` with `O_CREAT` and `fat32_make_dir`;
`written` is the result of `save_descriptor`. `MakeDirWhenFull` is the second of
the two when `initialize_node` gives up, which nothing looks at. `Listing` is
`fat32_list_dir`.

What may fail here is the write of an entry. A new entry that is not written leaves
its cluster allocated and without a name. A deleted one that is not written is the
worse case, as `fat32_remove_file` does not look at the result (`fat32.c:146`): it
frees the chain all the same, and the name is still found. `givenUp` is the set of
first clusters that were freed in that way. Such a name harms no other, and a second
removal repairs the volume; but the next call that takes a cluster may take that one,
and then two names lead to it. This is `Crossed`: the model makes no further call and
the properties about other names promise nothing from there. Reads, the zeroing of a
new cluster and the write of `.` and `..` do not fail here.

A path is the directory its last name is in, and `Dirs` are the ones that
`resolve_path` can reach; a path through a regular file, which the code would read as
a directory, is in `Vfs`, which stops there. What a write adds to the clusters of a
file is in `FatChain`. Three things follow from numbers and are stated as such: a
read or write of "cluster" `0xFFFFFFF` reaches, modulo 2^28, sector
`data_offset - 3`, in the second copy of the table when that has three sectors or
more (`stray`); the load of the table's sector for it, `0x1FFFFF` sectors on, fails
on a disk below 1 GiB; a write of cluster 0 reaches the sector before cluster 1
(`stray` as well).

The driver takes a volume as it finds it. `WellFormed` says what it takes for
granted, and `Init` has it: no chain runs into itself; a directory and a file that
can be found consist of allocated clusters and share none; a directory is named
once and the root never; a directory has no name twice and nothing in use behind an
unwritten entry. An entry may have first cluster 0, as other systems give it to empty
files, to volume labels (which this driver takes for files) and to the `..` of a
directory below the root. It leads nowhere: through such a `..` nothing is found and
nothing can be made, as the search returns at once with no place. Only a directory
with a name of its own must have a cluster. The entries of long names, which the code
reads like any others, are not modelled.

One part of `WellFormed`, `DeletedApart`, is there because of `MakeDirWhenFull`, and
a volume written by another system may not have it: a deleted entry does not lead
into a directory of several clusters. With a full volume `fat32_make_dir` clears the
cluster of the deleted entry it found; if that were the first of two of a directory,
what is in the second would be hidden behind unwritten entries, names there could be
made again, and later creations would bring the hidden ones back. This driver never
lets a directory have two clusters, but it may be given one. `VolumesStayWellFormed`
is that each call keeps all of this.

**Fat32File.** A call is one step here too: which clusters a file has is the
subject of `FatChain`, so a file is the bytes of its clusters one after the other
(`data`), and all that is left of the table is how many clusters are free
(`room`). `size` is the size in the directory entry; a node has a copy of it, as
`FAT32_NODE_INFO` has. The loops of `write_bytes_in_file` and
`read_bytes_from_file` are given by where they get to: `Skipped` clusters before
the offset, a chain `Grown` as far as the request and the volume allow, an end. A
chain does not grow when `allocate_cluster` returns 0, which it does when no cluster
is free and also when it cannot write the zeroes of the one it found
(`fat32.c:480-482`): `got` is how many clusters the call is given, all that are free
unless a zeroing fails. `reply.unzeroed` says that one did.
`Skipped` keeps what the code does at a multiple of the cluster size: it stays in
the cluster before, and the first piece is empty. `bad` are the clusters whose
transfer fails: the pieces are counted all the same, which is what the code does
with the result. `Left` is the subtraction of `read_bytes_from_file`, on unsigned
numbers of 32 bits (`Wrap`). `NodeFor` leaves the offset of a new descriptor open,
since nothing sets it. `SeekSet`, `SeekCur` and `SeekEnd` are where the three
values of `whence` lead, `SEEK_SET` backwards to 0 included.

A file opened twice, a read that starts behind the end and a write that starts further
behind the end than the chain can be made to reach are all in the model. The code has
no test for any of them, nor for a transfer of a piece that fails or an entry that is
not written back (`saved`, `fat32.c:366`); `misused` is the set of those that have
occurred ("shared", "behind", "astray", "unchecked", "unsaved"), and `FileSpec`
promises nothing once there is one. `SizeWithinChain` allows for one only, a write
that went "astray": for want of a cluster, or of a zeroed one, on the way to its
offset it counts a piece behind the last cluster there is. Removing a file that is
open is left out here and is in `Vfs`.

Each module has ghosts of this kind, for what the code does without looking and
after which it is not in a state its authors meant: `damaged` and `givenUp` of
`Fat32Dir` for a directory made on a full volume and for a removal that was not
written, `faulted` of `FatChain` for a transfer that failed and was taken for a
success, "astray" of `Vfs`. The step that leads there is in the model and what it
does is seen; what is promised from then on is less, and each property says what.

**AtaPio and SectorDevice.** A register written, a command, one turn of a polling
loop, the data of one sector: each is a step, and the drive takes its own steps in
between (`Drive`). A busy drive, or one that waits for data, ignores its registers.
The number of a sector is in three registers and in the lower half of the drive
register, which one access sets together with the drive (`FieldsOf`); `Radix` is how
many values a register has, `Top` how many those four bits have, so the sectors go up
to 2^28 as in the code. A drive is of a kind: it identifies itself as a disk, as
something else, answers and fails, or is not there, with the data lines floating high
or low. `SectorDevice` is what `vfs_device_read` and `vfs_device_write` stand for: the
sectors in order, and one of them possibly accepted and not yet stored (`behind`).
That last part is what the code makes of a write: after the last sector it reads the
status fifteen times (the comments at `ata.c:74` and 114 say "Wait for around 400 ms",
which is what one such loop would be in nanoseconds) and returns without waiting for
the drive or asking for an error. The failure of the last sector of a write is
reported to nobody; and the next call may find the drive still busy, so that its
registers are ignored and a write is lost or goes to the sector before (`overrun`).
`SectorDevice` promises nothing from then on, and the model makes no further call.
`FatCache`, where a transfer of one sector happens or fails and is known to have
failed, rests on a drive that is at rest when it is called, as an emulator's is.

**Vfs.** A call is a step. A partition has a copy of its disk's table (`view`),
written through at the end of each call (`Written`) and never read again, which is
what `load_fat_sector` makes of a table of one sector. The table is reduced to what
tells chains apart: for each cluster, the first cluster of its chain, or 0. An entry
is a first cluster and a type, and has a place, a slot of a directory; names are not
needed, as a path may lead to any place of any directory (`OnPath`). A new entry may
make its directory longer by a cluster (`Initialize`), and where there is no cluster
for a new file a node is handed out all the same (`CreateWithoutCluster`).

`node` are the open nodes: partition, place of the entry, the copy of the entry that
`FAT32_NODE_INFO` has, and which methods the node was given. `Relative` is a call
that is given a node: it searches the partition of that node, from its directory or
from the root, so it reaches what a path reaches. `OnNode` is a call of a method. A
read may take clusters (`ReadFile`); a write takes clusters and writes its copy of
the entry back (`WriteFile`). When the file has been removed in the meantime (`Gone`)
that brings back an entry whose clusters are free or another file's (`WriteGone`,
`vfs.c:302`, `fat32.c:210`); when a path leads through a regular file, or a call is
given the node of one, the bytes of that file are read as a directory
(`ThroughFile`). After either, after a letter behind the table, an unset device that
leads anywhere, or `list_dir` of a file, which calls through whatever is there, `pc`
is "astray" and nothing follows. Failing transfers are left out, and so is what a
directory made on a full volume writes; both are in `Fat32Dir`.

`device` of `ata_init` is kept from drive to drive, as in the code: when only the
master answers, its volume is registered as A and as B.

**Floppy.** `floppy_wait` is two steps, the loop and the reset of the flag, and
`irq6_handler` runs when the controller raises its interrupt, before, between or
after them. A command is taken as a whole if the controller is idle and is lost
otherwise, as `floppy_write_cmd` gives up after 600 polls and no caller looks at
its result; the bytes of a result are read one by one, each 0 while the
controller executes. The controller goes on from head 0 to head 1 (`MT`) until the
DMA channel has counted to its end, and may or may not report the end of the
cylinder. `stray` is an interrupt from before the first command: the controller
raises one when it leaves reset, and nobody waits for it. `Garbage` is what the
data register gives when there is nothing to read: 0 (an emulator's answer) or
255. The motor is left out, as nothing waits for it, and so is the second drive:
`floppy_do_track` and `floppy_seek` never put its number into a command.

**Console.** `main` takes a step for each access to the cursor's registers, each
character and each row it scrolls; between any two the keyboard's interrupt may
run, as a step of its own, since handlers run with interrupts disabled. It takes
the code, flips `high`, edits the line and prints. `paper` is a ghost: what has
been printed, without a screen's limits. `typed` is what was typed, by one who
knows which keys are down. `raced` remembers that a handler printed inside a
message, which moves the cursor under `main`; `outside` that a backspace wrote in
front of video memory; `odd` that a modifier was used which `high` does not follow.

Definitions named for a mistake (`LoadIgnoresDirty`, `UnlinkKeepsChain`, ...)
stand before the definition they vary. They are not part of a specification:
putting one in place of the original shows that the property it is listed with
in `PROJECT.json` notices.

## 3. Runs

| run | instance | bounds | shows |
|---|---|---|---|
| `heap` | `MCHeap.cfg` | heap of 14 units, header 2, sizes 0, 1, 2, 3, 5 | free list, tiling, the loop invariant of `k_free`, `LiveBlocksUntouched`, `CallsReturn`, refinement of `HeapSpec` |
| `chains` | `MCFatChain.cfg` | 2 files, 2 sectors of 4 entries, 3 data clusters that exist and 2 that do not, one failing transfer of any kind | no cross link, no leak, durability on return, what a restart would find, a clean buffer, refinement of `FatOwners` and `FatTable`, `CallsReturn` |
| `chains_power_cuts` | `MCFatChainPowerCuts.cfg` | 1 sector of 6 entries, all of which are clusters; a power cut anywhere, one failure | no cross link and no stale bytes across a restart, agreement of the copies; a full table |
| `directories` | `MCFat32Dir.cfg` | 4 clusters of 3 entries, 3 names; a fresh volume, one with a directory whose `..` is cluster 0, one whose root is a chain of two clusters with a file, an empty file of cluster 0 and a deleted entry; the write of any new or removed entry may fail | unique names, an entry is found where it was put, entries lead to clusters of their own, listing and search agree, refinement of `DirTree` |
| `directory_growth` | `MCFat32DirGrow.cfg` | as `directories` | violated: see Findings |
| `files` | `MCFat32File.cfg` | 2 files, one node, 3 clusters of 2 bytes, offsets to 7, requests to 3 bytes, a zeroing may fail in each call | refinement of `FileSpec`, a short write only for want of a cluster that is free and zeroed |
| `files_shared` | `MCFat32FileShared.cfg` | 1 file, two nodes, 2 clusters of 2 bytes, offsets to 5, requests to 2 bytes; in each call a transfer, a zeroing and the write of the entry may fail | no size exceeds the chain until a write starts where the chain does not reach |
| `write_past_room` | `MCFat32FilePastRoom.cfg` | as `files`, offsets to 6 | violated: see Findings |
| `ata` | `MCAtaPio.cfg` | two drives of every kind, 13 sectors in registers of two values and two values of the upper bits, first sectors 3 and 12, reads and writes of 1 and 2 sectors | refinement of `SectorDevice`, `CallsReturn` |
| `vfs` | `MCVfs.cfg` | two drives that answer or not with any boot sector, 2 clusters besides the root's, 2 entries to a directory, one open node, letters A, B and the 17th | the letters are the volumes; clusters and entries of a disk match |
| `floppy` | `MCFloppy.cfg` | 2 cylinders of 2 tracks of 3 sectors, transfers of 2, 4 requests, 2 calls, 2 tries of each kind | each wait ends with its command, success means moved, `CallsReturn` |
| `console` | `MCConsole.cfg` | a screen of 3 rows of 2 cells, a greeting and a prompt, 3 scan codes of 4 keys, 2 requests of a line without handler | screen and text agree, no backspace off the screen, the line is what was typed, requests are served |

Why these bounds are enough. The heap has room for five headers, so three blocks
in a row with every pattern of free and used neighbours occur, blocks of size
zero and exact fits included. Two sectors are what an eviction needs: with
entries 0 to 3 in the first and 4 to 7 in the second, the three data clusters
3, 4 and 5 make chains that cross in both directions. Entries 6 and 7 stand for a
table with more entries than the device has clusters (`LastCluster`); in the
one-sector instance there are none, so the scan reaches the end of the table
(`ScanFull`). Bounds are `MaxFailures` and `MaxPowerCuts`; nothing else is
unbounded. With three entries to a cluster a directory below the root is full
after one file and the root after three, so full directories, deleted entries
before and in the last cluster, directories within directories and a full volume
all occur within four clusters; `Fat32Dir` needs no further bound, as its state is
the volume and what is known of it. With clusters of two bytes a request of three
crosses one or two boundaries from any offset, and offsets up to 7 lie before, on
and behind each boundary of a file of up to three clusters; two files compete for
those three, so a write meets a full volume at its first and at later pieces. In
`files_shared` a write can start where a chain of one cluster does not reach, so one
that goes astray for want of a zeroing occurs, and offsets reach behind the last byte
the volume could hold; which bytes are written does not matter there, and they are all
zero. (One that goes astray for want of room is `write_past_room`.) Failing writes of
entries are in `files_shared` only (`Saves`).
`MaxOffset`, `MaxRequest` and the buffers are the bounds; `Wrap` is 64, far above
any sum of them, as 2^32 is in the code.

Two values to a register (`Radix`) and to the upper bits (`Top`) make sector 12 need
the third register and the drive's, sector 3 the first two, and two sectors to a call
make a drive fail before, between and after them. Two clusters and two entries to a
directory make a volume full, a directory grow or lie in another, and a cluster change
hands; one node is enough to outlive its file, as the calls by path are the other
user. A transfer of two sectors on a track of three is cut by the size of a transfer,
by the end of a track with the other head to follow and by the end of a cylinder, as
transfers of 8 on tracks of 9 to 36 are; two calls let one leave something to the
next. `Tries`, `SeekTries` and `PioTries` are 2 for 20, 10 and 3: a first try and a
last one. Three codes are enough for a shifted letter, a letter erased and an erasure
too many; six cells scroll within a greeting, a prompt and a letter. `MaxCodes` is
below the length of the line buffer, which has no test for it.

Why two instances for chains. With two sectors a power cut between the write of
the link and the write of the end of the chain leaves a chain that leads to a
free cluster. `RestartFindsFiles` says that this is the most that can go wrong
on the disk at any moment, at most one link, that of the file being written; the
next file created can then take that cluster. FAT without a journal cannot do
better, so the runs that go on after a restart use one sector, where link and
end are one write.

Failures. What may fail in each run is part of its instance: in `directories` the
writes of entries, in the two runs about files transfers, zeroings and the write of
the entry; `chains` lets any one transfer fail. Some of these failures the code
handles, and all properties hold with them. A failed load inside `change_fat` or
`delete_fat_chain`, or a removal whose entry cannot be written, is ignored by the
code; it damages the volume, and `NoCrossLink` does not survive it. `faulted`
remembers it, no further call is made, and what is still shown is that the table
changes one entry at a time (`ImplementsFatTable`) and the buffer stays true
(`CleanBufferOnDisk`).

### Fairness

**Heap and chains.** `FairSpec` is weak fairness of the steps a call takes by
itself. The kernel has one thread and a call runs on it until it returns;
interrupt handlers return. The device answers each transfer, by success or
failure, which is what `CallsReturn` of `AtaPio` says of the driver. No call is
assumed ever to be made.

**AtaPio.** The driver runs, and a drive that is busy gets on (`DriveStep`), by
storing, delivering or failing. Without the second the polls have no end, and the
code sets none.

**Floppy.** The driver runs, and the controller ends the commands it took, one way
or another. With no disk in the drive a real controller does not, and
`floppy_wait` never ends ("TODO - Add timeouts", `floppy_dma.c:22`).

**Console.** `main` runs, and an interrupt that is requested and not blocked is
taken. That the service is ended is what is shown.

### Findings

`directory_growth`. At the end of a chain `traverse_fat_coroutine` returns the
value found in the table, `0xFFFFFFF`, and not 0, so the loops of
`find_node_in_directory` and `fat32_list_dir` turn once more, with that value for
a cluster and the entries of the last one still in the buffer. A full directory
therefore asks `allocate_cluster` to extend the chain of `0xFFFFFFF` and never
grows (`fs/fat32.c:650`; the comment at 648 says "we need to allocated another
cluster"). Two more things follow from it, which the module has (`Places`,
`Listing`) and no run singles out: a deleted entry in the last cluster of a full
directory is recorded in cluster `0xFFFFFFF`, and the new name is written outside
the directory (`fs/fat32.c:635`; comment 644); a full directory is listed with its
last cluster twice and the result is a count, where the comment at 233 says "If
encountered end of directory return 0". That no other name is harmed in any of
these cases is `ImplementsTree`.

`write_past_room`. When the volume fills while `write_bytes_in_file` walks to an
offset behind the end, its cluster is 0 and nothing is written, but the first
piece is counted in the size and in the result (`fs/fat32.c:356`; the comment at
363 says "Return the number of bytes written").

Behaviours that contradict no text of the repository, so that no run is about
them, but that its properties have to except:

* A read that starts behind the end of a file is not limited, as `size - offset`
  wraps, and returns bytes through clusters it allocates (`fs/fat32.c:307`).
* A removal whose deleted entry is not written frees the chain all the same
  (`fat32.c:146`): the name is still found and leads to free clusters, which the next
  calls may take for another name.
* A write through the node of a file that has been removed puts its entry back, over
  what is in that slot now and leading to clusters that are free or another's
  (`vfs.c:302`, `fat32.c:366`).
* A path through a regular file reads the bytes of that file as a directory, and what
  is created there is written into it (`fat32.c:748`).
* A write stops early, with clusters free, when a new cluster cannot be zeroed, as its
  caller is told no more than on a full volume (`fat32.c:482`).
* `fat32_make_dir` on a full volume writes `.` and `..` into the cluster of
  whatever deleted entry it found (`fs/fat32.c:174`).
* With only a master drive its volume has two letters and two copies of its table,
  and each writes over what the other changed (`ata.c:38`).
* A call that finds the drive still storing is lost or misdirected (`ata.c:115`).
* With an interrupt left over, `floppy_wait` ends before the command does: a
  result is then read before it is there, a write to a protected disk may be taken
  for done (its second status byte, 2, stands where the sector size is looked
  for), and the bytes that are left answer the next question, after which a call
  may never return.
* A write by DMA in more than one turn copies from the start of the caller's
  buffer each time (`floppy_dma.c:56`); without DMA the index into the buffer is
  never reset, so all but the first transfer drop their bytes
  (`floppy_pio.c:23`), and a drive that is not there is no error (`floppy_pio.c:74`).
* A key pressed while `main` prints moves the cursor under it, and a backspace
  then may write in front of video memory (`screen.c:138`).

## 4. Proofs

All proofs are for every value of the constants that satisfies the named
assumptions, which say no more than the code's types and the disks it is given
do:

* `DirAssumption`: a cluster has at least two entries (a new directory has `.` and
  `..`), there is a cluster 2, the end of a chain is no cluster, and no file is
  called `.` or `..`.
* `HeapAssumption`: a header has a size and fits in the heap, sizes are naturals.
* `CacheAssumption`: a table has at least one sector and one entry, the
  end-of-chain value is no index of the table, values and volumes have their types.
* `ChainAssumption`: a table has an entry for cluster 2, which is allocated on
  every disk there may be at first (it is the root directory); no file is called
  like one of the marks of a cluster without one ("zero", "junk", "nobody", "limbo").
* `FileAssumption`: a cluster has bytes, 0 is a byte, no buffer is longer than a
  request may be, and twice the largest offset is below `Wrap`: offsets are signed
  numbers of 32 bits and not negative.
* `VfsAssumption`: clusters are numbers other than 0 and the root's, clusters and slots
  are finitely many, and the marks for no entry and an unset pointer are neither.
* `AtaAssumption`: a disk has no more sectors than three registers and the upper bits
  in the drive's can number (2^28 in the code), and a request no more than its counter.
* `ConsoleAssumption`: a position fits in two cursor registers, the line buffer in
  all rows but one, codes are bytes, the boot loader leaves the cursor on the
  screen, and `main` prints no backspace; no more codes are sent than the line
  buffer holds, which is a bound: the code has no test for a longer line.
* `FloppyAssumption`: a disk has sectors and cylinders, a request asks for at
  least one sector and lies on it, the data register gives bytes.

**Heap.** The inductive invariant `IInv` is the type invariant, the shape of the
heap (`Tiling`, `FreeListSorted`, `Coalesced`, and that the head is a free
block), the two loop invariants and what `resizing` stands for. None is
inductive alone: that `k_free` keeps the list sorted needs the walk to bracket
the block (`SeekBrackets`), that needs the list to be sorted; tiling of a merge
needs both neighbours to be those of the list. The proof has a lemma per action
and, for `Insert`, per combination of merges. Then:

* `TypeCorrect`, `TilingHolds`, `FreeListHolds`, `LoopInvariantsHold`: the
  invariants the run checks, and with the last two of them
  `Coalesced` and `PassedTooSmall`.
* `FreeingEverythingRestores`: when nothing is owned, the heap is one free block.
  It follows from tiling and coalescing and is proved only.
* `LiveBlocksStayUntouched`: the action property.
* `Refinement`: `Spec => ImplementsHeapSpec`. The hard step is a refusal: a gap
  long enough for the request lies inside one block, by the tiling (the block
  around an address is found with the least-element theorem of
  `WellFoundedInduction`); that block is free, so it was passed, so it is too
  small.

**Table cache.** `CInv` adds to the type invariant `CleanBufferOnDisk` and
`CopiesAgree` what a save in progress knows (it saves a loaded and dirty buffer). Then
`CacheTypeCorrect` (its `CacheTypeOK` is proved only), `CleanBufferTheorem`,
`CopiesAgreeTheorem`, and `CacheRefinement`: `CacheSpec => ImplementsFatTable`. Every
transfer maps to a stutter or to `Persist`, `Put` to `Write`; arithmetic on `div` and
`mod` (an entry is determined by its sector and offset) is in two lemmas.

**Chains.** Three invariants, each inductive with the ones before it. `ChainType`
is what the locals are at each `pc`: a walk goes on only with numbers that are
entries of the table, so each `Fetch` asks for a sector there is. The theorems of
the cache are about calls in any order; here the same facts are proved of
the steps the driver takes (`ChainsCleanBuffer`, `ChainsCopiesAgree`,
`ChainsRefineTable`), since `Put` is not always of an entry in the sector that was
asked for. `SavedUnlessFaulted` says where in a call the buffer may be dirty, with
`faulted` as the only excuse at the end: `DurableWhenIdleTheorem`.

`NoCrossLink`, `NoStaleBytes`, `NoLeak` and `RestartFindsFiles` speak of chains,
that is of everything reachable from a first cluster, and what a chain reaches
cannot be computed by induction here. The proof turns it round. `Labelled` says
that every file has a region: a set of clusters that contains the one its entry
names and that no link leads out of (`Closed`), neither a link of the table as the
driver reads it nor one of the table on the disk. A chain is the least such set, so
it lies in the region of its file. Regions are disjoint (`Apart`), their clusters
are allocated and hold bytes of their file or zeroes. For what has no leak, regions
must not be too large either: whatever is closed and contains the first cluster
contains the region (`Leads`), which says that it is the chain, without computing
it. A chain that is being freed has a region of its own, `limbo`; the cluster that
is being added has conditions for each `pc` (`Allocating`, `Creating`,
`Extending`), among them that it may be missing on the disk until the save. Each
step gives new regions from the old ones. The theorems `NoCrossLinkTheorem`,
`NoStaleBytesTheorem` and `RestartTheorem` have the form
`Spec => [](Together => P)`: `Together` is that the power has not yet gone or the
table is one sector. The condition is the code's: with two sectors a power cut may
leave a link to a free cluster, and a later file can take that cluster. `NoLeak` and
`ChainsKeepOwners` (the refinement of `FatOwners`) need in addition that at first
no cluster but the root is allocated (`Formatted`): a cluster lost before the
driver started is never found again.

**Directories.** `WellFormed` is inductive (its part about files excepts `Crossed`),
and what the runs check follows from it:
`DirsTypeCorrect`, `NamesAreUnique`, `EntriesStayApart`, `ListingShowsWhatIsFound`,
`PlacedEntriesAreFound`, and `DirectoriesImplementTree`, which is
`Spec => ImplementsTree`. Chains and the set of directories are least sets, so
nothing is computed. That a cluster is in a chain is used through the sets closed
under links, and that there are no more directories than there should be by naming a
set that is closed under their entries (`DirsWithin`). The calls of this module
change a table only by taking a cluster as a chain of its own or by freeing a whole
chain, so the chain of a directory never changes (`ChainStays`), and a step is a
change of slots at fixed places.

The invariant is therefore stated of values (`Kept`: a table, the slots, a set of
directories, and the clusters `G` given up) and shown to be kept by three changes: a
new entry (`MakingKeeps`), a deleted one (`RemovingKeeps`) and the two entries of
`MakeDirWhenFull` in a cluster that may be a directory's (`DamageKeeps`); `Kept` with
`Dirs` is `WellFormed`. A removal whose entry stays is a fourth: the slots are as they
were and a chain is free. What the invariant says of files is therefore that their
clusters are allocated or in `G`, and only while no cluster of `G` has been taken
(`Clash`, which is `Crossed`; `Theirs` is what holds before). Directories are never
given up, so everything about them, and with it names, search and listing, is proved
with no such exception: of the theorems only `EntriesStayApart`,
`DirectoriesImplementTree` and what `VolumesStayWellFormed` says of files have it. Two
facts about the search carry the rest. `HitIs` and `FoundIs`: in such a directory a
name is found exactly when an entry in use has it, wherever deleted ones are, since
nothing in use is behind an unwritten entry and no name is there twice. `PlacePuts`:
the slot chosen for a name that is not found holds nothing that is in use and has
nothing unwritten before it, or it is in no directory at all, which is what happens to
a directory that is full. For the listing, `SeenFits` bounds what two turns over a
directory can show by numbering turns, clusters and slots, so that the buffer of
`ListsWhatIsFound` does not cut it; it holds for any size of cluster and volume.
`TreeStep` takes the three changes once more and says what each does to what is found:
the pair it is about and no other.

**Floppy.** `OneCommandHolds`: with DMA and no interrupt left over, each wait
ends with the command it was for, for every geometry, any requests and any number
of calls and tries. `OneCommandAtATime` looks at the controller only where the
driver goes on; the invariant `InStep` says what it does wherever the driver is.
It has five states, of which `floppy_dma_waiting` is the witness: the flag is
clear exactly while an interrupt has come and has not been waited for (`Sought`,
`Moved`). So the loop in `floppy_wait` cannot end early, an interrupt cannot fall
between the loop and the reset (it comes only while the driver is in the loop,
`ControllerInStep`), and every byte read is one of the result (`ReadInStep`: the
bytes read and the bytes left are always 7, or 2). `HandshakeTypes` holds in all
modes. Both are inductive together; there is a lemma for each step and each half.

`MovedTheorem`: a call that returns 0 has moved its sectors. `SuccessMeansMoved`
looks at the disk only when the call is over; `MovedInv`, on top of `HInv`, says at
each step which sectors are moved. Its centre is what the controller's sector has
to do with the channel: after `k` sectors of a turn that begins at `seg`, the
command is `k` sectors further on the track, or, behind the last sector of head 0,
at the start of head 1 (`CommandAt`). Then `LbaOf(command)` is always the address
of the call plus `total` plus `k` (`CommandPlace`: head 1 is reached only if the
turn ends with its track, and there the addresses go on), and a command is at its
end only behind the sectors of its turn. So a result without an error cannot come
before they are moved (`Honest`, `FinishMoved`), and it stays that while it is read
byte by byte because what was read and what is left together do not change
(`HeadMoves`). A failed try sets the channel back to 0 and leaves the earlier turns
alone; a write moves each turn from the start of the buffer, so that only the
first (`First`) can be promised. Without DMA the same is proved of the first call
only (`FirstCall`): there the index counts the sectors (`PioAt`) as long as nothing
was tried again. `ChsInverse` is the arithmetic of `lba_2_chs` for any number of
sectors on a track.

**Files.** `FInv` adds to the types that a file has whole clusters and at least
one (`Whole`), and that, as long as no unusual use has occurred, a file has one
node at most (`Alone`), which knows its size (`Current`), and zeroes behind its
end (`Tails`). The last is what makes a gap read as zeroes: nothing is written to
it when a later write begins behind the end, it was zero since `allocate_cluster`.
`ReadFacts` and `WriteFacts` say what the two loops come to in terms of the
clusters the file gets, with the arithmetic of offsets at multiples of the cluster
size in lemmas (`SkippedFacts`, `SkippedWithin`, `NeededFacts`, `GrownFacts`).
From these follow `FilesTypeCorrect`, `SizesTheorem`, `ShortWriteTheorem` and
`FilesAreContents`: `Spec => ImplementsFileSpec`, a lemma for each call.
Both of the two about sizes and counts hold whatever transfers fail: `GrownFacts` is
about any number of clusters that a call is given. `SizeWithinChain` excepts a write
that goes astray, as no invariant without that exception is inductive: the write makes
the size larger than the chain. An entry that is not written back only stays smaller.

**Virtual file system.** `LettersTheorem`: the letters are the volumes of the
drives that answered, in their order, whatever is called later; the
invariant `Booted` says what `ata_init` has done at each of its steps.
`ClustersTheorem`: while no disk has two letters, chains and entries of a disk match,
for any number of clusters, slots and open nodes. The invariant, `Matched`, is that the
copy of the table that a letter keeps is the table of its disk and that every chain is
that of one entry. It needs nothing of nodes beyond their types: a write through one
whose file is still there takes free clusters for the chain of an entry that exists, and
one whose file is gone ends it (`WriteGone`), as does a path through a file.

**ATA PIO.** `AtaPioIsADevice`: `Spec => ImplementsSectorDevice`, for two drives of
any kind, any number of sectors the registers can number and any delay. That the
digits in the four registers are those of the sector asked for (`AtaAssumption`) is
arithmetic of `div` and `mod`. `GoodUntilOverrun` is inductive: as
long as no call has met a drive that is not at rest, driver and drive are in step
(`InStep`, what the state of the drive is at each place of the driver: which sector
it is at, how many are left, that the registers hold the sector and the drive that
were asked for), and each step of either is a step of `SectorDevice` or none.

**Console.** `LineTheorem`: the line is what was typed. `LineIsWhatWasTyped` looks at
the line only when no code is waiting. The invariant `LineInv` fills the time in
between: there are the keys that were down and the text that was typed before each
code of the queue, from those the line and `high` stand for (before the first) to
those of the keyboard (behind the last). A key pressed adds one at the end, an
interrupt takes the first away, and nothing has to be computed over the queue.
`ScreenTheorem` and `BackspaceTheorem` have one invariant, `ScreenInv`: at each
access to the cursor or to video memory it says what `main` has read and what it
has written (`InPrint`), while it scrolls that the rows above the loop's are moved
up (`Partly`). `StruckPlace` is the geometry: the cursor goes past the last cell
exactly when the paper moves by a row. That no backspace leaves the screen needs
the line to fit in the rows that are left after scrolling (`LineFits`), which is
why the 256 characters of the buffer have to be no more than the cells of all rows
but one. All three hold for every size of screen, any messages and any keys.

**Only model-checked.** Liveness (every `CallsReturn`, and `RequestsAreServed`),
since ENABLED and fairness are out of the prover's reach. The runs that
expect a violation are about one behaviour each and have nothing to prove. That
`room` of `Fat32File` is the number of clusters the files leave is not stated at
all: a sum over files is an induction, and no property needs it.

## 5. Not modelled

Each component's note in `PROJECT.json` says what it leaves out. In short:

* Boot code, segment and page tables run once and leave nothing that changes;
  tasks are unfinished; the archive (an older FAT12 and floppy driver) is not
  built; `stdout.c` passes its arguments on; exceptions print and stop.
* Strings and arithmetic are pure functions over single characters, of which the
  models see the result: a name, a component of a path, a letter.
* In the directories failing reads, which make a search end early, a failing zeroing or
  write of `.` and `..`, and the entries of long names. In `Vfs` failing transfers.
* In the floppy drivers the motor, `floppy_reset`, `floppy_calibrate` and the
  second drive, whose number no command carries.
* In the ATA driver transfers of 256 sectors and more, which no caller asks for.
  In the console printing at a given position, which no caller does once the
  keyboard is on.
* In the heap `size + 8` does not wrap (no caller comes near 2^32) and
  `k_realloc` is not called to shrink a block, where the code copies past the new
  end; nobody calls it.
* What happens after the code has called through memory it does not own: `Vfs`
  and `AtaPio` stop there.

`floppy_read` and `floppy_write` have empty bodies and return no value, so a
FAT32 volume is always on an ATA disk, whose driver leaves the buffer alone when
a transfer of one sector fails. `FatCache` relies on that.

## 6. Plan

Done: `HeapSpec`, `Heap`, `HeapProofs`; `FatTable`, `FatCache`; `FatOwners`,
`FatChain`, `FatChainProofs`; `DirTree`, `Fat32Dir`, `Fat32DirProofs`; `FileSpec`,
`Fat32File`, `Fat32FileProofs`; `SectorDevice`, `AtaPio`, `AtaPioProofs`; `Vfs`,
`VfsProofs`; `Floppy`, `FloppyProofs`; `Console`, `ConsoleProofs`.

Left, in order of importance:

1. `Fat32Dir`: failing reads, which make a search end early, a failing write of `.`
   and `..`, paths (`strtok`), entries of long names.
2. `Fat32File`: negative offsets, `O_CREAT` on a full volume or with a zeroing that
   fails, closing by `k_free`.
3. `floppy_reset` and `floppy_calibrate`, with the interrupts they leave.
4. Pure algorithms: 8.3 names, `strtok`, `str_until`.
