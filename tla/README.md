# DAGonFS in TLA+

DAGonFS is an in-memory file system whose files are spread over the memory of
MPI ranks and which users reach through FUSE. The repository holds two
versions: a client-server one, in which rank 0 (the master) mounts the file
system and the other ranks (the nodes) only keep blocks, and a peer-to-peer
one, in which every rank mounts it. This directory holds TLA+ modules of
both versions, TLC configurations that check them, and theorems about
them with proofs that TLAPS checks.

`CS/` below stands for `src/src/client-server/`, `P2P/` for
`src/src/peer-to-peer/`. `PROJECT.json` maps each definition to the lines it
models.

## Inventory

| Component | State | Operations | Where |
|---|---|---|---|
| Striping | none: counts and displacements are computed on both sides | the loops in `DAGonFS_Write` and `DAGonFS_Read` | `CS/include/mpi/MasterProcessCode.cpp`, `NodeProcessCode.cpp` |
| Data path | the master's `DataBlock` lists, each node's `dataBlockPointers`, the heaps of all ranks, the calls on the communicator | `DAGonFS_Write`, `DAGonFS_Read`, `send*Request`, `NodeProcessCode::start` | the same, `DataBlockManager.cpp`, `blocks/Blocks.cpp` |
| Start and termination | how far `FileSystem::start` is, which nodes left their loop | `start`, `FuseInit`, `sendChangedir`, `sendTermination` | `CS/main.cpp`, `CS/include/ramfs/FileSystem.cpp` |
| Inode table and directory tree | `Nodes::INodes`, `DeletedINodes`, `m_reclaimingINodes`, `m_children`, `st_nlink`, `m_nlookup`, `markedForDeletion` | lookup, forget, mknod, mkdir, symlink, create, unlink, rmdir, rename, link | `FileSystem.cpp`, `CS/include/nodes/` |
| File contents | `m_buf`, `st_size`, `st_blocks`, `isWaitingForDistributedWrite` | open, read, write, flush, release, setattr | `FileSystem.cpp`, `nodes/File.*`, `nodes/Nodes.cpp` |
| Directory listing | iterators whose addresses are the offsets | opendir, readdir, releasedir | `FileSystem.cpp` |
| Extended attributes, access, locks | a map in each inode | the xattr handlers, access, getlk | `FileSystem.cpp`, `nodes/INode.cpp` |
| Peer-to-peer request loop and data path | two threads in each peer, requests in flight, collectives with any root | `DistributedCode::start`, `RequestSender::send*` | `P2P/include/mpi/` |
| Peer-to-peer replication of the tree | the `...FromThread` flags, an inode table in each peer | the replayed create, delete, mkdir, rmdir, rename | `P2P/include/ramfs/FileSystem.cpp`, `DistributedCode.cpp` |
| Launcher, arguments, logging, times | none that others use | | `src/src/DAGonFS_Launcher.cpp`, `utils/` |

How they interact. The kernel calls the handlers one at a time: `FuseLoop`
runs `fuse_session_loop`, single-threaded. A handler that needs blocks (an
open for reading, a flush of a file that waits to be written) calls
`DAGonFS_Read` or `DAGonFS_Write` of the master, which first broadcasts what
is wanted and then calls collectives; each node answers from its loop. There
is no other message: MPI pairs the collectives by the order in which each rank
calls them, and each rank works out its share from the file size alone. The
inode table gives numbers out; the data path uses them as keys of its lists,
also when a number is used a second time.

What is hard about each, and what would make it correct:

- *Striping.* Both sides must partition the file in the same way, with fewer
  blocks than ranks, with a remainder, and in `int` arithmetic
  (`LoopExact`, `EveryBlockOnce`, `RightExactlyWhenRepresentable`,
  `EveryBlockHasOwner`, `OwnerUnique`).
- *Data path.* Ranks run at their own pace; one early return on one side only
  would shift every later collective (`CollectivesMatch`). A pointer means
  something only in the rank that allocated it; it travels through the master,
  is stored at a position of a list and comes back to the rank that the stripe
  of a later request chooses (`PointerLocality`, `StripeOwnership`,
  `NodesKnowTheirBlocks`). A reader must get what was last written, over
  longer and shorter rewrites of the same file (`ImplementsBlockStore`).
  Requests must end (`RequestsComplete`).
- *Start and termination.* Every node must leave its loop (`NodesStop`).
- *Inode table.* Link counts are adjusted by increments spread over the
  handlers (`LinkCountsExact`, `LinksNeverShort`, `DeletedHaveNoName`,
  `Tree`); an inode number may be used again exactly when nothing names it and
  the kernel has forgotten it (`QueueExact`, `ReusedWereUnused`).
- *File contents.* Size, number of blocks, buffer and stored blocks are four
  records of one thing, changed at different times (`NoOverrun`,
  `OpensAskForWritten`, `NothingLeftBehind`, `ImplementsPosixFile`).
- *Listing.* The offset that goes to the kernel and back is the address of an
  iterator over a map that changes between two answers, and an entry that does
  not fit makes the handler step back. What stays must be sent (`Complete`), an
  erased entry must not leave the iterator dangling unless its reader had been
  sent it last (`StandsAtLastSent`), what was sent should not be sent again
  (`SentOnce`, which fails; `OnlyLastSentAgain`, which holds), and a listing must
  end (`ListingEnds`).
- *Peer-to-peer requests and data.* A request comes in two parts, each received
  from any source (`RequestsPaired`, which two users at once break); any peer may be the root of a collective,
  and either of its two threads may enter one (`CollectivesMatch`); the list of
  pointers a peer reads with came from another peer's write
  (`PointerLocality`); together the peers must be the block store that the
  master and its nodes are (`ImplementsBlockStore`). A receiving thread waits
  for the FUSE thread of its own peer, which waits for the receiving threads of
  the others (`PeersCatchUp`, `PeersStop`).
- *Replication.* A flag shared by two threads without a lock says whether a
  change is to be announced; each peer numbers inodes for itself, and the data
  path sends these numbers about (`PeersAgree`, `FlagsDown`,
  `ImplementsOperationLog`).

`PROJECT.json` lists these as hazards, each at its line, with those that no
property covers and the reason.

## Modules

| Module | Models | Extends / instantiates |
|---|---|---|
| `Striping` | number of blocks, share and displacement of a rank, owner of a block | |
| `StripeLoop` | the loop over the ranks that computes counts and displacements, in `int` arithmetic with overflow | `Striping` |
| `BlockStore` | abstract: what a caller may expect of `DAGonFS_Write` and `DAGonFS_Read` | |
| `ClientServer` | master, nodes, collectives, block lists, heaps, start and termination | `Striping`; implements `BlockStore` |
| `Namespace` | inode table and directory tree | |
| `PosixFile` | abstract: a file as a sequence of bytes | |
| `FileIO` | the handlers that move the bytes of a file | implements `PosixFile` |
| `ReadDir` | the listing of a directory in which names come and go | |
| `OperationLog` | abstract: replicas that carry out one sequence of operations | |
| `PeerTree` | the inode table of one peer, what the handlers and the kernel make of an operation | |
| `PeerToPeer` | both threads of every peer, messages, flags, collectives, start and termination | `Striping`, `PeerTree`; implements `OperationLog` and `BlockStore` |
| `StripingProofs`, `StripeLoopProofs`, `ClientServerProofs`, `NamespaceProofs`, `FileIOProofs`, `ReadDirProofs`, `PeerToPeerProofs`, `PeersAgreeProofs` | theorems and proofs | the module they are about |
| `MC*` | values of the constants for TLC | the module they check |

Definitions whose names end in a suffix after an underscore
(`SendTermination_silent`, `RemoveHardLink_atOne`, ...) are slips: a plausible
mistake in the definition that follows. No specification uses them. Put in the
place of the definition each of them makes TLC find a property violated, which
`PROJECT.json` lists under "mutants".

### State and actions against the code

`ClientServer`. `comm` is the sequence of `MPI_Bcast` and `MPI_Scatterv` calls
the master has made; `pos[r]` counts those that rank `r` has taken part in. The
master does not wait in these, which is the least an MPI implementation
promises (one that does wait allows fewer behaviours). A `Gatherv` at the root
waits for all, so `WriteCall` / `ReadCall` run a handler from the first
`Bcast` to the `Gatherv`, and `WriteDone` / `ReadDone` the rest of it, when
`gathered` holds a part of every rank. `NodeRequest`, `NodeIORequest`,
`NodeWrite` and `NodeRead` are what a node does between two blocking calls.
`heap[r]` holds every block rank `r` has allocated: the code frees none.
A pointer is a record of the rank and the index in its heap; a `memcpy` from a
pointer of another rank either ends the process (`ReadFaults`,
`NodeReadFaults`) or yields `Garbage`. Contents of a block are the number of
the write and of the block, so that any mix-up shows. `StartFails`,
`MountFails` and `Unmount` are the ways `FileSystem::start` ends. After an early
return the master either waits in `MPI_Finalize` for nodes that wait for a
request (`Stranded`), or, if `start` had not yet opened the files of times,
dies in `~FileSystem`, whose `fclose` is given a null pointer
(`FileSystem.cpp:112`), and MPI ends the nodes with it.

`Namespace`. `INodes` is the vector of inodes; its domain is `0 .. n - 1`.
The actions `Make`, `LookUp`, `Forget`, `Link`, `Remove` and `Rename` say when
the kernel calls a handler (it looks a name up first, makes none that is
there, works in no removed directory, refuses to move a directory below itself
and to replace a directory by a file); the `Fuse...` operators say what the
handler does, all of it. The kernel may keep calls off from what POSIX
forbids, but not from what the code gets wrong: `Renames` selects which
renames users make.

`FileIO`. One regular file and its handles. `handle[h]` says how a handle was
opened, or that its last descriptor was flushed and the release is still to
come, as in the kernel, which sends the release later. `Junk` stands for
memory nobody wrote: padding, the gap before a write past the end, the blocks
of a former file. `Habits` selects what programs do with the file beyond
opening, reading, writing and closing it in turn.

`StripeLoop`. One step per rank. The number of blocks and the products are
`unsigned int`, the arrays and the running offset `int`, with the wrap-around
of each.

`ReadDir`. A name is its place in the order of the `std::map`; `NameLength`
gives its bytes, from which the size of its entry follows. `iterator[h]` is what
the offset of handle `h` points to: an entry, the end, freed memory after an
erase, or the place before `begin()`. `FuseReadDir` is one answer: the dot
entries if the offset is null, then entries until one does not fit or there are
255, and the step back. `times`, `lastSent` and `stayed` record what the reader
was told. The reader takes all entries of an answer and asks with the last
offset, as the kernel does.

`PeerToPeer`. `net[q][p]` is the queue of messages from `q` to `p`; `fuse[p]`
and `recv[p]` say where the two threads of `p` are. `Change` is a handler up to
its reply; whether it announces the change is decided after that, in `Announce`,
which reads the flag, and the reset of the flag is one more step
(`ResetFlag`), since the receiving thread can run in between. `RecvHeader` puts
the flag up, `RecvBody` takes the operation, and `Replay` is the system call on
the peer's own mount point: it needs the FUSE thread to be in its loop. What the
kernel would refuse (a file that is there, a path that is not) does not reach
the handler and leaves the flag as it is. `exchanges` is the sequence of pairs
of collectives that roots began, and `pos[p]` how many of them peer `p` has
taken part in; a peer joins the next one only if it is the call that it was told
of. `FuseFlush` stands for open, write and close of a file, `FuseOpen` for the
loading of one. `Pace` says how users take turns (one peer at a time after all
have caught up, one peer without waiting, all at once), `UserOps` what they do.
`PeerTree` holds what both `Change` and `Replay` do to a table, with the path
under which a change is announced (`Announcement`): the handler builds it from
the name the directory was given when it was made.

### How the modules fit together

`FileIO` takes `DAGonFS_Write` and `DAGonFS_Read` as one step each, which is
what `BlockStore` promises and `ClientServer` implements. The promise has a
condition: a read has to ask for as many blocks as were last written.
In `FileIO` it is the invariant `OpensAskForWritten` of the handlers. `ClientServer`
does not assume it: opens there ask for any size, as `FuseOpen` may where it
fails (a file shared by two handles, a truncate between open and write).
Then the collectives still match, nobody else's file is touched and what was
stored stays stored; only `PointerLocality` is about the reads that ask for what
was last written (`AskedForWritten`), whatever was asked before.

`PeerToPeer` implements the same `BlockStore`, so that what `FileIO` builds on
holds for a file of a peer, too; and it implements `OperationLog` with the
history `applied`. `OperationLog` says nothing of data, `BlockStore` nothing of
names: what joins them is `PeersAgree`, since an inode number sent in a write
means the same file only where the tables agree.

## Runs

`tlc -config X.cfg M` for each; `PROJECT.json` names the properties.

**stripe_loop** (`MCStripeLoop`). 3 ranks, blocks of 2 bytes, a 5-bit `int`,
every size from 0 to 60: fewer blocks than ranks, every remainder, and sizes up
to four times what the `int` holds. For every size that fits, padding included,
the loop computes the closed form and every block goes to one rank; and it is
right for exactly those larger sizes for which each count and displacement by
itself is representable. `RightExactlyWhenRepresentable` therefore says where
the limit of the code is: the offset that wraps last is never used.

**client_server** (`MCClientServer`). A master and two nodes, blocks of 2
bytes, two inodes, sizes 0, 1, 4 and 7 (0, 1, 2 and 4 blocks over 3 ranks:
nothing, fewer than ranks, a remainder), 3 requests in any order and any
interleaving of the ranks, start steps that may fail. Three requests are the
least that hold a write, a rewrite of another length, and a read of it. Opens
ask for any size. The collectives match, each rank holds its stripe of the last
write, a node told to read what was last written is handed no pointer of another
process, the nodes' lists agree with the master's, requests complete, an unmount
stops every node, and every behaviour implements `BlockStore`, in which a read of
the wrong size may return anything or end the system. `FullInv` is the inductive
invariant of the proofs. Deadlock is checked: `Stopped`, and the nodes that a
failed start leaves (`Stranded`), are the only rest. About 145,000 states.

**namespace** (`MCNamespace`). Two names, at most 5 inodes (the special inode,
the root, three more), at most 2 lookups of each, reuse of a number when more
than one is queued. Three inodes over two names are enough for a directory in a
directory with a file, two names of one file, an inode removed while the kernel
holds it, and a reused number. Users make all calls but moves of a directory
to another one and renames over a name in use. Then counts are exact, the
queue holds exactly the unused numbers, no named inode is marked as deleted,
and the directories form a tree. `SYMMETRY` permutes the two names, which
nothing tells apart.

**namespace_replace**. Renames over names in use as well. Counts are no longer
exact, but never too low, so that no number is given out while in use; what is
replaced may be lost. No count of this run is ever at the largest value, so that
the two theorems about such renames speak of all of its behaviours.
`CHECK_DEADLOCK FALSE`, because lost inodes fill the
bounded table.

**namespace_moved**. Violation, see Findings.

**file_io** (`MCFileIO`). A file of up to 3 bytes in blocks of 2, two kinds of
bytes, two handles, used one after the other: a whole block, a partial one, the
boundary between them. The first file may have a reused number, with the blocks
of another file still listed. It behaves as a sequence of bytes; no access
leaves the buffer; nothing waits when all handles are closed; every open asks
for what was last written.

**file_io_duplicate**. Up to 5 bytes, and programs that go on with a handle
after a duplicate of its descriptor was closed. Violation, see Findings.

**read_dir** (`MCReadDir`). One handle, five names with lengths of 2 to 160
bytes, the 384 bytes of the code's buffer, three changes of the directory
anywhere in two listings (the second may begin by a rewind). A listing of all
five takes three answers and an empty one, so that answers end before a long
name, after a short one, and with the last. The reader may remove the name that
its iterator stands at; the next request is then a use of freed memory, which
ends the program (`crashed`). `CHECK_DEADLOCK FALSE`, because the bounded
directory and listings come to rest. The instance assumes what the proofs
assume: that any entry fits in an answer behind "." and ".." (`AnyOneFits`, true
of the code's 384 bytes and all names of up to 255), that any two fit in one,
which names of at most 168 bytes do (`AnyTwoFit`; without that, listings do not
end, see below; of the properties only `ListingEnds` needs it), and that an answer
has no room for 255 entries, since each takes 32 bytes (`FullByBytes`). Two handles
share no state in the handlers; the proofs are for any number.

**read_dir_once**. One listing of the same directory, of which nothing changes.
Violation, see Findings.

**peer_to_peer** (`MCPeerToPeer`). Two peers, two names, paths of one and two
names, at most 4 inodes, files of 1 and 5 bytes in blocks of 2 (fewer blocks
than peers, and more with a remainder), 4 things done by users, starts that may
fail. Users create, remove and rename files, make and remove directories, write
and read, at one peer at a time; a user changes peers when all have caught up,
and does not go on with an operation of a type that another peer is still
repeating (creates may). Four operations are the least that hold two creates, a
write at one peer and a read at the other, or a create, a rename, a write and a
read. Then collectives match, every pointer goes to its owner, all
peers show the same file system whenever they have caught up, no flag is left
up, and both abstract specifications are implemented. Deadlock is checked:
`Terminating` is the only rest. About 250,000 states.

**peer_to_peer_eager**. Five inodes, three directories made by a user who does
not wait. Violation, see Findings; `CHECK_DEADLOCK FALSE`, because a repeated
operation that finds no room within the bound waits.

**peer_to_peer_together**. Two users who make a directory at two peers at once.
Violation, see Findings. `RequestsPaired` is where the model of peers used at
once ends: a receiving thread that finds another part than it waits for reads a
buffer of something else, and `RecvBody` models no step for it. What else two
users can do to each other (`PROJECT.json` lists it under hazards) is not
checked for that reason.

What the bounds leave out. The safety of `ClientServer`, of `FileIO`, of
`ReadDir` and of `Namespace` is proved for all values (with renames over names
in use: as long as no link count wraps), and so is that of `PeerToPeer`, its
agreement, its logs and its store included; the bounds of their runs limit what
is left to TLC only, the liveness properties. The handlers of `Namespace` look at
one inode, its parent and at most one more parent and one replaced inode; the
reclaim rule at the head and the length of the queue. `LinkModulus` is 16, so a
count that fell below zero would be seen as the largest count. In `PeerToPeer` a
third peer would let two receiving threads repeat the same operation at
different speeds; with users at one peer they meet only in a collective, which
a root and one other peer already show.

## Fairness

`ClientServer!Spec` assumes weak fairness of the steps that complete what the
master began (`WriteDone`, `ReadDone`, `SendTermination`) and of each node.
Every rank is a process of its own, which runs until it blocks in MPI, and MPI
delivers; nothing in the code makes a rank that is not blocked stop. No
fairness is assumed of `WriteCall`, `ReadCall`, `Mount` or `Unmount`: nobody
must use the file system or unmount it.

`PeerToPeer!Spec` assumes weak fairness of the FUSE thread and of the receiving
thread of every peer, as long as MPI has not ended them: each is a thread that
runs until it blocks in a receive, a collective or a system call. Nothing is
assumed of users, nor of starts: a peer that is never mounted never stops.
`ReadDir!Spec` assumes that a reader asks on until it is told the end; listings
that are given up need not end. `OperationLog` says that a replica follows,
which is what `PeerToPeer` has to implement. `Namespace`, `FileIO` and
`StripeLoop` have no liveness property and no fairness: their handlers run to
their end.

## Findings

- *A directory in use is marked as deleted* (**namespace_moved**). `FuseRename`
  adjusts the link counts of the two parents only if it replaces a directory
  (`FileSystem.cpp:784`). Two directories moved into a third and removed there
  take two links from it that they never gave; its count reaches 0,
  `RemoveHardLink` sets `markedForDeletion` ("The flag indicating if the inode
  has been deleted", `INode.hpp:36`), and `FuseAccess` answers `ENOENT` for a
  directory that its parent still lists.
- *A write after the close of a duplicate descriptor* (**file_io_duplicate**).
  The kernel sends a flush for each close. `FuseFlush` frees `m_buf` and leaves
  `st_blocks`, from which `WriteAndReply` computes the room there is
  (`FileSystem.cpp:1622`); a write that fits in it skips `realloc` and copies to
  a null pointer, against the comment at line 1639.
- *The last entry of an answer is sent again* (**read_dir_once**). "We must
  exercise care not to re-send children", says the comment at
  `FileSystem.cpp:1079`, and the iterator is there for it. When an entry does not
  fit, `--(*childIterator)` (1145) goes back to the child sent last, with which
  the next answer begins (1124): every full answer of a listing has its last
  child sent twice, without any change of the directory. No other child that
  stays is sent again (`OnlyLastSentAgain`).
- *Peers part when directories are made in a row* (**peer_to_peer_eager**).
  `FuseMkdir` of the peer-to-peer version replies (`FileSystem.cpp:599`) before
  it tests and resets `createDirFromThread`. The receiving thread, whose `mkdir`
  has returned, sets the flag for the next directory, and the handler of the one
  before takes it down. The next is then announced back to where it came from,
  its `mkdir` fails there and leaves the flag up, and a later directory of that
  user is not announced. `README.md:83` says that operations can be executed on
  any of the computational nodes.
- *Two users break the protocol of requests* (**peer_to_peer_together**). All
  parts of all requests are received from `MPI_ANY_SOURCE` with one tag
  (`DistributedCode.cpp:81` and each handler below). When two peers announce a
  directory at once, the one that has received the other's header may next
  receive the header that it has sent to itself, or a third peer's, and takes it
  for the body. `README.md:83` again.

Met on the way and not runs: no document promises otherwise, they follow from
another, or a single test shows them:

- a failed start strands the nodes; old blocks are never freed; the rank
  recorded in a `DataBlock` is not the one that holds the block;
- a rename over a name in use loses the inode; `DeletedINodes` gives the number
  forgotten first, not the smallest; `FuseLink` replies `EEXIST` and makes the
  link all the same;
- an open for writing only, as a shell's `>>` makes it, empties the file:
  `FuseOpen` takes the branch that sets `st_size` to 0 if any of `O_WRONLY` and
  `O_TRUNC` is set (`FileSystem.cpp:879`; the habit `"append"` of `FileIO`), where
  `README.md:82` has operations performed "just like any other directory in a
  common file system";
- a truncate between an open and a write, or a file used through two handles,
  breaks the agreement of sizes (the constant `Habits`);
- two neighbours with names of 169 bytes or more make a listing endless; a reader
  that removes what it reads frees the node its iterator stands at; iterators are
  never deleted;
- peer-to-peer: a rename of a directory leaves `dir_name` as it was; symlinks,
  mknod and truncation are not announced; users at two peers at once take each
  other's flags; two flushes at once begin collectives with different roots.

## Proofs

TLAPS checks every theorem, for every value of the constants that satisfies
the assumptions: a positive number of ranks and a positive block size
(`Striping`), sizes and bounds in `Nat`, at least one inode. What a theorem
assumes beyond that is part of its statement.

*Striping.* `EveryBlockHasOwner` and `OwnerUnique`: the shares of the ranks
partition the blocks. The division lemmas they rest on come first: the owner
of a block is given by a formula, which lies in the bounds of exactly one
share.

*StripeLoop.* `LoopExact` says that after `i` ranks the arrays hold the closed
form and the offset is the displacement of rank `i`, provided the padded size
fits. With `TypeOK` it is inductive: the next displacement is the previous one
plus the count (`DisplNext`), and nothing wraps (`CountExact`). With the lemmas
of `StripingProofs` it gives `EveryBlockExactlyOnce`.

`RightJustThen` is about files of any size (`RightExactlyWhenRepresentable`). One
half is `LoopExact` again, up to the last rank that gets something
(`SlicesRight`). The other half counts: after `i` ranks the slices hold at most
as many blocks as lie before rank `i`, and fewer as soon as a size or a start
could not be stored (`FewReached`), because a size becomes smaller by wrapping
(`StoredCount`) and the first start that wraps becomes negative (`ToIntFacts`,
from `NextStart`); so some block is left out in the end. If the number of blocks
itself wraps there are fewer of them to deal.

*ClientServer.* The collectives match, but that is not inductive: it speaks of
the next call of each node only. `IndInv` adds the history. `WellFormedCalls`
says that the master's whole sequence of calls is one that a node's loop can
follow, and `NodesFollow` that a node stands where the calls it has taken part
in have led it (`PhaseAfter`), with the request in hand that the master
broadcast. `OneGatherAtATime` says that only the last `Scatterv` can be
outstanding, and that exactly the master and the nodes past it have
contributed; this is what makes the addresses of a `Gatherv` belong to the
write under way. `WriteContributions` and `ReadContributions` describe what was
contributed and what was scattered, `WrittenIsListed` keeps the list long
enough. `StripeOwnership` is the invariant wanted: it is kept because blocks
are never freed, and because `WriteDone` lays the parts side by side where
`Displ` says. Each action has a step in the proof, with a step below it for
each conjunct it can disturb. From `IndInv` follow `CollectivesAlwaysMatch`,
`SharesStayWithTheirOwner` and `PointersStayLocal`: a read of as many blocks as
were last written is dealt from the part of the list that the write has laid.

That `ClientServer` implements `BlockStore` (`StoreIsImplemented`) needs to know
what the addresses point to, which is `DataInv`. `WriteStored` says that each
address a rank has contributed to the write under way holds the block of the
buffer that its share begins with, counted from its displacement, and
`ReadFetched` the same for the contents of a read of the right size; `WriteDone`
and `ReadDone` then lay the shares side by side, and the lemmas of
`StripingProofs` say that every block is in exactly one of them. `SameInode`
ties the inode that the nodes were sent in the `ioRequest` to that of the call.
The write completes the abstract one, the read returns the abstract contents,
a rank that follows a foreign pointer is the death of the store, and every other
step stutters. `ListIsRecorded` gives `ListsAgree`. Assumed: file sizes have a
bound, as an `off_t` has.

*Namespace.* Assumed (`Careful`): users make no renames to names in use and move
no directory to another one, as in the run **namespace**; the kernel can hold a
reference; and the number of all entries of the table fits in `st_nlink`.
`QueueExact` is wanted: an inode is queued when its last reference goes and
`st_nlink` is 0, so one has to know that `st_nlink` is 0 exactly if nothing
names it, which is `LinkCountsExact`. That in turn needs that entries name
inodes that exist (`EntriesExist`), that an inode taken from the queue carries
no old entries (`NoHiddenEntries`: only directories with a name have any), that
a directory has one name (`OneNameEach`), so that rmdir may set its links to 0,
and that root and special inode stay apart (`FirstTwo`). The handlers are first
brought to a form that says what becomes of each field (`MadeFields`,
`LinkHasFields`, `RemovedFields`, `EntryMoved`); lemmas say what adding,
removing and moving an entry does to names, subdirectories and tree; each action
then has one lemma, with a step for each part of `IInv`. From it follow
`TypeCorrect`, `LinksExact`, `QueueIsExact`, `NoNameMarked` and `ReuseSafe`.

`DirectoriesFormATree` speaks of reachability. `Within` is stated by sets, not by
recursion: an inode lies within another if every set that holds it, and with an
inode all directories that name it, holds the other. The invariant that carries
it is `Hangs`: such a set with a named inode in it contains the root. A handler
that adds an entry to a directory with a name, removes that of a directory
without entries or moves one within its directory keeps it, because the set for
the table after the step is, with or without the one inode concerned, such a set for
the table before it.

With renames over names in use `IInv` does not hold: `FuseRename` leaves the
links of what it replaces, and the entries of a directory it replaces, so that
`LinkCountsExact`, `NoHiddenEntries` and `Hangs` go, and with them the way to
`QueueExact`. What has to be known of the queue is less: that no number in it
has a name, a reference of the kernel or a second place. `Sound` says this,
together with the parts of `IInv` about entries, and `Sound /\ LinksNeverShort`
is inductive. A step adds one name to one inode at most (the lemmas on `Gains`)
and raises its links with it, or the inode is new; `FuseForget` queues an inode
only if its links are 0, and then it has no name because it never has fewer
links than names. Assumed: no moves of directories to other ones (those get
their links wrong in both directions, see **namespace_moved**), finitely many
names, that the kernel can hold a reference, and `[]NoCountFull`. The last is
about the behaviour, not the constants, because counts now only grow for an inode
replaced again and again: no `st_nlink` gets to the largest value of its type,
from which `AddHardLink` would wrap it to 0. From it follow `LinksNeverTooFew` and
`ReuseSafeReplacing`. The effect of each handler is stated once (`LookUpEffect`,
`UnlinkEffect`, `RmdirEffect`, `EntryMovedIn`, ...) and used by both invariants.

*FileIO.* Assumed: `Habits = {}`, one program at a time. `NoOverrun` compares
the length of `m_buf` with what a handler copies, but `st_blocks`, from which
that room is computed, is set by the write and never by the flush. `IInv` says
that `st_blocks` is always the number of blocks of `st_size`, that the buffer
has exactly that room while a handle is in use and none after, and that what
does not wait to be written is stored, byte for byte, in so many blocks. From it
follow `BufferSafe`, `AsksForWritten`, `NothingWaits`, and `Implementation`:
each step is one of `PosixFile` or a stutter under the mapping of the runs.

*ReadDir.* `ListingComplete`. While a listing is under way, every name that
stayed and lies before the iterator has been sent (`PassedWereSent`): an answer
sends what lies between the old place and the first entry that does not fit, and
the new place is before that entry. Names and sizes are arbitrary, so this also
holds of listings that never end. With `AnyOneFits` and `FullByBytes` an answer
that ends before an entry has sent at least one, and the step back comes to stand
at the last of these: `IteratorAtLastSent`. What lies beyond
the iterator and stayed has not been sent (`AheadIsNew`: an answer sends no more
than what comes before the name it leaves the iterator at, and that name), hence
`OnlyTheLastAgain`. How many bytes the entries up to a name take is a recursive
function on the names; that it grows with them is proved by the smallest name at
which it would not.

*PeerToPeer.* Assumed: `Settled`, that users take turns as in the run
**peer_to_peer**; without it the code does part, as **peer_to_peer_eager**
shows for the agreement of the peers. Nothing is assumed of the number of peers,
of the paths, of the size of the table, of what users do (`UserOps` may have
renames of directories, symlinks and mknod as well) nor of starts, which may
fail.

`IInv` is the order of things. While not all peers are mounted, there is nothing
but terminations (`Resting`). Otherwise the peer used last leads
(`Leads`) and each of the others follows (`Follows`). What is on its way from the
leader is header, body, header, body (`Alternates`). A follower that repeats an
operation has its flag up until its handler is through, and no second operation
of that type is on its way or under way, but for creates (`Repeats`): this is
why a repeated operation is never announced back, and with it why only the leader
sends. A body that begins collectives is the last message there is, is
the call the leader is in, and the follower has not done its part yet
(`Contributes`). From it follows `CollectivesAreMatched`; a lemma,
`RequestsArePaired`, says that `RecvBody` leaves nothing out while users settle.

`TypeInv` is `PeersTypeCorrect` with what makes it inductive. What matters are the
inode tables: each is a table without holes of some number of inodes, with the
root and the special inode at their places, and stays one through every operation
on any path (`Table`, and a lemma for each of the changes handlers are made
of). Paths are resolved by a recursive function over a sequence, which is
proved to stay in the table by the shortest path that would leave it. Parts of a
collective belong to the call they are for.

`LocalInv` gives `PointersStayLocal`. A reader deals from its own list, by the
stripe of the size in its own table; so the first as many entries of each list as
the size says have to be addresses of the rank that the stripe gives them to,
for every file of every peer's table (`ListsLaid`), but for the file the leader
is writing, whose size is set before its list. A writer lays the list from the
contributions of the peers, which are addresses of theirs (`PartsLocal`); a reader's
size is still that of the call when the collectives begin (`ReadsOwn`); no
operation on the tree gives a size to an inode but the one it empties, and a
new one has none, so a number taken by one file of one peer and another file of another
does no harm to pointers, though it does to contents.

*Agreement of the peers* (`PeersAgreeProofs`). Assumed on top of `Settled`:
`Repeatable`, that users do what handlers announce. They make no symlinks and no
special files, do not empty a file without writing it, and rename no directory,
which leaves `dir_name` as it was, so that the path announced for what is made
in it is another one (see Findings and the hazards). These are the operations of
the run **peer_to_peer**.

`AgreeInv` says that the peer used last has a log, which is its `applied`, and
that every peer stands at some place of it. A log leads from table to table, each
operation being one the kernel and the handler let through in the table before
it (`Lined`), and the table of a peer is the one at its place (`Where`,
`Behind`). Three things make that inductive.

- A peer that lags has other sizes than the log says, for a write may be under
  way or yet to come. No operation on the tree looks at sizes: two tables that
  are the same without them (`Bare`) let the same operations through and become
  the same without them (`BareAllows`, `AppliedBare`).
- What a user does by path at one peer is announced by `dir_name` and a name,
  and repeated by that path at another. `Named` says that each directory's
  `dir_name` is the path that leads to it.
- What is on its way to a peer is what it lacks: the bodies in its messages are
  the operations of the log from its place on, in order, with nothing left out
  (`Numbered`, `Ordered`). So what `Replay` is about to carry out is the next
  operation of the log, in a table in which the log says it goes through: no flag
  stays up for want of a handler that takes it down (`FlagsOf`), and nobody
  crashes (`NobodyCrashes`).

Writes are not in the log. `Lists` says that the block lists of a peer are those
of the user once each has laid the exchange under way into its own; `Sizes`, that
the size of an inode at the user is the one a peer will show when it has done
what it was sent. When all have caught up (`Settle`) nothing is on its way, all
are at the end of the log and all lists and sizes are the same, which is
`PeersDoAgree` and `FlagsAreDown`, and lets the next user be another peer.

`PeersKeepOneLog` is the safety of `ImplementsOperationLog`: `Change` is
`Perform`, `Replay` is `Follow`, the rest stutters. By `PeersNeverFork`, of any
two peers, one has carried out a prefix of what the other has.

*The peers' store* (end of `PeersAgreeProofs`). `PeersAreOneStore` says that
`PeerToPeer` implements `BlockStore`. Assumed on top of `Settled` and
`Repeatable`, as for `ClientServer`: file sizes have a bound. The abstract store
is read off the lists of the peer in use, so `StoreInv` says what those lists
lead to. `Held`: as many entries of the list of each file as were last written
are addresses of blocks that are there. `Answered`: in every exchange each peer has
answered for its share, a writer with the addresses at which the blocks of the
buffer now lie, a reader with the blocks at the addresses it was sent. `BegunWith`: what
the root cut up is the buffer of the call, or its own list. Blocks are never freed nor
changed (`BlocksStay`), so all of this stays true as heaps grow. A reader's peers
can answer because `PointerLocality` holds (`LocalInv`); and when another peer
is used next, its lists are those of the one before because `AgreeInv` says so
(`NextUser`). `AnswerGathered` lays the answers side by side by the lemmas of
`StripingProofs`: the `FuseGather` of a write completes the abstract write, that
of a read of as many blocks as were written returns the abstract contents, a flush
or an open is the abstract call, and every other step of any thread stutters.
TLC checked `StoreInv` as an invariant of two peers with four requests and of
three peers with three before it was proved.

Model-checked only, and why:

- liveness (`RequestsComplete`, `NodesStop`, `PeersCatchUp`, `PeersStop`,
  `ListingEnds`) is out of the prover's reach;
- what becomes of link counts when one wraps. `LinksNeverTooFew` and
  `ReuseSafeReplacing` assume that none does, which in **namespace_replace** none can;
- that every peer follows in the end, the other half of
  `ImplementsOperationLog`, which is liveness.

## Not modelled

Client-server: counters of `statfs`, times, owners and modes; extended
attributes, `access`, `getlk` (state of one inode that nobody else uses);
`bmap`, `statfs`; a failing `realloc`; the flags of `rename`, which the handler
ignores; `fuse_daemonize`; `createFileDump`, whose body is commented out.

Peer-to-peer: `link`, forget and the reuse of inode numbers (which begins after
256 removed files); attributes; the time between the open of a file for writing
and its flush, in which other peers still see the old size; reads and writes of
the buffer, which are those of `FileIO`.

Both: arguments, logging, the files of times, the launcher.

## Plan

Done: all modules and proofs above. What is left, the most useful first:

1. The time between open and flush in `PeerToPeer`.
2. `link`, forget and the reuse of inode numbers in `PeerTree`.
