----------------------------- MODULE PeerToPeer -----------------------------
(***************************************************************************)
(* The peer-to-peer version.  Every rank, or peer, mounts the file system  *)
(* and runs two threads: its FUSE thread serves the calls made through its *)
(* mount point, its receiving thread (DistributedCode::start) carries out  *)
(* what the other peers announce.                                          *)
(*                                                                         *)
(* Messages are point-to-point, in order between any two peers, and are    *)
(* received from any source.  A request is a header and, to other peers, a *)
(* body.  To repeat a change of the tree, the receiving thread sets a flag *)
(* and makes a system call on its own mount point; the handler, in the     *)
(* FUSE thread, finds the flag set and does not announce the change again. *)
(* To take part in a write or a read of another peer, the receiving thread *)
(* enters the collectives that peer is the root of.                        *)
(***************************************************************************)
EXTENDS Striping, PeerTree

CONSTANTS Paths,        \* the paths users name
          MaxINodes,    \* bound on the inode table of a peer
          FileSizes,    \* sizes of files written, in bytes
          MaxRequests,  \* bound on what users do
          UserOps,      \* the kinds of things users do, of UserKinds
          Pace,         \* how users take turns, one of Paces
          StartMayFail, \* may FileSystem::start end before the session loop?
          Garbage       \* what a read through a foreign pointer yields

UserKinds == TreeTypes \cup {"RENAME_DIRECTORY", "WRITE", "READ"}

(* "settled":  one peer is used at a time, and the next one when all have  *)
(*             caught up; a user does not unlink, mkdir, rmdir or rename   *)
(*             while another peer still repeats an operation of that type. *)
(* "eager":    as before, but a user does not wait for the others.         *)
(* "together": every peer is used at any time.                             *)
Paces == {"settled", "eager", "together"}

ASSUME PeerToPeerAssumption == /\ Paths \subseteq Seq(Names) \ {<<>>}
                               /\ MaxINodes \in Nat /\ MaxINodes > 2
                               /\ FileSizes \subseteq Nat \ {0}
                               /\ MaxRequests \in Nat
                               /\ UserOps \subseteq UserKinds
                               /\ Pace \in Paces
                               /\ StartMayFail \in BOOLEAN

VARIABLES
    fuse,           \* fuse[p]: where the FUSE thread of p is
    recv,           \* recv[p]: where the receiving thread of p is
    mounted,        \* mounted[p]: is the file system mounted at p?
    fromThread,     \* fromThread[p][type]: the flags createFileFromThread, ...
    unmountFromThread,
    net,            \* net[q][p]: the messages from q to p
    tree,           \* tree[p]: the inode table of p
    blockList,      \* blockList[p]: Blocks::FileSystemDataBlocks of p
    heap,           \* heap[p]: the blocks p has malloc'ed
    exchanges,      \* the pairs of collectives begun by their roots
    pos,            \* pos[p]: how many of them p has taken part in
    readBuff,       \* what the last DAGonFS_Read returned to its user
    crashed,        \* a peer died, in fclose(NULL) or for an inode it has not, and MPI with it
    requests,       \* how many things users did
    issued,         \* how many of them were writes and reads
    user,           \* the peer that was used last
    applied,        \* history: the operations on the tree each peer carried out
    written         \* history: the blocks of the last completed write

threadVars == <<fuse, recv, mounted, fromThread, unmountFromThread, crashed>>
dataVars == <<blockList, heap, exchanges, pos, readBuff, written>>
userVars == <<requests, issued, user>>
vars == <<threadVars, dataVars, userVars, net, tree, applied>>

Others(p) == Ranks \ {p}
Files == 2 .. MaxINodes - 1

Header(type) == [part |-> "header", type |-> type]
Body(content) == [part |-> "body", content |-> content]

At(place) == [at |-> place]

(* The buffer of the w-th call, cut into n blocks. *)
Buffer(w, n) == [b \in 1 .. n |-> [write |-> w, block |-> b]]
NewAddresses(p, k) == [i \in 1 .. k |-> [rank |-> p, id |-> Len(heap[p]) + i]]
IsLocal(p, address) == address.rank = p /\ address.id \in 1 .. Len(heap[p])
Deref(p, address) == IF IsLocal(p, address) THEN heap[p][address.id] ELSE Garbage
-----------------------------------------------------------------------------
Init ==
    /\ fuse = [p \in Ranks |-> At("starting")]
    /\ recv = [p \in Ranks |-> At("request")]
    /\ mounted = [p \in Ranks |-> FALSE]
    /\ fromThread = [p \in Ranks |-> [type \in Announced |-> FALSE]]
    /\ unmountFromThread = [p \in Ranks |-> FALSE]
    /\ net = [q \in Ranks |-> [p \in Ranks |-> <<>>]]
    /\ tree = [p \in Ranks |-> InitialTable]
    /\ blockList = [p \in Ranks |-> [ino \in Files |-> <<>>]]
    /\ heap = [p \in Ranks |-> <<>>]
    /\ exchanges = <<>>
    /\ pos = [p \in Ranks |-> 0]
    /\ readBuff = <<>>
    /\ crashed = FALSE
    /\ requests = 0
    /\ issued = 0
    /\ user = 0
    /\ applied = [p \in Ranks |-> <<>>]
    /\ written = [ino \in Files |-> 0]
-----------------------------------------------------------------------------
(* When users act. *)

AllMounted == \A p \in Ranks : mounted[p] /\ recv[p].at # "terminated"
InFlight == \E q, p \in Ranks : net[q][p] # <<>> /\ recv[p].at # "terminated"
Quiet == /\ ~InFlight
         /\ \A p \in Ranks : recv[p].at \in {"request", "terminated"}
                             /\ fuse[p].at \in {"starting", "loop", "finished", "failed"}

(* An operation of this type is still announced, or repeated somewhere.    *)
Outstanding(type) ==
    \/ \E q, p \in Ranks : \E i \in DOMAIN net[q][p] : net[q][p][i] = Header(type)
    \/ \E p \in Ranks : recv[p].at \in {"body", "syscall", "close"} /\ recv[p].type = type
    \/ \E p \in Ranks : fuse[p].at \in {"announce", "reset"} /\ fuse[p].op.type = type

MayUse(p, type) ==
    /\ requests < MaxRequests
    /\ fuse[p] = At("loop") /\ mounted[p]
    /\ \/ Pace = "together"
       \/ AllMounted /\ Quiet
       \/ AllMounted /\ user = p /\ Pace = "eager"
       \/ AllMounted /\ user = p /\ (type \in Announced \ {"CREATE_FILE"} => ~Outstanding(type))
-----------------------------------------------------------------------------
(* Start and end of a peer. *)

Mount(p) == /\ fuse[p] = At("starting")
            /\ fuse' = [fuse EXCEPT ![p] = At("loop")]
            /\ mounted' = [mounted EXCEPT ![p] = TRUE]
            /\ UNCHANGED <<recv, fromThread, unmountFromThread, crashed>>
            /\ UNCHANGED <<dataVars, userVars, net, tree, applied>>

(* start returns early: main waits for the receiving thread all the same,  *)
(* and only returns, to ~FileSystem and its fclose, after MPI_Finalize.    *)
StartFails(p) == /\ StartMayFail
                 /\ fuse[p] = At("starting")
                 /\ fuse' = [fuse EXCEPT ![p] = At("failed")]
                 /\ UNCHANGED <<recv, mounted, fromThread, unmountFromThread, crashed>>
                 /\ UNCHANGED <<dataVars, userVars, net, tree, applied>>

(* Signal handlers or mount refused: start goes straight to its last steps. *)
MountFails(p) == /\ StartMayFail
                 /\ fuse[p] = At("starting")
                 /\ fuse' = [fuse EXCEPT ![p] = At("unmounted")]
                 /\ UNCHANGED <<recv, mounted, fromThread, unmountFromThread, crashed>>
                 /\ UNCHANGED <<dataVars, userVars, net, tree, applied>>

(* A user unmounts the file system at p. *)
Unmount(p) == /\ mounted[p]
              /\ fuse[p] = At("loop")
              /\ Pace = "together" \/ Quiet
              /\ mounted' = [mounted EXCEPT ![p] = FALSE]
              /\ UNCHANGED <<fuse, recv, fromThread, unmountFromThread, crashed>>
              /\ UNCHANGED <<dataVars, userVars, net, tree, applied>>

LoopEnds(p) == /\ fuse[p] = At("loop")
               /\ ~mounted[p]
               /\ fuse' = [fuse EXCEPT ![p] = At("unmounted")]
               /\ UNCHANGED <<recv, mounted, fromThread, unmountFromThread, crashed>>
               /\ UNCHANGED <<dataVars, userVars, net, tree, applied>>

(* Slip: the termination goes to the others only. *)
SendTermination_othersOnly(p) ==
    /\ fuse[p] = At("unmounted")
    /\ net' = IF unmountFromThread[p] THEN net
              ELSE [net EXCEPT ![p] = [q \in Ranks |->
                       IF q = p THEN @[q] ELSE Append(@[q], Header("TERMINATE"))]]
    /\ fuse' = [fuse EXCEPT ![p] = At("finished")]
    /\ UNCHANGED <<recv, mounted, fromThread, unmountFromThread, crashed>>
    /\ UNCHANGED <<dataVars, userVars, tree, applied>>

(* The last step of start; main then joins the receiving thread.           *)
SendTermination(p) ==
    /\ fuse[p] = At("unmounted")
    /\ net' = IF unmountFromThread[p] THEN net
              ELSE [net EXCEPT ![p] = [q \in Ranks |-> Append(@[q], Header("TERMINATE"))]]
    /\ fuse' = [fuse EXCEPT ![p] = At("finished")]
    /\ UNCHANGED <<recv, mounted, fromThread, unmountFromThread, crashed>>
    /\ UNCHANGED <<dataVars, userVars, tree, applied>>
-----------------------------------------------------------------------------
(* Changes of the tree, made by the users of p.                            *)

HasRoom(p, o) == o.type \in Makes => NextINode(tree[p]) < MaxINodes

KindOf(p, o) == IF o.type = "RENAME" /\ IsDirectory(tree[p], INodeAt(tree[p], o.path))
                THEN "RENAME_DIRECTORY" ELSE o.type

Operations == [type : TreeTypes \ {"RENAME"}, path : Paths, to : {<<>>}]
              \cup [type : {"RENAME"}, path : Paths, to : Paths]

(* A handler changes the table and replies; whether it has to announce the *)
(* change it finds out afterwards.                                         *)
Change(p, o) ==
    /\ o.type \in TreeTypes
    /\ KindOf(p, o) \in UserOps
    /\ MayUse(p, o.type)
    /\ HasRoom(p, o)
    /\ KernelAllows(tree[p], o) /\ HandlerAllows(tree[p], o)
    /\ tree' = [tree EXCEPT ![p] = Applied(@, o)]
    /\ applied' = [applied EXCEPT ![p] = Append(@, o)]
    /\ requests' = requests + 1
    /\ user' = p
    /\ fuse' = IF o.type \in Announced
               THEN [fuse EXCEPT ![p] = [at |-> "announce", op |-> Announcement(tree[p], o)]]
               ELSE fuse
    /\ UNCHANGED <<recv, mounted, fromThread, unmountFromThread, crashed>>
    /\ UNCHANGED <<dataVars, issued, net>>

(* send*Request: a header to everyone, the sender included, and a body to  *)
(* everyone else.                                                          *)
Broadcast(p, o) ==
    net' = [net EXCEPT ![p] = [q \in Ranks |->
                IF q = p THEN Append(@[q], Header(o.type))
                ELSE @[q] \o <<Header(o.type), Body(o)>>]]

(* Slip: the flag is not taken down. *)
Announce_flagLeft(p) ==
    LET o == fuse[p].op
    IN  /\ fuse[p].at = "announce"
        /\ fuse' = [fuse EXCEPT ![p] = At("loop")]
        /\ IF fromThread[p][o.type] THEN net' = net ELSE Broadcast(p, o)
        /\ UNCHANGED <<recv, mounted, fromThread, unmountFromThread, crashed>>
        /\ UNCHANGED <<dataVars, userVars, tree, applied>>

(* if (!...FromThread) send...Request(...); the flag is reset after that,  *)
(* by all handlers but rename's, which resets it only when it was set.     *)
Announce(p) ==
    LET o == fuse[p].op
    IN  /\ fuse[p].at = "announce"
        /\ IF fromThread[p][o.type]
           THEN /\ fromThread' = [fromThread EXCEPT ![p][o.type] = FALSE]
                /\ fuse' = [fuse EXCEPT ![p] = At("loop")]
                /\ net' = net
           ELSE /\ Broadcast(p, o)
                /\ fuse' = [fuse EXCEPT ![p] = IF o.type = "RENAME" THEN At("loop")
                                               ELSE [at |-> "reset", op |-> o]]
                /\ fromThread' = fromThread
        /\ UNCHANGED <<recv, mounted, unmountFromThread, crashed>>
        /\ UNCHANGED <<dataVars, userVars, tree, applied>>

ResetFlag(p) == /\ fuse[p].at = "reset"
                /\ fromThread' = [fromThread EXCEPT ![p][fuse[p].op.type] = FALSE]
                /\ fuse' = [fuse EXCEPT ![p] = At("loop")]
                /\ UNCHANGED <<recv, mounted, unmountFromThread, crashed>>
                /\ UNCHANGED <<dataVars, userVars, net, tree, applied>>
-----------------------------------------------------------------------------
(* Writes and reads of the users of p.                                     *)

(* send*Request and the first loop of DAGonFS_Write and DAGonFS_Read.      *)
SendCall(p, c) ==
    net' = [net EXCEPT ![p] = [q \in Ranks |->
                IF q = p THEN @[q] ELSE @[q] \o <<Header(c.type), Body(c)>>]]

(* A file is opened for writing only or emptied, written and closed.       *)
FuseFlush(p, path, size) ==
    LET ino == INodeAt(tree[p], path)
        c   == [type |-> "WRITE", source |-> p, inode |-> ino, fileSize |-> size]
    IN  /\ "WRITE" \in UserOps
        /\ MayUse(p, "WRITE")
        /\ IsFile(tree[p], ino)
        /\ tree' = [tree EXCEPT ![p][ino].st_size = size,
                                ![p][ino].st_blocks = NumberOfBlocks(size)]
        /\ SendCall(p, c)
        /\ fuse' = [fuse EXCEPT ![p] = [at |-> "scatter", call |-> c]]
        /\ requests' = requests + 1
        /\ issued' = issued + 1
        /\ user' = p
        /\ UNCHANGED <<recv, mounted, fromThread, unmountFromThread, crashed, dataVars, applied>>

(* A file is opened for reading, which loads all of it.                    *)
FuseOpen(p, path) ==
    LET ino == INodeAt(tree[p], path)
        c   == [type |-> "READ", source |-> p, inode |-> ino, fileSize |-> tree[p][ino].st_size]
    IN  /\ "READ" \in UserOps
        /\ MayUse(p, "READ")
        /\ IsFile(tree[p], ino)
        /\ SendCall(p, c)
        /\ fuse' = IF c.fileSize = 0 THEN fuse
                   ELSE [fuse EXCEPT ![p] = [at |-> "scatter", call |-> c]]
        /\ readBuff' = IF c.fileSize = 0 THEN <<>> ELSE readBuff
        /\ requests' = requests + 1
        /\ issued' = issued + 1
        /\ user' = p
        /\ UNCHANGED <<recv, mounted, fromThread, unmountFromThread, crashed, tree, applied>>
        /\ UNCHANGED <<blockList, heap, exchanges, pos, written>>

(* What a thread of p contributes when it received its share: the          *)
(* addresses of the blocks it stores, or the blocks it was asked for.      *)
Contribution(p, c, share) ==
    IF c.type = "WRITE" THEN NewAddresses(p, Len(share))
    ELSE [i \in DOMAIN share |-> Deref(p, share[i])]
Stored(p, c, share) == IF c.type = "WRITE" THEN [heap EXCEPT ![p] = @ \o share] ELSE heap

(* The pointers of the first n blocks, from the list of p itself.          *)
Pointers(p, ino, n) ==
    [b \in 1 .. n |-> IF b <= Len(blockList[p][ino]) THEN blockList[p][ino][b]
                      ELSE [rank |-> WorldSize, id |-> 0]]

(* The root scatters, keeps its own share and enters the second collective. *)
FuseScatter(p) ==
    LET c     == fuse[p].call
        n     == NumberOfBlocks(c.fileSize)
        parts == IF c.type = "WRITE" THEN Buffer(issued, n) ELSE Pointers(p, c.inode, n)
        share == ScatterPart(parts, p)
    IN  /\ fuse[p].at = "scatter"
        /\ pos[p] = Len(exchanges)
        /\ exchanges' = Append(exchanges, [call |-> c, parts |-> parts,
                                           gathered |-> [q \in {p} |-> Contribution(p, c, share)]])
        /\ heap' = Stored(p, c, share)
        /\ pos' = [pos EXCEPT ![p] = @ + 1]
        /\ fuse' = [fuse EXCEPT ![p].at = "gather"]
        /\ UNCHANGED <<recv, mounted, fromThread, unmountFromThread, crashed>>
        /\ UNCHANGED <<blockList, readBuff, written, userVars, net, tree, applied>>

Gathered(p) == DOMAIN exchanges[pos[p]].gathered = Ranks
GatheredParts(p) == GatherParts(Len(exchanges[pos[p]].parts), exchanges[pos[p]].gathered)

(* Slip: the new addresses go behind the old ones. *)
Listed_appended(list, addresses) == list \o addresses

(* The list of an inode grows to the blocks of the write, or keeps its     *)
(* old entries past them.                                                  *)
Listed(list, addresses) == addresses \o SubSeq(list, Len(addresses) + 1, Len(list))

(* The root's Allgatherv or Gatherv has the parts of all.                  *)
FuseGather(p) ==
    LET c == fuse[p].call
    IN  /\ fuse[p].at = "gather"
        /\ Gathered(p)
        /\ fuse' = [fuse EXCEPT ![p] = At("loop")]
        /\ IF c.type = "WRITE"
           THEN /\ blockList' = [blockList EXCEPT ![p][c.inode] = Listed(@, GatheredParts(p))]
                /\ written' = [written EXCEPT ![c.inode] = Len(exchanges[pos[p]].parts)]
                /\ readBuff' = readBuff
           ELSE /\ readBuff' = GatheredParts(p)
                /\ UNCHANGED <<blockList, written>>
        /\ UNCHANGED <<recv, mounted, fromThread, unmountFromThread, crashed>>
        /\ UNCHANGED <<heap, exchanges, pos, userVars, net, tree, applied>>
-----------------------------------------------------------------------------
(* The receiving thread of p. *)

Receive(q, p) == net' = [net EXCEPT ![q][p] = Tail(@)]

(* The header of a request.  Its own requests a peer ignores, but for the  *)
(* termination.  The flag goes up before the body is received.             *)
RecvHeader(q, p) ==
    LET type == Head(net[q][p]).type
    IN  /\ recv[p] = At("request")
        /\ net[q][p] # <<>> /\ Head(net[q][p]).part = "header"
        /\ type # "TERMINATE"
        /\ Receive(q, p)
        /\ IF q = p THEN UNCHANGED <<recv, fromThread>>
           ELSE /\ recv' = [recv EXCEPT ![p] = [at |-> "body", type |-> type, source |-> q]]
                /\ fromThread' = IF type \in Announced
                                 THEN [fromThread EXCEPT ![p][type] = TRUE] ELSE fromThread
        /\ UNCHANGED <<fuse, mounted, unmountFromThread, crashed>>
        /\ UNCHANGED <<dataVars, userVars, tree, applied>>

(* unmountFileSystem runs the script that unmounts p, if p is mounted.     *)
RecvTerminate(q, p) ==
    /\ recv[p] = At("request")
    /\ net[q][p] # <<>> /\ Head(net[q][p]) = Header("TERMINATE")
    /\ Receive(q, p)
    /\ recv' = [recv EXCEPT ![p] = At("terminated")]
    /\ unmountFromThread' = [unmountFromThread EXCEPT ![p] = @ \/ q # p]
    /\ mounted' = [mounted EXCEPT ![p] = @ /\ q = p]
    /\ UNCHANGED <<fuse, fromThread, crashed>>
    /\ UNCHANGED <<dataVars, userVars, tree, applied>>

(* Slip: an empty file is read like any other. *)
RecvBody_emptyGoesOn(q, p) ==
    LET content == Head(net[q][p]).content
    IN  /\ recv[p].at = "body"
        /\ net[q][p] # <<>> /\ Head(net[q][p]).part = "body"
        /\ content.type = recv[p].type
        /\ Receive(q, p)
        /\ recv' = [recv EXCEPT ![p] =
               IF content.type \in Announced THEN [at |-> "syscall", type |-> content.type, op |-> content]
               ELSE [at |-> "scatter", call |-> content]]
        /\ UNCHANGED <<fuse, mounted, fromThread, unmountFromThread, crashed>>
        /\ UNCHANGED <<dataVars, userVars, tree, applied>>

(* The body, from whoever sent one.  DAGonFS_Read ends here for an empty   *)
(* file.  Where another part comes first, the step after RequestsPaired    *)
(* fails, nothing is promised and no step is modelled.                     *)
RecvBody(q, p) ==
    LET content == Head(net[q][p]).content
    IN  /\ recv[p].at = "body"
        /\ net[q][p] # <<>> /\ Head(net[q][p]).part = "body"
        /\ content.type = recv[p].type
        /\ Receive(q, p)
        /\ recv' = [recv EXCEPT ![p] =
               IF content.type \in Announced THEN [at |-> "syscall", type |-> content.type, op |-> content]
               ELSE IF content.type = "READ" /\ content.fileSize = 0 THEN At("request")
               ELSE [at |-> "scatter", call |-> content]]
        /\ UNCHANGED <<fuse, mounted, fromThread, unmountFromThread, crashed>>
        /\ UNCHANGED <<dataVars, userVars, tree, applied>>

(* The system call on the own mount point, served by the FUSE thread.  A   *)
(* call that the kernel or the handler refuses leaves the flag up; so does *)
(* an fopen of a file that is there, which empties it, and any call before *)
(* the mount.  fopen is followed by fclose, which crashes without a file   *)
(* and else waits for a flush.                                             *)
Replay(p) ==
    LET o       == recv[p].op
        Creates == o.type = "CREATE_FILE"
        Exists  == IsFile(tree[p], INodeAt(tree[p], o.path))
        Runs    == mounted[p] /\ KernelAllows(tree[p], o) /\ HandlerAllows(tree[p], o)
    IN  /\ recv[p].at = "syscall"
        /\ fuse[p] = At("loop") \/ ~mounted[p]
        /\ HasRoom(p, o)
        /\ tree' = [tree EXCEPT ![p] = IF Runs THEN Applied(@, o)
                                       ELSE IF mounted[p] /\ Creates /\ Exists THEN Truncated(@, o.path)
                                       ELSE @]
        /\ applied' = IF Runs THEN [applied EXCEPT ![p] = Append(@, o)] ELSE applied
        /\ fuse' = IF Runs THEN [fuse EXCEPT ![p] = [at |-> "announce", op |-> Announcement(tree[p], o)]]
                   ELSE fuse
        /\ recv' = [recv EXCEPT ![p] = IF Creates /\ mounted[p]
                                       THEN [at |-> "close", type |-> "CREATE_FILE"] ELSE At("request")]
        /\ crashed' = (crashed \/ (mounted[p] /\ Creates /\ ~Runs /\ ~Exists))
        /\ UNCHANGED <<mounted, fromThread, unmountFromThread>>
        /\ UNCHANGED <<dataVars, userVars, net>>

(* fclose: nothing was written, so the flush does nothing.                 *)
ReplayClose(p) == /\ recv[p].at = "close"
                  /\ fuse[p] = At("loop") \/ ~mounted[p]
                  /\ recv' = [recv EXCEPT ![p] = At("request")]
                  /\ UNCHANGED <<fuse, mounted, fromThread, unmountFromThread, crashed>>
                  /\ UNCHANGED <<dataVars, userVars, net, tree, applied>>

(* The next exchange is the one that the call of p's receiving thread is.  *)
Joins(p, c) == pos[p] < Len(exchanges) /\ exchanges[pos[p] + 1].call = c

RecvScatter(p) ==
    LET c     == recv[p].call
        share == ScatterPart(exchanges[pos[p] + 1].parts, p)
    IN  /\ recv[p].at = "scatter"
        /\ Joins(p, c)
        /\ exchanges' = [exchanges EXCEPT ![pos[p] + 1].gathered =
               [q \in DOMAIN @ \cup {p} |-> IF q = p THEN Contribution(p, c, share) ELSE @[q]]]
        /\ heap' = Stored(p, c, share)
        /\ pos' = [pos EXCEPT ![p] = @ + 1]
        /\ recv' = [recv EXCEPT ![p] = IF c.type = "WRITE" THEN [at |-> "gather", call |-> c]
                                       ELSE At("request")]
        /\ UNCHANGED <<fuse, mounted, fromThread, unmountFromThread, crashed>>
        /\ UNCHANGED <<blockList, readBuff, written, userVars, net, tree, applied>>

(* Slip: the size of the file stays what it was. *)
RecvGather_sizeKept(p) ==
    LET c == recv[p].call
    IN  /\ recv[p].at = "gather"
        /\ Gathered(p)
        /\ blockList' = [blockList EXCEPT ![p][c.inode] = Listed(@, GatheredParts(p))]
        /\ recv' = [recv EXCEPT ![p] = At("request")]
        /\ UNCHANGED <<fuse, mounted, fromThread, unmountFromThread, crashed>>
        /\ UNCHANGED <<heap, exchanges, pos, readBuff, written, userVars, net, tree, applied>>

(* The Allgatherv gives the addresses to every peer, and with them the     *)
(* size; the blocks of the file become those of the list.  An inode that p *)
(* has not made is past the end of its vector.                             *)
RecvGather(p) ==
    LET c == recv[p].call
    IN  /\ recv[p].at = "gather"
        /\ Gathered(p)
        /\ blockList' = [blockList EXCEPT ![p][c.inode] = Listed(@, GatheredParts(p))]
        /\ tree' = IF c.inode \in DOMAIN tree[p]
                   THEN [tree EXCEPT ![p][c.inode].st_size = c.fileSize,
                                     ![p][c.inode].st_blocks = Len(blockList'[p][c.inode])]
                   ELSE tree
        /\ crashed' = (crashed \/ c.inode \notin DOMAIN tree[p])
        /\ recv' = [recv EXCEPT ![p] = At("request")]
        /\ UNCHANGED <<fuse, mounted, fromThread, unmountFromThread>>
        /\ UNCHANGED <<heap, exchanges, pos, readBuff, written, userVars, net, applied>>
-----------------------------------------------------------------------------
UserNext(p) == \/ \E o \in Operations : Change(p, o)
               \/ \E path \in Paths, size \in FileSizes : FuseFlush(p, path, size)
               \/ \E path \in Paths : FuseOpen(p, path)
               \/ Unmount(p)

StartNext(p) == Mount(p) \/ StartFails(p) \/ MountFails(p)

FuseNext(p) == \/ Announce(p) \/ ResetFlag(p)
               \/ FuseScatter(p) \/ FuseGather(p)
               \/ LoopEnds(p) \/ SendTermination(p)

RecvNext(p) == \/ \E q \in Ranks : RecvHeader(q, p) \/ RecvBody(q, p) \/ RecvTerminate(q, p)
               \/ Replay(p) \/ ReplayClose(p)
               \/ RecvScatter(p) \/ RecvGather(p)

PeerNext(p) == ~crashed /\ (UserNext(p) \/ StartNext(p) \/ FuseNext(p) \/ RecvNext(p))

(* All are in MPI_Finalize, or wait for a receiving thread that nobody     *)
(* will end, or MPI has ended them.                                        *)
Stopped == crashed \/ \A p \in Ranks : fuse[p].at \in {"finished", "failed"}
Terminating == Stopped /\ UNCHANGED vars

Next == (\E p \in Ranks : PeerNext(p)) \/ Terminating

(* Both threads of a peer go on while they can; what users do is their     *)
(* own affair, and so is when a peer is started.                           *)
Fairness == \A p \in Ranks : /\ WF_vars(~crashed /\ FuseNext(p))
                             /\ WF_vars(~crashed /\ RecvNext(p))
Spec == Init /\ [][Next]_vars /\ Fairness
-----------------------------------------------------------------------------
(* Properties. *)

Calls == [type : {"WRITE", "READ"}, source : Ranks, inode : Files, fileSize : Nat]
Requests == Calls \cup [type : Announced, path : Seq(Names), to : Seq(Names)]
Messages == [part : {"header"}, type : Announced \cup {"WRITE", "READ", "TERMINATE"}]
            \cup [part : {"body"}, content : Requests]
Addresses == [rank : 0 .. WorldSize, id : Nat]
Blobs == [write : Nat, block : Nat]
Places == {"starting", "loop", "announce", "reset", "scatter", "gather",
           "unmounted", "finished", "failed"}
INodeRecords(numbers) ==
    [type : {"SPECIAL", "DIRECTORY", "REGULAR_FILE", "SYMBOLIC_LINK"},
     st_nlink : Int, m_children : [Names -> numbers \cup {NoChild}],
     dir_name : Seq(Names), st_size : Nat, st_blocks : Nat]

TypeOK ==
    /\ \A p \in Ranks :
          /\ fuse[p].at \in Places
          /\ fuse[p].at \in {"announce", "reset"} => fuse[p].op \in Requests \ Calls
          /\ fuse[p].at \in {"scatter", "gather"} => fuse[p].call \in Calls
          /\ recv[p].at \in {"request", "body", "syscall", "close", "scatter", "gather", "terminated"}
          /\ LET last == Cardinality(DOMAIN tree[p]) - 1
             IN  tree[p] \in [0 .. last -> INodeRecords(0 .. last)]
    /\ mounted \in [Ranks -> BOOLEAN] /\ unmountFromThread \in [Ranks -> BOOLEAN]
    /\ fromThread \in [Ranks -> [Announced -> BOOLEAN]]
    /\ net \in [Ranks -> [Ranks -> Seq(Messages)]]
    /\ blockList \in [Ranks -> [Files -> Seq(Addresses)]]
    /\ heap \in [Ranks -> Seq(Blobs)]
    /\ pos \in [Ranks -> 0 .. Len(exchanges)]
    /\ readBuff \in Seq(Blobs \cup {Garbage})
    /\ applied \in [Ranks -> Seq([type : TreeTypes, path : Seq(Names), to : Seq(Names)])]

(***************************************************************************)
(* What the receiving thread receives next, from whatever peer, is what it *)
(* waits for: after a header the body of the same request, and no body     *)
(* where a header is due.  Each part is received from any source, so this  *)
(* is lost as soon as two peers are used at once.                          *)
(***************************************************************************)
RequestsPaired ==
    \A q, p \in Ranks : net[q][p] # <<>> =>
        LET m == Head(net[q][p])
        IN  /\ recv[p].at = "body" => /\ m.part = "body"
                                      /\ m.content.type = recv[p].type
                                      /\ q = recv[p].source
            /\ recv[p].at = "request" => m.part = "header"

(***************************************************************************)
(* The peers enter the same collectives in the same order, one thread of   *)
(* each at a time: a root finds none begun that it has not taken part in,  *)
(* and another peer's next exchange is the call its thread was sent.  Each *)
(* peer may be a root, and the two threads of a peer share the arrays of   *)
(* counts and displacements.                                               *)
(***************************************************************************)
InCall(thread) == thread.at \in {"scatter", "gather"}
CollectivesMatch ==
    \A p \in Ranks :
        /\ ~(InCall(fuse[p]) /\ InCall(recv[p]))
        /\ fuse[p].at = "scatter" => pos[p] = Len(exchanges)
        /\ recv[p].at = "scatter" => (pos[p] = Len(exchanges) \/ Joins(p, recv[p].call))

(***************************************************************************)
(* Whichever peer reads, each pointer goes to the peer that malloc'ed the  *)
(* block: the list a reader deals from was filled from the Allgatherv of   *)
(* another peer's write.                                                   *)
(***************************************************************************)
PointerLocality ==
    \A k \in 1 .. Len(exchanges) : exchanges[k].call.type = "READ" =>
        \A p \in Ranks :
            LET share == ScatterPart(exchanges[k].parts, p)
            IN  \A i \in DOMAIN share : IsLocal(p, share[i])

(***************************************************************************)
(* When all have caught up, every mount point shows the same file system:  *)
(* the same tree with the same inode numbers, which the data path sends    *)
(* from peer to peer, the same sizes, the same block lists.  st_blocks is  *)
(* no part of it: the writer counts the blocks of the file, the others     *)
(* those of the list, which never shrinks.                                 *)
(***************************************************************************)
Shown(p) == [ino \in DOMAIN tree[p] |-> [tree[p][ino] EXCEPT !.st_blocks = 0]]
PeersAgree == AllMounted /\ Quiet =>
    \A p, q \in Ranks : Shown(p) = Shown(q) /\ blockList[p] = blockList[q]

(***************************************************************************)
(* When all have caught up no flag is left: the next operation of a user   *)
(* would be taken for a repeated one and not be announced.                 *)
(***************************************************************************)
FlagsDown == AllMounted /\ Quiet =>
    \A p \in Ranks, type \in Announced : ~fromThread[p][type]

(***************************************************************************)
(* Every peer carries out all operations on the tree, each once, in the    *)
(* order in which users made them.                                         *)
(***************************************************************************)
Log == INSTANCE OperationLog WITH Replicas <- Ranks
ImplementsOperationLog == Log!Spec

(***************************************************************************)
(* The collectives of all peers together are the same store that those of  *)
(* the client-server version are: a read through any mount point returns   *)
(* what was last written through any other.                                *)
(***************************************************************************)
StoredBlocks(ino) == [b \in 1 .. written[ino] |->
                        LET address == blockList[user][ino][b]
                        IN  heap[address.rank][address.id]]
Store == INSTANCE BlockStore WITH
    INodes    <- Files,
    MaxBlocks <- NumberOfBlocks(CHOOSE s \in FileSizes : \A t \in FileSizes : t <= s),
    store     <- [ino \in Files |-> StoredBlocks(ino)],
    pending   <- IF ~InCall(fuse[user]) THEN [op |-> "none"]
                 ELSE LET c == fuse[user].call
                      IN  [op |-> IF c.type = "WRITE" THEN "write" ELSE "read",
                           inode |-> c.inode, blocks |-> NumberOfBlocks(c.fileSize)],
    answer    <- readBuff
ImplementsBlockStore == Store!Spec

(***************************************************************************)
(* When users pause, all peers catch up: no thread waits for ever, neither *)
(* a FUSE thread in a collective or a receiving thread in a system call on *)
(* its own mount point, nor one for the other.                             *)
(***************************************************************************)
PeersCatchUp == ~Quiet ~> Quiet

(***************************************************************************)
(* An unmount at one peer, with all mounted, ends both threads of all.     *)
(***************************************************************************)
UnmountedFirst == \E p \in Ranks : fuse[p] = At("unmounted") /\ \A q \in Others(p) : fuse[q] = At("loop")
AllStopped == \A p \in Ranks : fuse[p] = At("finished") /\ recv[p] = At("terminated")
PeersStop == UnmountedFirst ~> AllStopped
=============================================================================
