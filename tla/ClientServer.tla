---------------------------- MODULE ClientServer ----------------------------
(***************************************************************************)
(* The data path of the client-server version.  Rank 0, the master, runs   *)
(* the FUSE loop; a flush of a dirty file and an open for reading turn     *)
(* into a series of MPI collectives in which every other rank takes part   *)
(* from NodeProcessCode::start.                                            *)
(*                                                                         *)
(* MPI matches the collectives of a communicator in the order in which     *)
(* each rank calls them.  comm is the sequence of Bcast and Scatterv calls *)
(* the master has made, and pos[r] how many of them rank r has taken part  *)
(* in; the master does not wait for the others in these.  In a Gatherv it  *)
(* waits until every rank has contributed.                                 *)
(*                                                                         *)
(* A block is malloc'ed by the rank that owns it and is never freed.  Its  *)
(* address means something in that rank only: the master keeps the         *)
(* addresses and hands each back when the file is read.                    *)
(***************************************************************************)
EXTENDS Striping, FiniteSets

CONSTANTS INodes,       \* inode numbers of regular files
          FileSizes,    \* the file sizes, in bytes
          MaxRequests,  \* bound on the number of flushes and opens
          StartMayFail, \* may FileSystem::start return before the mount?
          Garbage       \* what a read through a foreign pointer yields

ASSUME ClientServerAssumption == /\ INodes # {}
                                 /\ FileSizes \subseteq Nat
                                 /\ MaxRequests \in Nat
                                 /\ StartMayFail \in BOOLEAN

VARIABLES
    mpc,                \* where the master is
    call,               \* the inode and size of DAGonFS_Write / DAGonFS_Read
    comm,               \* the master's Bcast and Scatterv calls
    npc,                \* npc[r]: where node r is in its loop
    nreq,               \* nreq[r]: node r's ioRequest
    pos,                \* pos[r]: the calls of comm node r took part in
    gathered,           \* the contributions to the next or current Gatherv
    heap,               \* heap[r]: the blocks rank r has malloc'ed
    blockList,          \* Blocks::FileSystemDataBlocks of the master
    dataBlockPointers,  \* NodeProcessCode::dataBlockPointers of each node
    readBuff,           \* what the last DAGonFS_Read returned
    aborted,            \* a rank died of a bad pointer, and MPI with it
    requests,           \* how many flushes and opens there were
    written             \* history: the blocks of the last completed write

masterVars == <<mpc, call, blockList, readBuff, requests, written>>
nodeVars == <<npc, nreq, pos, dataBlockPointers>>
vars == <<masterVars, nodeVars, comm, gathered, heap, aborted>>

Master == 0
Nodes == Ranks \ {Master}

RequestTypes == {"WRITE", "READ", "CHANGE_DIR", "TERMINATE"}

(* Calls of comm. *)
Request(type) == [kind |-> "Request", type |-> type]
IORequest(ino, size) == [kind |-> "IORequest", inode |-> ino, fileSize |-> size]
Scatterv(s) == [kind |-> "Scatterv", parts |-> s]

(* The buffer of the w-th request, cut into n blocks. *)
Buffer(w, n) == [b \in 1 .. n |-> [write |-> w, block |-> b]]

(* Slip: ids counted from the last block instead of past it. *)
NewAddresses_offByOne(r, k) == [i \in 1 .. k |-> [rank |-> r, id |-> Len(heap[r]) + i - 1]]

(* The addresses of the k blocks rank r mallocs next. *)
NewAddresses(r, k) == [i \in 1 .. k |-> [rank |-> r, id |-> Len(heap[r]) + i]]

(* memcpy from an address, in rank r: right only if r malloc'ed it. *)
IsLocal(r, address) == address.rank = r /\ address.id \in 1 .. Len(heap[r])
Deref(r, address) == IF IsLocal(r, address) THEN heap[r][address.id] ELSE Garbage

(* The contribution of a rank to the Gatherv. *)
Contribute(r, part) ==
    gathered' = [s \in DOMAIN gathered \cup {r} |-> IF s = r THEN part ELSE gathered[s]]
-----------------------------------------------------------------------------
Init ==
    /\ mpc = "start"
    /\ call = [inode |-> CHOOSE ino \in INodes : TRUE, fileSize |-> 0]
    /\ comm = <<>>
    /\ npc = [r \in Nodes |-> "request"]
    /\ nreq = [r \in Nodes |-> call]
    /\ pos = [r \in Nodes |-> 0]
    /\ gathered = [r \in {} |-> <<>>]
    /\ heap = [r \in Ranks |-> <<>>]
    /\ blockList = [ino \in INodes |-> <<>>]
    /\ dataBlockPointers = [r \in Nodes |-> [ino \in INodes |-> <<>>]]
    /\ readBuff = <<>>
    /\ aborted = FALSE
    /\ requests = 0
    /\ written = [ino \in INodes |-> 0]
-----------------------------------------------------------------------------
(* The master. *)

(* The session loop starts; FuseInit tells the nodes to change directory.  *)
Mount == /\ mpc = "start"
         /\ mpc' = "loop"
         /\ comm' = Append(comm, Request("CHANGE_DIR"))
         /\ UNCHANGED <<call, blockList, readBuff, requests, written>>
         /\ UNCHANGED <<nodeVars, gathered, heap, aborted>>

(* Signal handlers or mount refused: start goes straight to its last steps. *)
MountFails == /\ mpc = "start"
              /\ mpc' = "unmounted"
              /\ UNCHANGED <<call, blockList, readBuff, requests, written>>
              /\ UNCHANGED <<comm, nodeVars, gathered, heap, aborted>>

(* start returns at once: for bad options or no session, and main goes to  *)
(* MPI_Finalize without a word to the nodes; or for no directory or times  *)
(* file, and ~FileSystem dies first of closing a file that is not open,    *)
(* which ends MPI and with it the nodes.                                   *)
StartFails == /\ mpc = "start"
              /\ StartMayFail
              /\ mpc' \in {"failed", "crashed"}
              /\ UNCHANGED <<call, blockList, readBuff, requests, written>>
              /\ UNCHANGED <<comm, nodeVars, gathered, heap, aborted>>

(* The session loop ends, which it does between two requests.              *)
Unmount == /\ mpc = "loop"
           /\ ~aborted
           /\ mpc' = "unmounted"
           /\ UNCHANGED <<call, blockList, readBuff, requests, written>>
           /\ UNCHANGED <<comm, nodeVars, gathered, heap, aborted>>

(* Slip: the termination is not sent. *)
SendTermination_silent == /\ mpc = "unmounted"
                          /\ mpc' = "finished"
                          /\ UNCHANGED <<call, blockList, readBuff, requests, written>>
                          /\ UNCHANGED <<comm, nodeVars, gathered, heap, aborted>>

(* The last step of start. *)
SendTermination == /\ mpc = "unmounted"
                   /\ mpc' = "finished"
                   /\ comm' = Append(comm, Request("TERMINATE"))
                   /\ UNCHANGED <<call, blockList, readBuff, requests, written>>
                   /\ UNCHANGED <<nodeVars, gathered, heap, aborted>>

(* A flush of a dirty file: sendWriteRequest, and DAGonFS_Write up to the  *)
(* Gatherv, which waits for the nodes.  The master keeps its own share.    *)
WriteCall(ino, size) ==
    LET buffer == Buffer(requests + 1, NumberOfBlocks(size))
        share  == ScatterPart(buffer, Master)
    IN  /\ mpc = "loop"
        /\ ~aborted
        /\ requests < MaxRequests
        /\ requests' = requests + 1
        /\ call' = [inode |-> ino, fileSize |-> size]
        /\ comm' = comm \o <<Request("WRITE"), IORequest(ino, size), Scatterv(buffer)>>
        /\ heap' = [heap EXCEPT ![Master] = @ \o share]
        /\ Contribute(Master, NewAddresses(Master, Len(share)))
        /\ mpc' = "write"
        /\ UNCHANGED <<blockList, readBuff, written, nodeVars, aborted>>

(* addDataBlocksTo: the list grows to n blocks, dealt round robin from the *)
(* rank of its last block on.  This rank is not the owner the stripe chose. *)
GrownTo(list, n) ==
    LET lastRank == IF list = <<>> THEN 0 ELSE list[Len(list)].rank
    IN  IF n <= Len(list) THEN list
        ELSE list \o [i \in 1 .. n - Len(list) |->
                         [rank |-> (lastRank + i - 1) % WorldSize, data |-> <<>>]]

(* Slips of WriteDone: the list is not grown; the addresses of blocks that *)
(* were there before are kept.                                             *)
WriteDone_notGrown ==
    LET ino       == call.inode
        n         == NumberOfBlocks(call.fileSize)
    IN  /\ mpc = "write"
        /\ ~aborted
        /\ DOMAIN gathered = Ranks
        /\ blockList' = [blockList EXCEPT ![ino] = GrownTo(@, n)]
        /\ written' = [written EXCEPT ![ino] = n]
        /\ gathered' = [r \in {} |-> <<>>]
        /\ mpc' = "loop"
        /\ UNCHANGED <<call, readBuff, requests, comm, nodeVars, heap, aborted>>

WriteDone_keepsOld ==
    LET ino       == call.inode
        n         == NumberOfBlocks(call.fileSize)
        addresses == GatherParts(n, gathered)
        list      == GrownTo(blockList[ino], n)
    IN  /\ mpc = "write"
        /\ ~aborted
        /\ DOMAIN gathered = Ranks
        /\ blockList' = [blockList EXCEPT ![ino] =
                [b \in DOMAIN list |->
                    IF b <= n /\ b > Len(blockList[ino])
                    THEN [list[b] EXCEPT !.data = addresses[b]] ELSE list[b]]]
        /\ written' = [written EXCEPT ![ino] = n]
        /\ gathered' = [r \in {} |-> <<>>]
        /\ mpc' = "loop"
        /\ UNCHANGED <<call, readBuff, requests, comm, nodeVars, heap, aborted>>

(* The rest of DAGonFS_Write: every address has come in, and replaces the  *)
(* one of the block's old data.  A longer list keeps its tail.             *)
WriteDone ==
    LET ino       == call.inode
        n         == NumberOfBlocks(call.fileSize)
        addresses == GatherParts(n, gathered)
        list      == GrownTo(blockList[ino], n)
    IN  /\ mpc = "write"
        /\ ~aborted
        /\ DOMAIN gathered = Ranks
        /\ blockList' = [blockList EXCEPT ![ino] =
                [b \in DOMAIN list |->
                    IF b <= n THEN [list[b] EXCEPT !.data = addresses[b]] ELSE list[b]]]
        /\ written' = [written EXCEPT ![ino] = n]
        /\ gathered' = [r \in {} |-> <<>>]
        /\ mpc' = "loop"
        /\ UNCHANGED <<call, readBuff, requests, comm, nodeVars, heap, aborted>>

(* dataBlockList[i]->getData(); past the end of the list anything comes    *)
(* back, here an address that is good in no rank.                          *)
WildPointer == [rank |-> WorldSize, id |-> 0]
PointerOf(ino, b) ==
    IF b <= Len(blockList[ino]) THEN blockList[ino][b].data ELSE WildPointer

(* The list of the file, in the order of its blocks, as far as it goes.    *)
PointersFor(ino, size) ==
    [b \in 1 .. NumberOfBlocksForRequest(size, size) |-> PointerOf(ino, b)]

(* An open for reading of an empty file: DAGonFS_Read returns at once.     *)
ReadCallEmpty(ino, size) ==
    /\ mpc = "loop"
    /\ ~aborted
    /\ requests < MaxRequests
    /\ size = 0
    /\ requests' = requests + 1
    /\ call' = [inode |-> ino, fileSize |-> size]
    /\ comm' = comm \o <<Request("READ"), IORequest(ino, size)>>
    /\ readBuff' = <<>>
    /\ UNCHANGED <<mpc, blockList, written, nodeVars, gathered, heap, aborted>>

(* An open for reading: sendReadRequest, and DAGonFS_Read up to its        *)
(* Gatherv.  It asks for st_size bytes of a file of st_size bytes, which   *)
(* setattr or another handle may have changed since the last flush.  The   *)
(* pointers go out by the stripe of the size asked for.                    *)
ReadCall(ino, size) ==
    LET pointers == PointersFor(ino, size)
        share    == ScatterPart(pointers, Master)
    IN  /\ mpc = "loop"
        /\ ~aborted
        /\ requests < MaxRequests
        /\ size > 0
        /\ requests' = requests + 1
        /\ call' = [inode |-> ino, fileSize |-> size]
        /\ comm' = comm \o <<Request("READ"), IORequest(ino, size), Scatterv(pointers)>>
        /\ Contribute(Master, [i \in DOMAIN share |-> Deref(Master, share[i])])
        /\ mpc' = "read"
        /\ UNCHANGED <<blockList, readBuff, written, nodeVars, heap, aborted>>

(* An index past the end of the list, or following a bad pointer, may kill *)
(* the master within the call instead.                                     *)
ReadFaults ==
    LET pointers == PointersFor(call.inode, call.fileSize)
        share    == ScatterPart(pointers, Master)
    IN  /\ mpc = "read"
        /\ ~aborted
        /\ \/ Len(pointers) > Len(blockList[call.inode])
           \/ \E i \in DOMAIN share : ~IsLocal(Master, share[i])
        /\ aborted' = TRUE
        /\ UNCHANGED <<masterVars, nodeVars, comm, gathered, heap>>

(* The rest of DAGonFS_Read: the blocks have come in.                      *)
ReadDone ==
    /\ mpc = "read"
    /\ ~aborted
    /\ DOMAIN gathered = Ranks
    /\ readBuff' = GatherParts(NumberOfBlocksForRequest(call.fileSize, call.fileSize), gathered)
    /\ gathered' = [r \in {} |-> <<>>]
    /\ mpc' = "loop"
    /\ UNCHANGED <<call, blockList, requests, written, comm, nodeVars, heap, aborted>>
-----------------------------------------------------------------------------
(* A node. *)

(* The master's next call, for node r, is of this kind. *)
NextCall(r) == comm[pos[r] + 1]
Receives(r, kind) == /\ ~aborted
                     /\ pos[r] < Len(comm)
                     /\ NextCall(r).kind = kind

(* The switch of NodeProcessCode::start; other types are ignored.          *)
NodeRequest(r) ==
    /\ npc[r] = "request"
    /\ Receives(r, "Request")
    /\ pos' = [pos EXCEPT ![r] = @ + 1]
    /\ npc' = [npc EXCEPT ![r] =
           CASE NextCall(r).type = "WRITE"     -> "write_io"
             [] NextCall(r).type = "READ"      -> "read_io"
             [] NextCall(r).type = "TERMINATE" -> "stopped"
             [] OTHER                          -> "request"]
    /\ UNCHANGED <<nreq, dataBlockPointers, masterVars, comm, gathered, heap, aborted>>

(* Slip: a node goes on to the Scatterv of a read of an empty file. *)
NodeIORequest_alwaysOn(r) ==
    /\ npc[r] \in {"write_io", "read_io"}
    /\ Receives(r, "IORequest")
    /\ pos' = [pos EXCEPT ![r] = @ + 1]
    /\ nreq' = [nreq EXCEPT ![r] = [inode |-> NextCall(r).inode,
                                    fileSize |-> NextCall(r).fileSize]]
    /\ npc' = [npc EXCEPT ![r] = IF npc[r] = "write_io" THEN "write" ELSE "read"]
    /\ UNCHANGED <<dataBlockPointers, masterVars, comm, gathered, heap, aborted>>

(* The Bcast of ioRequest; a read of an empty file goes no further.        *)
NodeIORequest(r) ==
    /\ npc[r] \in {"write_io", "read_io"}
    /\ Receives(r, "IORequest")
    /\ pos' = [pos EXCEPT ![r] = @ + 1]
    /\ nreq' = [nreq EXCEPT ![r] = [inode |-> NextCall(r).inode,
                                    fileSize |-> NextCall(r).fileSize]]
    /\ npc' = [npc EXCEPT ![r] =
           CASE npc[r] = "write_io"                                -> "write"
             [] npc[r] = "read_io" /\ NextCall(r).fileSize > 0     -> "read"
             [] npc[r] = "read_io" /\ ~(NextCall(r).fileSize > 0)  -> "request"]
    /\ UNCHANGED <<dataBlockPointers, masterVars, comm, gathered, heap, aborted>>

(* The number of blocks node r works out for itself from ioRequest. *)
NodeBlocks(r) ==
    IF npc[r] = "write" THEN NumberOfBlocks(nreq[r].fileSize)
    ELSE NumberOfBlocksForRequest(nreq[r].fileSize, nreq[r].fileSize)
NodeShare(r) == [i \in 1 .. EffectiveBlocks(NodeBlocks(r), r) |->
                    ScatterPart(NextCall(r).parts, r)[i]]

(* Slip: the record of the inode is started anew by each write. *)
NodeWrite_recordReset(r) ==
    LET share     == NodeShare(r)
        addresses == NewAddresses(r, Len(share))
    IN  /\ npc[r] = "write"
        /\ Receives(r, "Scatterv")
        /\ pos' = [pos EXCEPT ![r] = @ + 1]
        /\ heap' = [heap EXCEPT ![r] = @ \o share]
        /\ Contribute(r, addresses)
        /\ dataBlockPointers' = [dataBlockPointers EXCEPT ![r][nreq[r].inode] = addresses]
        /\ npc' = [npc EXCEPT ![r] = "request"]
        /\ UNCHANGED <<nreq, masterVars, comm, aborted>>

(* DAGonFS_Write of a node: store the share, send the addresses.           *)
NodeWrite(r) ==
    LET share     == NodeShare(r)
        addresses == NewAddresses(r, Len(share))
    IN  /\ npc[r] = "write"
        /\ Receives(r, "Scatterv")
        /\ pos' = [pos EXCEPT ![r] = @ + 1]
        /\ heap' = [heap EXCEPT ![r] = @ \o share]
        /\ Contribute(r, addresses)
        /\ dataBlockPointers' = [dataBlockPointers EXCEPT ![r][nreq[r].inode] = @ \o addresses]
        /\ npc' = [npc EXCEPT ![r] = "request"]
        /\ UNCHANGED <<nreq, masterVars, comm, aborted>>

(* DAGonFS_Read of a node: follow the pointers, send what they point at.   *)
NodeRead(r) ==
    /\ npc[r] = "read"
    /\ Receives(r, "Scatterv")
    /\ pos' = [pos EXCEPT ![r] = @ + 1]
    /\ Contribute(r, [i \in DOMAIN NodeShare(r) |-> Deref(r, NodeShare(r)[i])])
    /\ npc' = [npc EXCEPT ![r] = "request"]
    /\ UNCHANGED <<nreq, dataBlockPointers, masterVars, comm, heap, aborted>>

(* The same, when a pointer is not mapped in this process.                 *)
NodeReadFaults(r) ==
    /\ npc[r] = "read"
    /\ Receives(r, "Scatterv")
    /\ \E i \in DOMAIN NodeShare(r) : ~IsLocal(r, NodeShare(r)[i])
    /\ aborted' = TRUE
    /\ UNCHANGED <<masterVars, nodeVars, comm, gathered, heap>>
-----------------------------------------------------------------------------
Serve == \E ino \in INodes, size \in FileSizes :
            \/ WriteCall(ino, size)
            \/ ReadCallEmpty(ino, size)
            \/ ReadCall(ino, size)

MasterNext == \/ Mount \/ MountFails \/ StartFails
              \/ Serve \/ WriteDone \/ ReadDone \/ ReadFaults
              \/ Unmount \/ SendTermination

NodeNext(r) == \/ NodeRequest(r) \/ NodeIORequest(r)
               \/ NodeWrite(r) \/ NodeRead(r) \/ NodeReadFaults(r)

(* Everyone is in MPI_Finalize, or MPI has killed everyone. *)
Stopped == \/ aborted \/ mpc = "crashed"
           \/ mpc = "finished" /\ \A r \in Nodes : npc[r] = "stopped"

(* The master waits in MPI_Finalize for nodes that wait for a request.     *)
Stranded == mpc = "failed"
Terminating == (Stopped \/ Stranded) /\ UNCHANGED vars

Next == MasterNext \/ (\E r \in Nodes : NodeNext(r)) \/ Terminating

(* Every rank is a process of its own that goes on while it can; whether   *)
(* the file system is used, and when it is unmounted, is up to the users.  *)
Fairness == /\ WF_vars(WriteDone) /\ WF_vars(ReadDone) /\ WF_vars(SendTermination)
            /\ \A r \in Nodes : WF_vars(NodeNext(r))

Spec == Init /\ [][Next]_vars /\ Fairness
-----------------------------------------------------------------------------
(* Properties. *)

Pointers == [rank : 0 .. WorldSize, id : Nat]
Blobs == [write : Nat, block : Nat] \cup Pointers
Entries == [kind : {"Request"}, type : RequestTypes]
           \cup [kind : {"IORequest"}, inode : INodes, fileSize : Nat]
           \cup [kind : {"Scatterv"}, parts : Seq(Blobs)]
IORequests == [inode : INodes, fileSize : Nat]

TypeOK ==
    /\ mpc \in {"start", "failed", "crashed", "loop", "write", "read", "unmounted", "finished"}
    /\ call \in IORequests
    /\ comm \in Seq(Entries)
    /\ npc \in [Nodes -> {"request", "write_io", "read_io", "write", "read", "stopped"}]
    /\ nreq \in [Nodes -> IORequests]
    /\ pos \in [Nodes -> Nat]
    /\ gathered \in [DOMAIN gathered -> Seq(Blobs \cup {Garbage})]
    /\ DOMAIN gathered \subseteq Ranks
    /\ heap \in [Ranks -> Seq(Blobs)]
    /\ blockList \in [INodes -> Seq([rank : Ranks, data : Pointers])]
    /\ dataBlockPointers \in [Nodes -> [INodes -> Seq(Pointers)]]
    /\ requests \in Nat
    /\ written \in [INodes -> Nat]
    /\ aborted \in BOOLEAN

(***************************************************************************)
(* The call a node is about to make is the master's next call: same kind,  *)
(* and as many blocks scattered to the node as it worked out for itself    *)
(* from ioRequest.  No process tells another where it is, so one early     *)
(* return on one side only would shift every later call.  A write's and    *)
(* a read's Gatherv cannot mix either: the node has not contributed yet.   *)
(***************************************************************************)
KindFor(phase) == CASE phase = "request"                -> "Request"
                    [] phase \in {"write_io", "read_io"} -> "IORequest"
                    [] phase \in {"write", "read"}       -> "Scatterv"
                    [] phase = "stopped"                -> "none"

CollectivesMatch ==
    \A r \in Nodes : pos[r] < Len(comm) =>
        /\ NextCall(r).kind = KindFor(npc[r])
        /\ NextCall(r).kind = "Scatterv" =>
              /\ Len(NextCall(r).parts) = NodeBlocks(r)
              /\ r \notin DOMAIN gathered
              /\ mpc = npc[r]

(***************************************************************************)
(* A rank's share of the file, as the last write dealt it, lies in that    *)
(* rank's own memory.  Neither side stores the stripe: the master only     *)
(* keeps addresses, in the order in which Gatherv laid them side by side.  *)
(***************************************************************************)
StripeOwnership ==
    \A ino \in INodes : \A r \in Ranks :
        \A i \in 1 .. EffectiveBlocks(written[ino], r) :
            IsLocal(r, blockList[ino][Displ(written[ino], r) + i].data)

(***************************************************************************)
(* No process is handed the address of another process's block by a read   *)
(* for as many blocks as the file was last given.  DAGonFS_Read sends raw  *)
(* pointers around and follows them unchecked.                             *)
(***************************************************************************)
AskedForWritten(request) == NumberOfBlocks(request.fileSize) = written[request.inode]
PointerLocality ==
    \A r \in Nodes : (npc[r] = "read" /\ pos[r] < Len(comm) /\ AskedForWritten(nreq[r])) =>
        \A i \in DOMAIN NodeShare(r) : IsLocal(r, NodeShare(r)[i])

(***************************************************************************)
(* The node's own list and the master's agree: a block that the master     *)
(* will send a node to is one this node has recorded for the same inode.   *)
(***************************************************************************)
NodesKnowTheirBlocks ==
    \A ino \in INodes : \A b \in DOMAIN blockList[ino] :
        LET address == blockList[ino][b].data
        IN  address.rank # Master =>
               \E i \in DOMAIN dataBlockPointers[address.rank][ino] :
                   dataBlockPointers[address.rank][ino][i] = address

(* The blocks the master's list stands for. *)
StoredBlocks(ino) == [b \in 1 .. written[ino] |->
                        LET address == blockList[ino][b].data
                        IN  heap[address.rank][address.id]]

Contents == [ino \in INodes |-> StoredBlocks(ino)]

PendingCall == IF aborted THEN [op |-> "dead"]
               ELSE IF mpc \in {"write", "read"}
                    THEN [op |-> mpc, inode |-> call.inode, blocks |-> NumberOfBlocks(call.fileSize)]
                    ELSE [op |-> "none"]

LargestFile == CHOOSE s \in FileSizes : \A t \in FileSizes : t <= s

Store == INSTANCE BlockStore WITH
    MaxBlocks <- NumberOfBlocks(LargestFile),
    store     <- Contents,
    issued    <- requests,
    pending   <- PendingCall,
    answer    <- readBuff

(***************************************************************************)
(* The collectives together implement the store: a read that asks for what *)
(* was last written returns exactly that, whatever the other inodes and    *)
(* earlier, longer or shorter, contents of the file were.                  *)
(***************************************************************************)
ImplementsBlockStore == Store!Spec

(* A flush or an open that was begun ends, unless a bad pointer ends all.  *)
RequestsComplete == (mpc \in {"write", "read"}) ~> (mpc = "loop" \/ aborted)

(* After the unmount every node gets out of its loop. *)
NodesStop == (mpc = "unmounted") ~> (\A r \in Nodes : npc[r] = "stopped")
-----------------------------------------------------------------------------
(* The inductive invariant behind CollectivesMatch, StripeOwnership and    *)
(* PointerLocality.                                                        *)

(* Where a node that has taken part in the first k calls stands. *)
PhaseAfter(k) ==
    IF k = 0 THEN "request"
    ELSE CASE comm[k].kind = "Request" ->
                (CASE comm[k].type = "WRITE"     -> "write_io"
                   [] comm[k].type = "READ"      -> "read_io"
                   [] comm[k].type = "TERMINATE" -> "stopped"
                   [] OTHER                      -> "request")
           [] comm[k].kind = "IORequest" ->
                (IF comm[k - 1].type = "WRITE" THEN "write"
                 ELSE IF comm[k].fileSize > 0 THEN "read" ELSE "request")
           [] OTHER -> "request"

(* The master's calls, read one after the other, are what a node expects.  *)
WellFormedCalls ==
    /\ \A k \in 1 .. Len(comm) :
          /\ comm[k].kind = KindFor(PhaseAfter(k - 1))
          /\ comm[k].kind = "Scatterv" =>
                Len(comm[k].parts) = NumberOfBlocks(comm[k - 1].fileSize)
    /\ PhaseAfter(Len(comm)) = IF mpc = "finished" THEN "stopped" ELSE "request"

(* A node stands where the calls it took part in have led it. *)
NodesFollow ==
    \A r \in Nodes :
        /\ pos[r] <= Len(comm)
        /\ npc[r] = PhaseAfter(pos[r])
        /\ npc[r] \in {"write", "read"} =>
              nreq[r] = [inode |-> comm[pos[r]].inode, fileSize |-> comm[pos[r]].fileSize]

(* Only the last Scatterv can be outstanding, and only during its Gatherv, *)
(* to which exactly the master and the nodes past it have contributed.     *)
Gathering == mpc \in {"write", "read"}
OneGatherAtATime ==
    /\ ~Gathering => DOMAIN gathered = {}
    /\ Gathering =>
          /\ Len(comm) > 1
          /\ comm[Len(comm)].kind = "Scatterv"
          /\ comm[Len(comm) - 1].fileSize = call.fileSize
          /\ PhaseAfter(Len(comm) - 1) = mpc
          /\ DOMAIN gathered = {Master} \cup {r \in Nodes : pos[r] = Len(comm)}
    /\ \A r \in Nodes, k \in 1 .. Len(comm) :
          (comm[k].kind = "Scatterv" /\ ~(Gathering /\ k = Len(comm))) => k <= pos[r]

(* During a write, a rank contributes addresses of its own memory, one for *)
(* each block of its share.                                                *)
WriteContributions ==
    mpc = "write" =>
        \A r \in DOMAIN gathered :
            /\ Len(gathered[r]) = EffectiveBlocks(NumberOfBlocks(call.fileSize), r)
            /\ \A i \in 1 .. Len(gathered[r]) :
                  gathered[r][i] \in Pointers /\ IsLocal(r, gathered[r][i])

(* During a read, what was scattered is the list as it still is. *)
ReadContributions ==
    mpc = "read" => comm[Len(comm)].parts = PointersFor(call.inode, call.fileSize)

WrittenIsListed == \A ino \in INodes : written[ino] <= Len(blockList[ino])

IndInv == /\ TypeOK
          /\ WellFormedCalls
          /\ NodesFollow
          /\ OneGatherAtATime
          /\ WriteContributions
          /\ ReadContributions
          /\ WrittenIsListed
          /\ StripeOwnership

(* The inductive invariant behind NodesKnowTheirBlocks and                 *)
(* ImplementsBlockStore, on top of IndInv: what the contributions of a     *)
(* Gatherv stand for.                                                      *)

Recorded(r, ino, address) ==
    \E i \in DOMAIN dataBlockPointers[r][ino] : dataBlockPointers[r][ino][i] = address

(* A node is told the inode of the call. *)
SameInode == Gathering => comm[Len(comm) - 1].inode = call.inode

(* What a rank contributes to a write is the addresses of its share of the *)
(* buffer, which a node has recorded for the inode.                        *)
WriteStored ==
    mpc = "write" =>
        LET n == NumberOfBlocks(call.fileSize)
        IN  /\ comm[Len(comm)].parts = Buffer(requests, n)
            /\ \A r \in DOMAIN gathered : \A i \in 1 .. EffectiveBlocks(n, r) :
                  /\ heap[r][gathered[r][i].id] = [write |-> requests, block |-> Displ(n, r) + i]
                  /\ r # Master => Recorded(r, call.inode, gathered[r][i])

(* What it contributes to a read for what was last written is its share.   *)
ReadFetched ==
    LET n == NumberOfBlocks(call.fileSize)
    IN  mpc = "read" /\ n = written[call.inode] =>
            \A r \in DOMAIN gathered : \A i \in 1 .. EffectiveBlocks(n, r) :
                gathered[r][i] = StoredBlocks(call.inode)[Displ(n, r) + i]

(* NodesKnowTheirBlocks, and that the list names existing ranks only.      *)
ListIsRecorded ==
    \A ino \in INodes : \A b \in DOMAIN blockList[ino] :
        LET address == blockList[ino][b].data
        IN  /\ address.rank \in Ranks
            /\ address.rank # Master => Recorded(address.rank, ino, address)

DataInv == SameInode /\ WriteStored /\ ReadFetched /\ ListIsRecorded
FullInv == IndInv /\ DataInv
=============================================================================
