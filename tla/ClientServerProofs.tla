------------------------- MODULE ClientServerProofs -------------------------
(* The safety of the client-server data path, for every number of ranks,   *)
(* block size, set of inodes and file sizes, and number of requests.       *)
EXTENDS ClientServer, StripingProofs

USE DEF Master

LEMMA MasterIsRank == Master \in Ranks /\ Nodes \subseteq Ranks /\ Ranks \subseteq Nat
  BY StripingAssumption DEF Ranks, Nodes

LEMMA RequestBlocks ==
    ASSUME NEW size
    PROVE  NumberOfBlocksForRequest(size, size) = NumberOfBlocks(size)
  BY DEF NumberOfBlocksForRequest

(* The addresses malloc returns are new ones of the rank. *)
LEMMA NewAddressesType ==
    ASSUME TypeOK, NEW r \in Ranks, NEW k \in Nat
    PROVE  /\ NewAddresses(r, k) \in Seq(Pointers)
           /\ Len(NewAddresses(r, k)) = k
           /\ \A i \in 1 .. k : NewAddresses(r, k)[i] = [rank |-> r, id |-> Len(heap[r]) + i]
<1>1. Len(heap[r]) \in Nat
  BY LenProperties DEF TypeOK
<1>2. r \in 0 .. WorldSize
  BY StripingAssumption DEF Ranks
<1>3. NewAddresses(r, k) \in [1 .. k -> Pointers]
  BY <1>1, <1>2 DEF NewAddresses, Pointers
<1> QED BY <1>3, FunctionIsSeq DEF NewAddresses

LEMMA BufferType ==
    ASSUME NEW w \in Nat, NEW n \in Nat
    PROVE  Buffer(w, n) \in Seq(Blobs) /\ Len(Buffer(w, n)) = n
<1>1. Buffer(w, n) \in [1 .. n -> Blobs]
  BY DEF Buffer, Blobs
<1> QED BY <1>1, FunctionIsSeq

(* The heap of a rank only grows, and what was local stays so. *)
LEMMA HeapGrows ==
    ASSUME TypeOK, NEW r \in Ranks, NEW share \in Seq(Blobs),
           heap' = [heap EXCEPT ![r] = @ \o share]
    PROVE  /\ heap' \in [Ranks -> Seq(Blobs)]
           /\ Len(heap'[r]) = Len(heap[r]) + Len(share)
           /\ \A s \in Ranks, a \in Pointers : IsLocal(s, a) => IsLocal(s, a)'
<1>1. heap[r] \in Seq(Blobs) /\ heap[r] \o share \in Seq(Blobs)
      /\ Len(heap[r] \o share) = Len(heap[r]) + Len(share)
  BY ConcatProperties DEF TypeOK
<1>2. heap' \in [Ranks -> Seq(Blobs)]
  BY <1>1 DEF TypeOK
<1>3. heap'[r] = heap[r] \o share
  BY DEF TypeOK
<1>4. Len(heap[r]) \in Nat /\ Len(share) \in Nat
  BY <1>1, LenProperties
<1>5. ASSUME NEW s \in Ranks, NEW a \in Pointers, IsLocal(s, a)
      PROVE  IsLocal(s, a)'
  <2>1. CASE s = r
    <3>1. a.rank = r /\ a.id \in 1 .. Len(heap[r])
      BY <1>5, <2>1 DEF IsLocal
    <3>2. a.id \in 1 .. Len(heap'[r])
      BY <1>1, <1>3, <1>4, <3>1
    <3> QED BY <2>1, <3>1, <3>2 DEF IsLocal
  <2>2. CASE s # r
    <3>1. heap'[s] = heap[s]
      BY <2>2 DEF TypeOK
    <3> QED BY <1>5, <3>1 DEF IsLocal
  <2> QED BY <2>1, <2>2
<1> QED BY <1>1, <1>2, <1>3, <1>5

(* Fresh addresses are local once the blocks are stored. *)
LEMMA FreshAreLocal ==
    ASSUME TypeOK, NEW r \in Ranks, NEW share \in Seq(Blobs),
           heap' = [heap EXCEPT ![r] = @ \o share],
           NEW addresses, addresses = NewAddresses(r, Len(share))
    PROVE  /\ addresses \in Seq(Pointers) /\ addresses \in Seq(Blobs \cup {Garbage})
           /\ Len(addresses) = Len(share)
           /\ \A i \in 1 .. Len(addresses) :
                 addresses[i] \in Pointers /\ IsLocal(r, addresses[i])'
<1>1. Len(share) \in Nat /\ Len(heap[r]) \in Nat
  BY LenProperties DEF TypeOK
<1>2. /\ addresses \in Seq(Pointers)
      /\ Len(addresses) = Len(share)
      /\ \A i \in 1 .. Len(share) : addresses[i] = [rank |-> r, id |-> Len(heap[r]) + i]
  BY <1>1, NewAddressesType
<1>3. Len(heap'[r]) = Len(heap[r]) + Len(share)
  BY HeapGrows
<1>4. ASSUME NEW i \in 1 .. Len(addresses)
      PROVE  addresses[i] \in Pointers /\ IsLocal(r, addresses[i])'
  <2>1. addresses[i].rank = r /\ addresses[i].id = Len(heap[r]) + i
    <3>1. i \in 1 .. Len(share)
      BY <1>2
    <3>2. addresses[i] = [rank |-> r, id |-> Len(heap[r]) + i]
      BY <1>2, <3>1
    <3> QED BY <3>2
  <2>2. Len(heap[r]) + i \in 1 .. Len(heap'[r])
    BY <1>1, <1>2, <1>3
  <2> QED BY <1>2, <2>1, <2>2, ElementOfSeq DEF IsLocal
<1>5. Pointers \subseteq Blobs \cup {Garbage}
  BY DEF Blobs
<1>6. addresses \in Seq(Blobs \cup {Garbage})
  BY <1>2, <1>5, SeqOfSubset
<1> QED BY <1>2, <1>4, <1>6
-----------------------------------------------------------------------------
(* The calls of the master. *)

LEMMA EntryKinds ==
    ASSUME NEW e \in Entries
    PROVE  /\ e.kind \in {"Request", "IORequest", "Scatterv"}
           /\ e.kind = "Request" => e.type \in RequestTypes
           /\ e.kind = "IORequest" => e.inode \in INodes /\ e.fileSize \in Nat
           /\ e.kind = "Scatterv" => e.parts \in Seq(Blobs)
  BY DEF Entries

LEMMA KindForPhase ==
    /\ KindFor("request") = "Request"
    /\ KindFor("write_io") = "IORequest" /\ KindFor("read_io") = "IORequest"
    /\ KindFor("write") = "Scatterv" /\ KindFor("read") = "Scatterv"
    /\ KindFor("stopped") = "none"
  BY DEF KindFor

(* Where a node can stand. *)
LEMMA PhaseType ==
    ASSUME comm \in Seq(Entries), NEW k \in 0 .. Len(comm)
    PROVE  PhaseAfter(k) \in {"request", "write_io", "read_io", "write", "read", "stopped"}
<1>1. CASE k = 0
  BY <1>1 DEF PhaseAfter
<1>2. CASE k # 0
  <2>1. k \in 1 .. Len(comm)
    BY <1>2, LenProperties
  <2>2. comm[k] \in Entries
    BY <2>1, ElementOfSeq
  <2> QED BY <1>2, <2>2, EntryKinds DEF PhaseAfter, RequestTypes
<1> QED BY <1>1, <1>2

(* More calls at the end change nothing about the ones before. *)
LEMMA CallsGrow ==
    ASSUME TypeOK, WellFormedCalls, NEW new \in Seq(Entries), comm' = comm \o new
    PROVE  /\ comm' \in Seq(Entries)
           /\ Len(comm') = Len(comm) + Len(new)
           /\ Len(comm) \in Nat /\ Len(new) \in Nat
           /\ \A k \in 1 .. Len(comm) : comm'[k] = comm[k]
           /\ \A k \in 1 .. Len(new) : comm'[Len(comm) + k] = new[k]
           /\ \A k \in 0 .. Len(comm) : PhaseAfter(k)' = PhaseAfter(k)
<1>1. comm \in Seq(Entries)
  BY DEF TypeOK
<1>2. /\ comm' \in Seq(Entries)
      /\ Len(comm') = Len(comm) + Len(new)
      /\ \A k \in 1 .. Len(comm) + Len(new) :
            comm'[k] = IF k <= Len(comm) THEN comm[k] ELSE new[k - Len(comm)]
  BY <1>1, ConcatProperties
<1>3. Len(comm) \in Nat /\ Len(new) \in Nat
  BY <1>1, LenProperties
<1>4. \A k \in 1 .. Len(comm) : comm'[k] = comm[k]
  BY <1>2, <1>3
<1>5. \A k \in 1 .. Len(new) : comm'[Len(comm) + k] = new[k]
  BY <1>2, <1>3
<1>6. ASSUME NEW k \in 0 .. Len(comm)
      PROVE  PhaseAfter(k)' = PhaseAfter(k)
  <2>1. CASE k = 0
    BY <2>1 DEF PhaseAfter
  <2>2. CASE k = 1
    <3>1. comm[1].kind = "Request"
      <4>1. comm[1].kind = KindFor(PhaseAfter(0))
        BY <1>3, <2>2 DEF WellFormedCalls
      <4> QED BY <4>1 DEF PhaseAfter, KindFor
    <3>2. comm'[1] = comm[1]
      BY <1>3, <1>4, <2>2
    <3> QED BY <2>2, <3>1, <3>2 DEF PhaseAfter
  <2>3. CASE k > 1
    <3>1. comm'[k] = comm[k] /\ comm'[k - 1] = comm[k - 1]
      BY <1>3, <1>4, <2>3
    <3> QED BY <2>3, <3>1 DEF PhaseAfter
  <2> QED BY <1>3, <2>1, <2>2, <2>3
<1> QED BY <1>2, <1>3, <1>4, <1>5, <1>6

(* The old calls stay well-formed. *)
LEMMA OldCallsWellFormed ==
    ASSUME TypeOK, WellFormedCalls, NEW new \in Seq(Entries), comm' = comm \o new,
           NEW k \in 1 .. Len(comm)
    PROVE  /\ comm'[k].kind = KindFor(PhaseAfter(k - 1)')
           /\ comm'[k].kind = "Scatterv" =>
                 Len(comm'[k].parts) = NumberOfBlocks(comm'[k - 1].fileSize)
<1>1. /\ comm'[k] = comm[k]
      /\ PhaseAfter(k - 1)' = PhaseAfter(k - 1)
      /\ k - 1 # 0 => comm'[k - 1] = comm[k - 1]
  <2>1. k - 1 \in 0 .. Len(comm) /\ (k - 1 # 0 => k - 1 \in 1 .. Len(comm))
    BY CallsGrow
  <2> QED BY <2>1, CallsGrow
<1>2. comm[k].kind = KindFor(PhaseAfter(k - 1))
  BY DEF WellFormedCalls
<1>3. k = 1 => comm[k].kind = "Request"
  BY <1>2 DEF PhaseAfter, KindFor
<1> QED BY <1>1, <1>2, <1>3 DEF WellFormedCalls

(* Nodes that do nothing keep following. *)
LEMMA NodesFollowStill ==
    ASSUME TypeOK, WellFormedCalls, NodesFollow,
           NEW new \in Seq(Entries), comm' = comm \o new, UNCHANGED nodeVars
    PROVE  NodesFollow'
<1> SUFFICES ASSUME NEW r \in Nodes
             PROVE  /\ pos[r] <= Len(comm')
                    /\ npc[r] = PhaseAfter(pos[r])'
                    /\ npc[r] \in {"write", "read"} =>
                          nreq[r] = [inode |-> comm'[pos[r]].inode,
                                     fileSize |-> comm'[pos[r]].fileSize]
  BY DEF NodesFollow, nodeVars
<1>1. pos[r] \in 0 .. Len(comm) /\ pos[r] <= Len(comm')
  BY CallsGrow DEF TypeOK, NodesFollow
<1>2. PhaseAfter(pos[r])' = PhaseAfter(pos[r])
  <2>1. PICK k \in 0 .. Len(comm) : k = pos[r]
    BY <1>1
  <2>2. pos'[r] = k
    BY <2>1 DEF nodeVars
  <2>3. PhaseAfter(k)' = PhaseAfter(k)
    BY CallsGrow
  <2> QED BY <2>1, <2>2, <2>3
<1>3. npc[r] \in {"write", "read"} => pos[r] # 0
  BY DEF NodesFollow, PhaseAfter
<1>4. npc[r] \in {"write", "read"} => comm'[pos[r]] = comm[pos[r]]
  BY <1>1, <1>3, CallsGrow
<1> QED BY <1>1, <1>2, <1>4 DEF NodesFollow
-----------------------------------------------------------------------------
(* The invariant holds at the start. *)
THEOREM InitIndInv == Init => IndInv
<1> SUFFICES ASSUME Init PROVE IndInv
  OBVIOUS
<1>1. call \in IORequests /\ comm = <<>> /\ Len(comm) = 0
  <2>1. PICK ino \in INodes : TRUE
    BY ClientServerAssumption
  <2>2. (CHOOSE i \in INodes : TRUE) \in INodes
    BY <2>1
  <2> QED BY <2>2 DEF Init, IORequests
<1>2. TypeOK
  <2>1. <<>> \in Seq(Entries) /\ <<>> \in Seq(Blobs) /\ <<>> \in Seq(Pointers)
        /\ <<>> \in Seq([rank : Ranks, data : Pointers])
    BY EmptySeq
  <2>2. /\ gathered \in [DOMAIN gathered -> Seq(Blobs \cup {Garbage})]
        /\ DOMAIN gathered = {}
    BY DEF Init
  <2> QED BY <1>1, <2>1, <2>2 DEF Init, TypeOK
<1>3. PhaseAfter(0) = "request"
  BY DEF PhaseAfter
<1>4. WellFormedCalls /\ NodesFollow /\ OneGatherAtATime
  BY <1>1, <1>3 DEF Init, WellFormedCalls, NodesFollow, OneGatherAtATime, Gathering
<1>5. WriteContributions /\ ReadContributions
  BY DEF Init, WriteContributions, ReadContributions
<1>6. WrittenIsListed
  BY <1>1 DEF Init, WrittenIsListed
<1>7. ASSUME NEW ino \in INodes, NEW r \in Ranks
      PROVE  1 .. EffectiveBlocks(written[ino], r) = {}
  <2>1. written[ino] = 0
    BY DEF Init
  <2>2. EffectiveBlocks(0, r) \in Nat
    BY ShareType, MasterIsRank
  <2>3. EffectiveBlocks(0, r) + Displ(0, r) <= 0 /\ Displ(0, r) \in Nat
    BY ShareInFile, ShareType, MasterIsRank
  <2> QED BY <2>1, <2>2, <2>3
<1>8. StripeOwnership
  BY <1>7 DEF StripeOwnership
<1> QED BY <1>2, <1>4, <1>5, <1>6, <1>8 DEF IndInv

(* A step that only takes the master from one quiet place to another, or   *)
(* that kills the ranks.                                                   *)
LEMMA QuietStep ==
    ASSUME IndInv,
           UNCHANGED <<call, blockList, readBuff, requests, written>>,
           UNCHANGED <<comm, nodeVars, gathered, heap>>,
           aborted' \in BOOLEAN,
           \/ mpc' = mpc
           \/ {mpc, mpc'} \subseteq {"start", "failed", "crashed", "loop", "unmounted"}
    PROVE  IndInv'
<1>1. mpc' = mpc \/ ~(Gathering \/ Gathering' \/ mpc = "finished" \/ mpc' = "finished")
  BY DEF Gathering
<1>2. TypeOK'
  BY DEF IndInv, TypeOK, nodeVars
<1>3. WellFormedCalls'
  BY <1>1 DEF IndInv, WellFormedCalls, PhaseAfter
<1>4. NodesFollow'
  BY DEF IndInv, NodesFollow, nodeVars, PhaseAfter
<1>5. OneGatherAtATime'
  <2>1. CASE mpc' = mpc
    BY <2>1 DEF IndInv, OneGatherAtATime, Gathering, nodeVars, PhaseAfter
  <2>2. CASE mpc' # mpc
    BY <1>1, <2>2 DEF IndInv, OneGatherAtATime, nodeVars
  <2> QED BY <2>1, <2>2
<1>6. WriteContributions' /\ ReadContributions'
  BY <1>1 DEF IndInv, WriteContributions, ReadContributions, Gathering, IsLocal,
              PointersFor, PointerOf
<1>7. WrittenIsListed' /\ StripeOwnership'
  BY DEF IndInv, WrittenIsListed, StripeOwnership, IsLocal
<1> QED BY <1>2, <1>3, <1>4, <1>5, <1>6, <1>7 DEF IndInv

THEOREM QuietSteps ==
    ASSUME IndInv, MountFails \/ StartFails \/ Unmount \/ ReadFaults
                   \/ (\E r \in Nodes : NodeReadFaults(r)) \/ UNCHANGED vars
    PROVE  IndInv'
<1> aborted \in BOOLEAN
  BY DEF IndInv, TypeOK
<1>1. CASE MountFails
  BY <1>1, QuietStep DEF MountFails
<1>2. CASE StartFails
  BY <1>2, QuietStep DEF StartFails
<1>3. CASE Unmount
  BY <1>3, QuietStep DEF Unmount
<1>4. CASE ReadFaults
  BY <1>4, QuietStep DEF ReadFaults, masterVars
<1>5. CASE \E r \in Nodes : NodeReadFaults(r)
  BY <1>5, QuietStep DEF NodeReadFaults, masterVars
<1>6. CASE UNCHANGED vars
  BY <1>6, QuietStep DEF vars, masterVars
<1> QED BY <1>1, <1>2, <1>3, <1>4, <1>5, <1>6
-----------------------------------------------------------------------------
(* The master's calls.  A series that a node can follow from "request" and *)
(* back to it keeps the calls well-formed.                                 *)

(* One Request: Mount and SendTermination. *)
LEMMA RequestCall ==
    ASSUME IndInv, NEW type \in {"CHANGE_DIR", "TERMINATE"},
           ~Gathering, mpc # "finished",
           mpc' = (IF type = "TERMINATE" THEN "finished" ELSE "loop"),
           comm' = Append(comm, Request(type)),
           UNCHANGED <<call, blockList, readBuff, requests, written>>,
           UNCHANGED <<nodeVars, gathered, heap, aborted>>
    PROVE  IndInv'
<1> DEFINE new == <<Request(type)>>
<1>1. TypeOK /\ WellFormedCalls /\ NodesFollow /\ OneGatherAtATime
  BY DEF IndInv
<1>2. Request(type) \in Entries
  BY DEF Request, Entries, RequestTypes
<1>3. new \in Seq(Entries) /\ Len(new) = 1 /\ new[1] = Request(type)
  BY <1>2
<1>4. comm' = comm \o new
  BY <1>1, <1>2, AppendIsConcat DEF TypeOK
<1> HIDE DEF new
<1>5. PICK n \in Nat : n = Len(comm)
  BY <1>1, LenProperties DEF TypeOK
<1>6. /\ comm' \in Seq(Entries)
      /\ Len(comm') = n + 1
      /\ comm'[n + 1] = Request(type)
      /\ \A k \in 1 .. n : comm'[k] = comm[k]
      /\ \A k \in 0 .. n : PhaseAfter(k)' = PhaseAfter(k)
  <2>1. 1 \in 1 .. Len(new)
    BY <1>3
  <2>2. comm'[Len(comm) + 1] = new[1]
    BY <1>1, <1>3, <1>4, <2>1, CallsGrow
  <2> QED BY <1>1, <1>3, <1>4, <1>5, <2>2, CallsGrow
<1>7. TypeOK'
  BY <1>1, <1>6 DEF TypeOK, nodeVars
<1>8. PhaseAfter(n)' = "request"
  BY <1>1, <1>5, <1>6 DEF WellFormedCalls
<1>9. PhaseAfter(n + 1)' = IF type = "TERMINATE" THEN "stopped" ELSE "request"
  BY <1>6 DEF PhaseAfter, Request
<1>10. WellFormedCalls'
  <2>1. ASSUME NEW k \in 1 .. n + 1
        PROVE  /\ comm'[k].kind = KindFor(PhaseAfter(k - 1)')
               /\ comm'[k].kind = "Scatterv" =>
                     Len(comm'[k].parts) = NumberOfBlocks(comm'[k - 1].fileSize)
    <3>1. CASE k \in 1 .. n
      BY <1>1, <1>3, <1>4, <1>5, <3>1, OldCallsWellFormed
    <3>2. CASE k = n + 1
      <4>1. PhaseAfter(k - 1)' = "request"
        BY <1>8, <3>2
      <4>2. comm'[k].kind = "Request"
        BY <1>6, <3>2 DEF Request
      <4> QED BY <4>1, <4>2, KindForPhase
    <3>3. k \in 1 .. n \/ k = n + 1
      OBVIOUS
    <3> QED BY <3>1, <3>2, <3>3, Zenon
  <2>2. (PhaseAfter(Len(comm)))' = IF mpc' = "finished" THEN "stopped" ELSE "request"
    BY <1>6, <1>9
  <2> QED BY <1>6, <2>1, <2>2 DEF WellFormedCalls
<1>11. NodesFollow'
  BY <1>1, <1>3, <1>4, NodesFollowStill
<1>12. ~Gathering'
  BY DEF Gathering
<1>13. OneGatherAtATime'
  BY <1>1, <1>5, <1>6, <1>12 DEF OneGatherAtATime, nodeVars, Request
<1>14. WriteContributions' /\ ReadContributions'
  BY <1>12 DEF WriteContributions, ReadContributions, Gathering
<1>15. WrittenIsListed' /\ StripeOwnership'
  BY DEF IndInv, WrittenIsListed, StripeOwnership, IsLocal
<1> QED BY <1>7, <1>10, <1>11, <1>13, <1>14, <1>15 DEF IndInv

(* Request, IORequest and Scatterv: WriteCall and ReadCall. *)
LEMMA TransferCall ==
    ASSUME IndInv, mpc = "loop",
           NEW op \in {"WRITE", "READ"}, NEW ino \in INodes, NEW size \in Nat,
           NEW parts \in Seq(Blobs), Len(parts) = NumberOfBlocks(size),
           op = "READ" => size > 0,
           mpc' = (IF op = "WRITE" THEN "write" ELSE "read"),
           call' = [inode |-> ino, fileSize |-> size],
           comm' = comm \o <<Request(op), IORequest(ino, size), Scatterv(parts)>>,
           DOMAIN gathered' = DOMAIN gathered \cup {Master},
           UNCHANGED nodeVars
    PROVE  /\ comm' \in Seq(Entries)
           /\ WellFormedCalls' /\ NodesFollow' /\ OneGatherAtATime'
           /\ comm'[Len(comm')].parts = parts
<1> DEFINE new == <<Request(op), IORequest(ino, size), Scatterv(parts)>>
<1>1. TypeOK /\ WellFormedCalls /\ NodesFollow /\ OneGatherAtATime
  BY DEF IndInv
<1>2. Request(op) \in Entries /\ IORequest(ino, size) \in Entries /\ Scatterv(parts) \in Entries
  BY DEF Request, IORequest, Scatterv, Entries, RequestTypes
<1>3. /\ new \in Seq(Entries) /\ Len(new) = 3
      /\ new[1] = Request(op) /\ new[2] = IORequest(ino, size) /\ new[3] = Scatterv(parts)
  BY <1>2
<1>4. comm' = comm \o new
  OBVIOUS
<1> HIDE DEF new
<1>5. PICK n \in Nat : n = Len(comm)
  BY <1>1, LenProperties DEF TypeOK
<1>6. /\ comm' \in Seq(Entries)
      /\ Len(comm') = n + 3
      /\ comm'[n + 1] = Request(op)
      /\ comm'[n + 2] = IORequest(ino, size)
      /\ comm'[n + 3] = Scatterv(parts)
      /\ \A k \in 1 .. n : comm'[k] = comm[k]
      /\ \A k \in 0 .. n : PhaseAfter(k)' = PhaseAfter(k)
  <2>1. 1 \in 1 .. Len(new) /\ 2 \in 1 .. Len(new) /\ 3 \in 1 .. Len(new)
    BY <1>3
  <2>2. /\ comm'[Len(comm) + 1] = new[1]
        /\ comm'[Len(comm) + 2] = new[2]
        /\ comm'[Len(comm) + 3] = new[3]
    BY <1>1, <1>3, <1>4, <2>1, CallsGrow
  <2> QED BY <1>1, <1>3, <1>4, <1>5, <2>2, CallsGrow
<1>7. /\ comm'[n + 1].kind = "Request" /\ comm'[n + 1].type = op
       /\ comm'[n + 2].kind = "IORequest" /\ comm'[n + 2].fileSize = size
       /\ comm'[n + 3].kind = "Scatterv" /\ comm'[n + 3].parts = parts
  <2>1. comm'[n + 1] = Request(op)
    BY <1>6
  <2>2. comm'[n + 2] = IORequest(ino, size)
    BY <1>6
  <2>3. comm'[n + 3] = Scatterv(parts)
    BY <1>6
  <2>4. Request(op).kind = "Request" /\ Request(op).type = op
    BY DEF Request
  <2>5. IORequest(ino, size).kind = "IORequest" /\ IORequest(ino, size).fileSize = size
    BY DEF IORequest
  <2>6. Scatterv(parts).kind = "Scatterv" /\ Scatterv(parts).parts = parts
    BY DEF Scatterv
  <2> QED BY <2>1, <2>2, <2>3, <2>4, <2>5, <2>6
<1>8. PhaseAfter(n)' = "request"
  BY <1>1, <1>5, <1>6 DEF WellFormedCalls
<1>9. PhaseAfter(n + 1)' = IF op = "WRITE" THEN "write_io" ELSE "read_io"
  <2>1. n + 1 # 0
    OBVIOUS
  <2> QED BY <1>7, <2>1 DEF PhaseAfter
<1>10. PhaseAfter(n + 2)' = mpc'
  <2>1. PICK m \in Nat : m = n + 2
    OBVIOUS
  <2>2. m # 0 /\ m - 1 = n + 1
    BY <2>1
  <2>3. comm'[m].kind = "IORequest" /\ comm'[m].fileSize = size /\ comm'[m - 1].type = op
    BY <1>7, <2>1, <2>2, Zenon
  <2>4. PhaseAfter(m)' = IF comm'[m - 1].type = "WRITE" THEN "write"
                         ELSE IF comm'[m].fileSize > 0 THEN "read" ELSE "request"
    BY <2>2, <2>3 DEF PhaseAfter
  <2>5. PhaseAfter(m)' = mpc'
    BY <2>3, <2>4
  <2> QED BY <2>1, <2>5
<1>11. PhaseAfter(n + 3)' = "request"
  <2>1. n + 3 # 0
    OBVIOUS
  <2>2. comm'[n + 3].kind = "Scatterv"
    BY <1>7, Zenon
  <2> QED BY <2>1, <2>2 DEF PhaseAfter
<1>12. WellFormedCalls'
  <2>1. ASSUME NEW k \in 1 .. n + 3
        PROVE  /\ comm'[k].kind = KindFor(PhaseAfter(k - 1)')
               /\ comm'[k].kind = "Scatterv" =>
                     Len(comm'[k].parts) = NumberOfBlocks(comm'[k - 1].fileSize)
    <3>1. CASE k \in 1 .. n
      BY <1>1, <1>3, <1>4, <1>5, <3>1, OldCallsWellFormed
    <3>2. CASE k = n + 1
      <4>1. PhaseAfter(k - 1)' = "request"
        BY <1>8, <3>2
      <4>2. comm'[k].kind = "Request"
        BY <1>7, <3>2
      <4> QED BY <4>1, <4>2, KindForPhase
    <3>3. CASE k = n + 2
      <4>1. PhaseAfter(k - 1)' = IF op = "WRITE" THEN "write_io" ELSE "read_io"
        <5>1. k - 1 = n + 1
          BY <3>3
        <5> QED BY <1>9, <5>1
      <4>2. comm'[k].kind = "IORequest"
        BY <1>7, <3>3
      <4> QED BY <4>1, <4>2, KindForPhase
    <3>4. CASE k = n + 3
      <4>1. k - 1 = n + 2
        BY <3>4
      <4>2. PhaseAfter(k - 1)' = mpc' /\ mpc' \in {"write", "read"}
        BY <1>10, <4>1
      <4>3. comm'[k].kind = "Scatterv" /\ comm'[k].parts = parts
        BY <1>7, <3>4
      <4>4. comm'[k - 1].fileSize = size
        BY <1>7, <4>1
      <4> QED BY <4>2, <4>3, <4>4, KindForPhase
    <3>5. k \in 1 .. n \/ k = n + 1 \/ k = n + 2 \/ k = n + 3
      OBVIOUS
    <3> QED BY <3>1, <3>2, <3>3, <3>4, <3>5, Zenon
  <2>2. (PhaseAfter(Len(comm)))' = IF mpc' = "finished" THEN "stopped" ELSE "request"
    BY <1>6, <1>11
  <2> QED BY <1>6, <2>1, <2>2 DEF WellFormedCalls
<1>13. NodesFollow'
  BY <1>1, <1>3, <1>4, NodesFollowStill
<1>14. ~Gathering /\ Gathering'
  BY DEF Gathering
<1>15. DOMAIN gathered' = {Master} /\ \A r \in Nodes : pos'[r] # Len(comm')
  BY <1>1, <1>5, <1>6, <1>14 DEF OneGatherAtATime, NodesFollow, nodeVars, TypeOK
<1>16. OneGatherAtATime'
  <2>1. /\ Len(comm') > 1
        /\ comm'[Len(comm')].kind = "Scatterv"
        /\ comm'[Len(comm') - 1].fileSize = call'.fileSize
    <3>1. Len(comm') = n + 3 /\ Len(comm') - 1 = n + 2 /\ n + 3 > 1
      BY <1>6
    <3>2. comm'[n + 3].kind = "Scatterv" /\ comm'[n + 2].fileSize = size
      BY <1>7, Zenon
    <3>3. call'.fileSize = size
      OBVIOUS
    <3> QED BY <3>1, <3>2, <3>3, Zenon
  <2>2. (PhaseAfter(Len(comm) - 1))' = mpc'
    <3>1. Len(comm') - 1 = n + 2
      BY <1>6
    <3> QED BY <1>10, <3>1
  <2>3. ASSUME NEW r \in Nodes, NEW k \in 1 .. Len(comm'), comm'[k].kind = "Scatterv",
               k # Len(comm')
        PROVE  k <= pos'[r]
    <3>1. k # n + 1 /\ k # n + 2
      BY <1>7, <2>3
    <3>2. k \in 1 .. n
      BY <1>6, <2>3, <3>1
    <3> QED BY <1>1, <1>5, <1>6, <1>14, <2>3, <3>2 DEF OneGatherAtATime, nodeVars
  <2> QED BY <1>14, <1>15, <2>1, <2>2, <2>3 DEF OneGatherAtATime
<1> QED BY <1>6, <1>12, <1>13, <1>16, <1>7

(* Request and IORequest, after which a node is back at "request". *)
LEMMA EmptyRead ==
    ASSUME IndInv, NEW ino \in INodes, NEW size \in FileSizes, ReadCallEmpty(ino, size)
    PROVE  IndInv'
<1> DEFINE new == <<Request("READ"), IORequest(ino, size)>>
<1>1. TypeOK /\ WellFormedCalls /\ NodesFollow /\ OneGatherAtATime
  BY DEF IndInv
<1>2. Request("READ") \in Entries /\ IORequest(ino, size) \in Entries /\ size \in Nat
  BY ClientServerAssumption DEF Request, IORequest, Entries, RequestTypes
<1>3. /\ new \in Seq(Entries) /\ Len(new) = 2
      /\ new[1] = Request("READ") /\ new[2] = IORequest(ino, size)
  BY <1>2
<1>4. /\ comm' = comm \o new
      /\ mpc = "loop" /\ mpc' = "loop" /\ size = 0
      /\ requests' = requests + 1
      /\ call' = [inode |-> ino, fileSize |-> size]
      /\ UNCHANGED <<blockList, written, nodeVars, gathered, heap, aborted>>
  BY DEF ReadCallEmpty
<1> HIDE DEF new
<1>5. PICK n \in Nat : n = Len(comm)
  BY <1>1, LenProperties DEF TypeOK
<1>6. /\ comm' \in Seq(Entries)
      /\ Len(comm') = n + 2
      /\ comm'[n + 1] = Request("READ")
      /\ comm'[n + 2] = IORequest(ino, size)
      /\ \A k \in 1 .. n : comm'[k] = comm[k]
      /\ \A k \in 0 .. n : PhaseAfter(k)' = PhaseAfter(k)
  <2>1. 1 \in 1 .. Len(new) /\ 2 \in 1 .. Len(new)
    BY <1>3
  <2>2. comm'[Len(comm) + 1] = new[1] /\ comm'[Len(comm) + 2] = new[2]
    BY <1>1, <1>3, <1>4, <2>1, CallsGrow
  <2> QED BY <1>1, <1>3, <1>4, <1>5, <2>2, CallsGrow
<1>7. /\ comm'[n + 1].kind = "Request" /\ comm'[n + 1].type = "READ"
      /\ comm'[n + 2].kind = "IORequest" /\ comm'[n + 2].fileSize = size
  <2>1. comm'[n + 1] = Request("READ")
    BY <1>6
  <2>2. comm'[n + 2] = IORequest(ino, size)
    BY <1>6
  <2>3. Request("READ").kind = "Request" /\ Request("READ").type = "READ"
    BY DEF Request
  <2>4. IORequest(ino, size).kind = "IORequest" /\ IORequest(ino, size).fileSize = size
    BY DEF IORequest
  <2> QED BY <2>1, <2>2, <2>3, <2>4
<1>8. PhaseAfter(n)' = "request"
  BY <1>1, <1>4, <1>5, <1>6 DEF WellFormedCalls
<1>9. PhaseAfter(n + 1)' = "read_io"
  <2>1. n + 1 # 0
    OBVIOUS
  <2> QED BY <1>7, <2>1 DEF PhaseAfter
<1>10. PhaseAfter(n + 2)' = "request"
  <2>1. PICK m \in Nat : m = n + 2
    OBVIOUS
  <2>2. m # 0 /\ m - 1 = n + 1
    BY <2>1
  <2>3. comm'[m].kind = "IORequest" /\ comm'[m].fileSize = size /\ comm'[m - 1].type = "READ"
    BY <1>7, <2>1, <2>2, Zenon
  <2>4. PhaseAfter(m)' = IF comm'[m - 1].type = "WRITE" THEN "write"
                         ELSE IF comm'[m].fileSize > 0 THEN "read" ELSE "request"
    BY <2>2, <2>3 DEF PhaseAfter
  <2>5. PhaseAfter(m)' = "request"
    BY <1>4, <2>3, <2>4
  <2> QED BY <2>1, <2>5
<1>11. WellFormedCalls'
  <2>1. ASSUME NEW k \in 1 .. n + 2
        PROVE  /\ comm'[k].kind = KindFor(PhaseAfter(k - 1)')
               /\ comm'[k].kind = "Scatterv" =>
                     Len(comm'[k].parts) = NumberOfBlocks(comm'[k - 1].fileSize)
    <3>1. CASE k \in 1 .. n
      BY <1>1, <1>3, <1>4, <1>5, <3>1, OldCallsWellFormed
    <3>2. CASE k = n + 1
      <4>1. PhaseAfter(k - 1)' = "request"
        BY <1>8, <3>2
      <4> QED BY <1>7, <3>2, <4>1, KindForPhase
    <3>3. CASE k = n + 2
      <4>1. k - 1 = n + 1
        BY <3>3
      <4>2. PhaseAfter(k - 1)' = "read_io"
        BY <1>9, <4>1
      <4> QED BY <1>7, <3>3, <4>2, KindForPhase
    <3>4. k \in 1 .. n \/ k = n + 1 \/ k = n + 2
      OBVIOUS
    <3> QED BY <3>1, <3>2, <3>3, <3>4, Zenon
  <2>2. (PhaseAfter(Len(comm)))' = IF mpc' = "finished" THEN "stopped" ELSE "request"
    BY <1>4, <1>6, <1>10
  <2> QED BY <1>6, <2>1, <2>2 DEF WellFormedCalls
<1>12. NodesFollow'
  BY <1>1, <1>3, <1>4, NodesFollowStill
<1>13. ~Gathering /\ ~Gathering'
  BY <1>4 DEF Gathering
<1>14. OneGatherAtATime'
  <2>1. ASSUME NEW r \in Nodes, NEW k \in 1 .. Len(comm'), comm'[k].kind = "Scatterv"
        PROVE  k <= pos'[r]
    <3>1. k # n + 1 /\ k # n + 2
      BY <1>7, <2>1
    <3>2. k \in 1 .. n
      BY <1>6, <2>1, <3>1
    <3> QED BY <1>1, <1>4, <1>5, <1>6, <1>13, <2>1, <3>2 DEF OneGatherAtATime, nodeVars
  <2> QED BY <1>1, <1>4, <1>13, <2>1 DEF OneGatherAtATime
<1>15. WriteContributions' /\ ReadContributions'
  BY <1>13 DEF WriteContributions, ReadContributions, Gathering
<1>16. WrittenIsListed' /\ StripeOwnership'
  BY <1>4 DEF IndInv, WrittenIsListed, StripeOwnership, IsLocal
<1>17. TypeOK'
  <2>1. call' \in IORequests
    BY <1>2, <1>4 DEF IORequests
  <2>2. requests' \in Nat
    BY <1>1, <1>4 DEF TypeOK
  <2> QED BY <1>1, <1>4, <1>6, <2>1, <2>2 DEF TypeOK, nodeVars
<1> QED BY <1>11, <1>12, <1>14, <1>15, <1>16, <1>17 DEF IndInv
-----------------------------------------------------------------------------
(* StripeOwnership when memory only grows and the list stays. *)
LEMMA OwnershipStill ==
    ASSUME IndInv, NEW r \in Ranks, NEW share \in Seq(Blobs),
           heap' = [heap EXCEPT ![r] = @ \o share],
           UNCHANGED <<blockList, written>>
    PROVE  StripeOwnership'
<1> SUFFICES ASSUME NEW ino \in INodes, NEW s \in Ranks,
                    NEW i \in 1 .. EffectiveBlocks(written[ino], s)
             PROVE  IsLocal(s, blockList[ino][Displ(written[ino], s) + i].data)'
  BY DEF StripeOwnership
<1> DEFINE b == Displ(written[ino], s) + i
           a == blockList[ino][b].data
<1>1. TypeOK /\ WrittenIsListed /\ StripeOwnership
  BY DEF IndInv
<1>2. written[ino] \in Nat /\ written[ino] <= Len(blockList[ino])
  BY <1>1 DEF TypeOK, WrittenIsListed
<1>3. blockList[ino] \in Seq([rank : Ranks, data : Pointers])
  BY <1>1 DEF TypeOK
<1>4. b \in 1 .. Len(blockList[ino])
  <2>1. /\ Displ(written[ino], s) \in Nat
        /\ EffectiveBlocks(written[ino], s) \in Nat
        /\ Displ(written[ino], s) + EffectiveBlocks(written[ino], s) <= written[ino]
    BY <1>2, ShareType, ShareInFile, MasterIsRank
  <2>2. Len(blockList[ino]) \in Nat
    BY <1>3, LenProperties
  <2> QED BY <1>2, <2>1, <2>2
<1>5. a \in Pointers
  <2>1. blockList[ino][b] \in [rank : Ranks, data : Pointers]
    BY <1>3, <1>4, ElementOfSeq
  <2> QED BY <2>1
<1>6. IsLocal(s, a)
  BY <1>1 DEF StripeOwnership
<1> HIDE DEF a, b
<1>7. IsLocal(s, a)'
  <2>1. PICK p \in Pointers : p = a
    BY <1>5
  <2>2. a' = a
    BY DEF a, b
  <2>3. IsLocal(s, p)'
    BY <1>1, <1>6, <2>1, HeapGrows
  <2> QED BY <2>1, <2>2, <2>3 DEF IsLocal
<1> QED BY <1>7 DEF a, b

(* The flush: memory grows by the master's share, whose addresses are its  *)
(* contribution.                                                           *)
THEOREM WriteCallStep ==
    ASSUME IndInv, NEW ino \in INodes, NEW size \in FileSizes, WriteCall(ino, size)
    PROVE  IndInv'
<1> DEFINE n == NumberOfBlocks(size)
<1>1. TypeOK /\ OneGatherAtATime
  BY DEF IndInv
<1>2. size \in Nat /\ n \in Nat /\ requests + 1 \in Nat
  BY <1>1, ClientServerAssumption, NumberOfBlocksType DEF TypeOK
<1>3. PICK buffer : buffer = Buffer(requests + 1, n)
  OBVIOUS
<1>4. buffer \in Seq(Blobs) /\ Len(buffer) = n
  BY <1>2, <1>3, BufferType
<1>5. PICK share : share = ScatterPart(buffer, Master)
  OBVIOUS
<1>6. share \in Seq(Blobs) /\ Len(share) = EffectiveBlocks(n, Master)
  BY <1>4, <1>5, ScatterPartType, MasterIsRank
<1>7. PICK addresses : addresses = NewAddresses(Master, Len(share))
  OBVIOUS
<1>8. /\ mpc = "loop" /\ mpc' = "write"
      /\ requests' = requests + 1
      /\ call' = [inode |-> ino, fileSize |-> size]
      /\ comm' = comm \o <<Request("WRITE"), IORequest(ino, size), Scatterv(buffer)>>
      /\ heap' = [heap EXCEPT ![Master] = @ \o share]
      /\ Contribute(Master, addresses)
      /\ UNCHANGED <<blockList, readBuff, written, nodeVars, aborted>>
  BY <1>3, <1>5, <1>7 DEF WriteCall
<1>9. /\ addresses \in Seq(Blobs \cup {Garbage})
      /\ Len(addresses) = Len(share)
      /\ \A i \in 1 .. Len(addresses) :
            addresses[i] \in Pointers /\ IsLocal(Master, addresses[i])'
  BY <1>1, <1>6, <1>7, <1>8, FreshAreLocal, MasterIsRank
<1>10. DOMAIN gathered = {}
  BY <1>1, <1>8 DEF OneGatherAtATime, Gathering
<1>11. gathered' = [s \in {Master} |-> addresses]
  BY <1>8, <1>10 DEF Contribute
<1>12. DOMAIN gathered' = {Master} /\ gathered'[Master] = addresses
       /\ gathered' \in [{Master} -> Seq(Blobs \cup {Garbage})]
  BY <1>9, <1>11
<1>13. /\ comm' \in Seq(Entries)
       /\ WellFormedCalls' /\ NodesFollow' /\ OneGatherAtATime'
  BY <1>2, <1>4, <1>8, <1>10, <1>12, TransferCall
<1>14. heap' \in [Ranks -> Seq(Blobs)]
  BY <1>1, <1>6, <1>8, HeapGrows, MasterIsRank
<1>15. TypeOK'
  <2>1. call' \in IORequests
    BY <1>2, <1>8 DEF IORequests
  <2>2. requests' \in Nat /\ DOMAIN gathered' \subseteq Ranks
    BY <1>2, <1>8, <1>12, MasterIsRank
  <2>3. gathered' \in [DOMAIN gathered' -> Seq(Blobs \cup {Garbage})]
    BY <1>12
  <2> QED BY <1>1, <1>8, <1>13, <1>14, <2>1, <2>2, <2>3 DEF TypeOK, nodeVars
<1>16. WriteContributions'
  <2>1. Len(gathered'[Master]) = EffectiveBlocks(NumberOfBlocks(call'.fileSize), Master)
    BY <1>6, <1>8, <1>9, <1>12
  <2>2. ASSUME NEW r \in DOMAIN gathered'
        PROVE  /\ Len(gathered'[r]) = EffectiveBlocks(NumberOfBlocks(call'.fileSize), r)
               /\ \A i \in 1 .. Len(gathered'[r]) :
                     gathered'[r][i] \in Pointers /\ IsLocal(r, gathered[r][i])'
    <3>1. r = Master
      BY <1>12
    <3> QED BY <1>9, <1>12, <2>1, <3>1 DEF IsLocal
  <2> QED BY <2>2 DEF WriteContributions
<1>17. ReadContributions'
  BY <1>8 DEF ReadContributions
<1>18. WrittenIsListed'
  BY <1>8 DEF IndInv, WrittenIsListed
<1>19. StripeOwnership'
  BY <1>6, <1>8, OwnershipStill, MasterIsRank
<1> QED BY <1>13, <1>15, <1>16, <1>17, <1>18, <1>19 DEF IndInv

(* The pointers an open hands out: those of the list, or a wild one. *)
LEMMA PointersForType ==
    ASSUME TypeOK, NEW ino \in INodes, NEW size \in Nat
    PROVE  /\ PointersFor(ino, size) \in Seq(Pointers)
           /\ Len(PointersFor(ino, size)) = NumberOfBlocks(size)
           /\ \A b \in 1 .. NumberOfBlocks(size) : PointersFor(ino, size)[b] = PointerOf(ino, b)
<1>1. NumberOfBlocksForRequest(size, size) = NumberOfBlocks(size)
      /\ NumberOfBlocks(size) \in Nat
  BY RequestBlocks, NumberOfBlocksType
<1>2. ASSUME NEW b \in 1 .. NumberOfBlocks(size)
      PROVE  PointerOf(ino, b) \in Pointers
  <2>1. blockList[ino] \in Seq([rank : Ranks, data : Pointers])
    BY DEF TypeOK
  <2>2. CASE b <= Len(blockList[ino])
    <3>1. b \in 1 .. Len(blockList[ino])
      BY <1>1, <2>1, <2>2, LenProperties
    <3>2. blockList[ino][b] \in [rank : Ranks, data : Pointers]
      BY <2>1, <3>1, ElementOfSeq
    <3> QED BY <2>2, <3>2 DEF PointerOf
  <2>3. CASE ~(b <= Len(blockList[ino]))
    <3>1. WildPointer \in Pointers
      BY StripingAssumption DEF WildPointer, Pointers
    <3> QED BY <2>3, <3>1 DEF PointerOf
  <2> QED BY <2>2, <2>3
<1>3. PointersFor(ino, size) = [b \in 1 .. NumberOfBlocks(size) |-> PointerOf(ino, b)]
  BY <1>1 DEF PointersFor
<1>4. PointersFor(ino, size) \in [1 .. NumberOfBlocks(size) -> Pointers]
  BY <1>2, <1>3
<1> QED BY <1>1, <1>3, <1>4, FunctionIsSeq

(* Whatever comes back through an address is a block, an address or garbage. *)
LEMMA DerefType ==
    ASSUME TypeOK, NEW r \in Ranks, NEW share, NEW n \in Nat, share \in [1 .. n -> Blobs]
    PROVE  [i \in DOMAIN share |-> Deref(r, share[i])] \in Seq(Blobs \cup {Garbage})
<1>1. ASSUME NEW i \in 1 .. n
      PROVE  Deref(r, share[i]) \in Blobs \cup {Garbage}
  <2>1. CASE IsLocal(r, share[i])
    <3>1. heap[r] \in Seq(Blobs) /\ share[i].id \in 1 .. Len(heap[r])
      BY <2>1 DEF TypeOK, IsLocal
    <3>2. heap[r][share[i].id] \in Blobs
      BY <3>1, ElementOfSeq
    <3> QED BY <2>1, <3>2 DEF Deref
  <2>2. CASE ~IsLocal(r, share[i])
    BY <2>2 DEF Deref
  <2> QED BY <2>1, <2>2
<1>2. [i \in DOMAIN share |-> Deref(r, share[i])] \in [1 .. n -> Blobs \cup {Garbage}]
  BY <1>1
<1> QED BY <1>2, FunctionIsSeq

(* The open: nothing is stored, the pointers of the list go out. *)
THEOREM ReadCallStep ==
    ASSUME IndInv, NEW ino \in INodes, NEW size \in FileSizes, ReadCall(ino, size)
    PROVE  IndInv'
<1>1. TypeOK /\ OneGatherAtATime
  BY DEF IndInv
<1>2. size \in Nat
  BY ClientServerAssumption
<1>3. PICK pointers : pointers = PointersFor(ino, size)
  OBVIOUS
<1>4. pointers \in Seq(Blobs) /\ Len(pointers) = NumberOfBlocks(size)
  <2>1. Pointers \subseteq Blobs
    BY DEF Blobs
  <2> QED BY <1>1, <1>2, <1>3, <2>1, PointersForType, SeqOfSubset
<1>5. PICK share : share = ScatterPart(pointers, Master)
  OBVIOUS
<1>6. PICK data : data = [i \in DOMAIN share |-> Deref(Master, share[i])]
  OBVIOUS
<1>7. data \in Seq(Blobs \cup {Garbage})
  <2>1. share \in Seq(Blobs)
    BY <1>4, <1>5, ScatterPartType, MasterIsRank
  <2>2. share \in [1 .. Len(share) -> Blobs] /\ Len(share) \in Nat
    BY <2>1, LenProperties
  <2> QED BY <1>1, <1>6, <2>2, DerefType, MasterIsRank
<1>8. /\ mpc = "loop" /\ mpc' = "read"
      /\ size > 0
      /\ requests' = requests + 1
      /\ call' = [inode |-> ino, fileSize |-> size]
      /\ comm' = comm \o <<Request("READ"), IORequest(ino, size), Scatterv(pointers)>>
      /\ Contribute(Master, data)
      /\ UNCHANGED <<blockList, readBuff, written, nodeVars, heap, aborted>>
  BY <1>3, <1>5, <1>6 DEF ReadCall
<1>9. DOMAIN gathered = {}
  BY <1>1, <1>8 DEF OneGatherAtATime, Gathering
<1>10. gathered' = [s \in {Master} |-> data]
  BY <1>8, <1>9 DEF Contribute
<1>11. DOMAIN gathered' = {Master}
       /\ gathered' \in [{Master} -> Seq(Blobs \cup {Garbage})]
  BY <1>7, <1>10
<1>12. /\ comm' \in Seq(Entries)
       /\ WellFormedCalls' /\ NodesFollow' /\ OneGatherAtATime'
       /\ comm'[Len(comm')].parts = pointers
  BY <1>2, <1>4, <1>8, <1>9, <1>11, TransferCall
<1>13. TypeOK'
  <2>1. call' \in IORequests
    BY <1>2, <1>8 DEF IORequests
  <2>2. requests' \in Nat /\ DOMAIN gathered' \subseteq Ranks
    BY <1>1, <1>8, <1>11, MasterIsRank DEF TypeOK
  <2>3. gathered' \in [DOMAIN gathered' -> Seq(Blobs \cup {Garbage})]
    BY <1>11
  <2> QED BY <1>1, <1>8, <1>12, <2>1, <2>2, <2>3 DEF TypeOK, nodeVars
<1>14. WriteContributions'
  BY <1>8 DEF WriteContributions
<1>15. ReadContributions'
  <2>1. call'.inode = ino /\ call'.fileSize = size
    BY <1>8
  <2>2. pointers = PointersFor(call.inode, call.fileSize)'
    BY <1>3, <1>8, <2>1 DEF PointersFor, PointerOf
  <2> QED BY <1>12, <2>2 DEF ReadContributions
<1>16. WrittenIsListed' /\ StripeOwnership'
  BY <1>8 DEF IndInv, WrittenIsListed, StripeOwnership, IsLocal
<1> QED BY <1>12, <1>13, <1>14, <1>15, <1>16 DEF IndInv
-----------------------------------------------------------------------------
(* The nodes. *)

LEMMA NodePosition ==
    ASSUME IndInv, NEW r \in Nodes, NEW kind, pos[r] < Len(comm), NextCall(r).kind = kind
    PROVE  /\ pos[r] \in Nat /\ Len(comm) \in Nat
           /\ pos[r] + 1 \in 1 .. Len(comm)
           /\ NextCall(r) = comm[pos[r] + 1] /\ NextCall(r) \in Entries
           /\ NextCall(r).kind = kind
           /\ npc[r] = PhaseAfter(pos[r]) /\ kind = KindFor(npc[r])
<1>1. TypeOK /\ WellFormedCalls /\ NodesFollow
  BY DEF IndInv
<1>2. pos[r] \in Nat /\ pos[r] < Len(comm) /\ NextCall(r).kind = kind
  BY <1>1 DEF TypeOK
<1>3. Len(comm) \in Nat /\ comm \in Seq(Entries)
  BY <1>1, LenProperties DEF TypeOK
<1>4. pos[r] + 1 \in 1 .. Len(comm) /\ pos[r] + 1 - 1 = pos[r]
  BY <1>2, <1>3
<1>5. NextCall(r) = comm[pos[r] + 1] /\ NextCall(r) \in Entries
  BY <1>3, <1>4, ElementOfSeq DEF NextCall
<1>6. npc[r] = PhaseAfter(pos[r])
  BY <1>1 DEF NodesFollow
<1>7. comm[pos[r] + 1].kind = KindFor(PhaseAfter(pos[r]))
  <2>1. PICK k \in 1 .. Len(comm) : k = pos[r] + 1
    BY <1>4
  <2>2. comm[k].kind = KindFor(PhaseAfter(k - 1)) /\ k - 1 = pos[r]
    BY <1>1, <1>2, <2>1 DEF WellFormedCalls
  <2> QED BY <2>1, <2>2
<1> QED BY <1>2, <1>3, <1>4, <1>5, <1>6, <1>7

(* A node about to take part in a Scatterv takes part in the present one. *)
LEMMA NodeAtScatterv ==
    ASSUME IndInv, NEW r \in Nodes, pos[r] < Len(comm), NextCall(r).kind = "Scatterv"
    PROVE  /\ pos[r] + 1 = Len(comm)
           /\ Gathering /\ npc[r] = mpc
           /\ nreq[r].fileSize = call.fileSize
           /\ r \notin DOMAIN gathered
           /\ NextCall(r).parts \in Seq(Blobs)
           /\ Len(NextCall(r).parts) = NumberOfBlocks(call.fileSize)
           /\ NodeBlocks(r) = NumberOfBlocks(call.fileSize)
           /\ NumberOfBlocks(call.fileSize) \in Nat
<1>1. TypeOK /\ WellFormedCalls /\ NodesFollow /\ OneGatherAtATime
  BY DEF IndInv
<1>2. /\ pos[r] \in Nat /\ Len(comm) \in Nat /\ pos[r] + 1 \in 1 .. Len(comm)
      /\ NextCall(r) = comm[pos[r] + 1] /\ NextCall(r) \in Entries
      /\ comm[pos[r] + 1].kind = "Scatterv"
      /\ npc[r] = PhaseAfter(pos[r])
  BY NodePosition
<1>3. Gathering /\ pos[r] + 1 = Len(comm)
  <2>1. ~(pos[r] + 1 <= pos[r])
    BY <1>2
  <2> QED BY <1>1, <1>2, <2>1 DEF OneGatherAtATime
<1>4. pos[r] = Len(comm) - 1 /\ pos[r] # Len(comm)
  BY <1>2, <1>3
<1>5. npc[r] = mpc
  BY <1>1, <1>2, <1>3, <1>4 DEF OneGatherAtATime
<1>6. nreq[r].fileSize = call.fileSize
  <2>1. npc[r] \in {"write", "read"}
    BY <1>3, <1>5 DEF Gathering
  <2>2. nreq[r].fileSize = comm[pos[r]].fileSize
    <3>1. nreq[r] = [inode |-> comm[pos[r]].inode, fileSize |-> comm[pos[r]].fileSize]
      BY <1>1, <2>1 DEF NodesFollow
    <3> QED BY <3>1
  <2>3. comm[Len(comm) - 1].fileSize = call.fileSize
    BY <1>1, <1>3 DEF OneGatherAtATime
  <2> QED BY <1>4, <2>2, <2>3
<1>7. r \notin DOMAIN gathered
  <2>1. r # Master
    BY DEF Nodes
  <2> QED BY <1>1, <1>3, <1>4, <2>1 DEF OneGatherAtATime
<1>8. NextCall(r).parts \in Seq(Blobs)
  BY <1>2, EntryKinds
<1>9. Len(NextCall(r).parts) = NumberOfBlocks(call.fileSize)
  <2>1. Len(comm[Len(comm)].parts) = NumberOfBlocks(comm[Len(comm) - 1].fileSize)
    BY <1>1, <1>2, <1>3 DEF WellFormedCalls
  <2>2. comm[Len(comm) - 1].fileSize = call.fileSize
    BY <1>1, <1>3 DEF OneGatherAtATime
  <2>3. NextCall(r) = comm[Len(comm)]
    BY <1>2, <1>3
  <2> QED BY <2>1, <2>2, <2>3
<1>10. NodeBlocks(r) = NumberOfBlocks(call.fileSize)
  BY <1>6, RequestBlocks DEF NodeBlocks
<1>11. NumberOfBlocks(call.fileSize) \in Nat
  BY <1>1, NumberOfBlocksType DEF TypeOK, IORequests
<1> QED BY <1>3, <1>5, <1>6, <1>7, <1>8, <1>9, <1>10, <1>11

(* Taking part in a call other than Scatterv. *)
LEMMA NodeAdvances ==
    ASSUME IndInv, NEW r \in Nodes, NEW kind, Receives(r, kind), kind # "Scatterv",
           pos' = [pos EXCEPT ![r] = @ + 1],
           NEW phase, npc' = [npc EXCEPT ![r] = phase], phase = PhaseAfter(pos[r] + 1),
           phase \in {"write", "read"} =>
              nreq'[r] = [inode |-> NextCall(r).inode, fileSize |-> NextCall(r).fileSize],
           \A s \in Nodes : s # r => nreq'[s] = nreq[s],
           nreq' \in [Nodes -> IORequests],
           UNCHANGED <<dataBlockPointers, masterVars, comm, gathered, heap, aborted>>
    PROVE  IndInv'
<1>1. TypeOK /\ WellFormedCalls /\ NodesFollow /\ OneGatherAtATime
  BY DEF IndInv
<1>2. /\ pos[r] \in Nat /\ Len(comm) \in Nat /\ pos[r] + 1 \in 1 .. Len(comm)
      /\ NextCall(r) = comm[pos[r] + 1]
      /\ comm[pos[r] + 1].kind # "Scatterv"
  BY NodePosition DEF Receives
<1>3. \A k : PhaseAfter(k)' = PhaseAfter(k)
  BY DEF PhaseAfter
<1>4. /\ pos'[r] = pos[r] + 1 /\ npc'[r] = phase
      /\ \A s \in Nodes : s # r => pos'[s] = pos[s] /\ npc'[s] = npc[s]
      /\ pos' \in [Nodes -> Nat]
  BY <1>1, <1>2 DEF TypeOK
<1>5. TypeOK'
  <2>1. phase \in {"request", "write_io", "read_io", "write", "read", "stopped"}
    BY <1>1, <1>2, PhaseType DEF TypeOK
  <2>2. npc' \in [Nodes -> {"request", "write_io", "read_io", "write", "read", "stopped"}]
    BY <1>1, <2>1 DEF TypeOK
  <2> QED BY <1>1, <1>4, <2>2 DEF TypeOK, masterVars
<1>6. WellFormedCalls'
  BY <1>1, <1>3 DEF WellFormedCalls, masterVars
<1>7. NodesFollow'
  <2> SUFFICES ASSUME NEW s \in Nodes
               PROVE  /\ pos'[s] <= Len(comm)
                      /\ npc'[s] = PhaseAfter(pos'[s])
                      /\ npc'[s] \in {"write", "read"} =>
                            nreq'[s] = [inode |-> comm[pos'[s]].inode,
                                        fileSize |-> comm[pos'[s]].fileSize]
    BY <1>3 DEF NodesFollow
  <2>1. CASE s = r
    BY <1>2, <1>4, <2>1
  <2>2. CASE s # r
    <3>1. pos'[s] = pos[s] /\ npc'[s] = npc[s] /\ nreq'[s] = nreq[s]
      BY <1>4, <2>2
    <3> QED BY <1>1, <3>1 DEF NodesFollow
  <2> QED BY <2>1, <2>2
<1>8. OneGatherAtATime'
  <2>1. Gathering' <=> Gathering
    BY DEF Gathering, masterVars
  <2>2. ASSUME Gathering
        PROVE  \A s \in Nodes : pos'[s] = Len(comm) <=> pos[s] = Len(comm)
    <3>1. pos[r] + 1 # Len(comm) /\ pos[r] # Len(comm)
      BY <1>1, <1>2, <2>2 DEF OneGatherAtATime
    <3> QED BY <1>4, <3>1
  <2>3. \A s \in Nodes : pos[s] <= pos'[s] /\ pos[s] \in Nat /\ pos'[s] \in Nat
    BY <1>1, <1>2, <1>4 DEF TypeOK
  <2>4. ASSUME NEW s \in Nodes, NEW k \in 1 .. Len(comm),
               comm[k].kind = "Scatterv", ~(Gathering /\ k = Len(comm))
        PROVE  k <= pos'[s]
    <3>1. k <= pos[s] /\ k \in Nat
      BY <1>1, <2>4 DEF OneGatherAtATime
    <3> QED BY <2>3, <3>1
  <2>5. ASSUME Gathering
        PROVE  DOMAIN gathered = {Master} \cup {s \in Nodes : pos'[s] = Len(comm)}
    BY <1>1, <2>2, <2>5 DEF OneGatherAtATime
  <2> QED BY <1>1, <1>3, <2>1, <2>4, <2>5 DEF OneGatherAtATime, masterVars
<1>9. WriteContributions' /\ ReadContributions'
  BY DEF IndInv, WriteContributions, ReadContributions, IsLocal, PointersFor,
         PointerOf, masterVars
<1>10. WrittenIsListed' /\ StripeOwnership'
  BY DEF IndInv, WrittenIsListed, StripeOwnership, IsLocal, masterVars
<1> QED BY <1>5, <1>6, <1>7, <1>8, <1>9, <1>10 DEF IndInv

THEOREM NodeRequestStep ==
    ASSUME IndInv, NEW r \in Nodes, NodeRequest(r)
    PROVE  IndInv'
<1> DEFINE phase == CASE NextCall(r).type = "WRITE"     -> "write_io"
                      [] NextCall(r).type = "READ"      -> "read_io"
                      [] NextCall(r).type = "TERMINATE" -> "stopped"
                      [] OTHER                          -> "request"
<1>1. /\ Receives(r, "Request")
      /\ pos' = [pos EXCEPT ![r] = @ + 1]
      /\ npc' = [npc EXCEPT ![r] = phase]
      /\ UNCHANGED <<nreq, dataBlockPointers, masterVars, comm, gathered, heap, aborted>>
  BY DEF NodeRequest
<1>2. PICK k \in 1 .. Len(comm) : k = pos[r] + 1
  BY <1>1, NodePosition DEF Receives
<1>3. NextCall(r) = comm[k] /\ comm[k].kind = "Request" /\ k # 0
  BY <1>1, <1>2, NodePosition DEF Receives
<1>4. phase = PhaseAfter(k)
  BY <1>3 DEF PhaseAfter
<1>5. phase \notin {"write", "read"}
  OBVIOUS
<1>6. nreq' \in [Nodes -> IORequests]
  BY <1>1 DEF IndInv, TypeOK
<1>7. PICK p : p = phase
  OBVIOUS
<1> HIDE DEF phase
<1> QED BY <1>1, <1>2, <1>4, <1>5, <1>6, <1>7, NodeAdvances

THEOREM NodeIORequestStep ==
    ASSUME IndInv, NEW r \in Nodes, NodeIORequest(r)
    PROVE  IndInv'
<1> DEFINE phase == CASE npc[r] = "write_io"                            -> "write"
                      [] npc[r] = "read_io" /\ NextCall(r).fileSize > 0 -> "read"
                      [] npc[r] = "read_io" /\ ~(NextCall(r).fileSize > 0) -> "request"
           io    == [inode |-> NextCall(r).inode, fileSize |-> NextCall(r).fileSize]
<1>1. /\ npc[r] \in {"write_io", "read_io"}
      /\ Receives(r, "IORequest")
      /\ pos' = [pos EXCEPT ![r] = @ + 1]
      /\ nreq' = [nreq EXCEPT ![r] = io]
      /\ npc' = [npc EXCEPT ![r] = phase]
      /\ UNCHANGED <<dataBlockPointers, masterVars, comm, gathered, heap, aborted>>
  BY DEF NodeIORequest
<1>2. TypeOK
  BY DEF IndInv
<1>3. PICK k \in 1 .. Len(comm) : k = pos[r] + 1
  BY <1>1, NodePosition DEF Receives
<1>4. /\ NextCall(r) = comm[k] /\ comm[k].kind = "IORequest" /\ k # 0
      /\ k - 1 = pos[r] /\ npc[r] = PhaseAfter(k - 1) /\ comm[k] \in Entries
  BY <1>1, <1>3, NodePosition DEF Receives
<1>5. io \in IORequests
  BY <1>4, EntryKinds DEF IORequests
<1>6. nreq' \in [Nodes -> IORequests]
      /\ nreq'[r] = io /\ \A s \in Nodes : s # r => nreq'[s] = nreq[s]
  BY <1>1, <1>2, <1>5 DEF TypeOK
<1>7. phase = PhaseAfter(k)
  <2>1. k - 1 # 0
    BY <1>1, <1>4 DEF PhaseAfter
  <2>2. /\ npc[r] = "write_io" => comm[k - 1].type = "WRITE"
        /\ npc[r] = "read_io" => comm[k - 1].type # "WRITE"
    <3>1. PICK m \in 1 .. Len(comm) : m = k - 1
      BY <1>4, <2>1
    <3>2. comm[m] \in Entries /\ npc[r] = PhaseAfter(m) /\ m # 0
      BY <1>2, <1>4, <2>1, <3>1, ElementOfSeq DEF TypeOK
    <3>3. /\ npc[r] = "write_io" => comm[m].type = "WRITE"
          /\ npc[r] = "read_io" => comm[m].type # "WRITE"
      BY <1>1, <3>2, EntryKinds DEF PhaseAfter
    <3> QED BY <3>1, <3>3
  <2>3. PhaseAfter(k) = IF comm[k - 1].type = "WRITE" THEN "write"
                        ELSE IF comm[k].fileSize > 0 THEN "read" ELSE "request"
    BY <1>4 DEF PhaseAfter
  <2>4. CASE npc[r] = "write_io"
    BY <2>2, <2>3, <2>4
  <2>5. CASE npc[r] = "read_io"
    BY <1>4, <2>2, <2>3, <2>5
  <2> QED BY <1>1, <2>4, <2>5
<1>8. PICK p : p = phase
  OBVIOUS
<1> HIDE DEF phase
<1> QED BY <1>1, <1>3, <1>6, <1>7, <1>8, NodeAdvances

(* Taking part in a Scatterv and contributing to its Gatherv. *)
LEMMA NodeContributes ==
    ASSUME IndInv, NEW r \in Nodes, Receives(r, "Scatterv"),
           pos' = [pos EXCEPT ![r] = @ + 1],
           npc' = [npc EXCEPT ![r] = "request"],
           DOMAIN gathered' = DOMAIN gathered \cup {r},
           UNCHANGED <<nreq, masterVars, comm>>
    PROVE  /\ pos' \in [Nodes -> Nat]
           /\ npc' \in [Nodes -> {"request", "write_io", "read_io", "write", "read", "stopped"}]
           /\ WellFormedCalls' /\ NodesFollow' /\ OneGatherAtATime'
<1>1. TypeOK /\ WellFormedCalls /\ NodesFollow /\ OneGatherAtATime
  BY DEF IndInv
<1>2. /\ pos[r] \in Nat /\ Len(comm) \in Nat
      /\ pos[r] + 1 = Len(comm) /\ comm[pos[r] + 1].kind = "Scatterv"
      /\ Gathering
  BY NodePosition, NodeAtScatterv DEF Receives
<1>3. \A k : PhaseAfter(k)' = PhaseAfter(k)
  BY DEF PhaseAfter
<1>4. /\ pos'[r] = pos[r] + 1 /\ npc'[r] = "request"
      /\ \A s \in Nodes : s # r => pos'[s] = pos[s] /\ npc'[s] = npc[s]
      /\ pos' \in [Nodes -> Nat]
      /\ npc' \in [Nodes -> {"request", "write_io", "read_io", "write", "read", "stopped"}]
  BY <1>1, <1>2 DEF TypeOK
<1>5. WellFormedCalls'
  BY <1>1, <1>3 DEF WellFormedCalls, masterVars
<1>6. PhaseAfter(pos[r] + 1) = "request"
  <2>1. PICK k : k = pos[r] + 1
    OBVIOUS
  <2>2. k # 0 /\ comm[k].kind = "Scatterv"
    BY <1>2, <2>1
  <2> QED BY <2>1, <2>2 DEF PhaseAfter
<1>7. NodesFollow'
  <2> SUFFICES ASSUME NEW s \in Nodes
               PROVE  /\ pos'[s] <= Len(comm)
                      /\ npc'[s] = PhaseAfter(pos'[s])
                      /\ npc'[s] \in {"write", "read"} =>
                            nreq'[s] = [inode |-> comm[pos'[s]].inode,
                                        fileSize |-> comm[pos'[s]].fileSize]
    BY <1>3 DEF NodesFollow
  <2>1. CASE s = r
    BY <1>2, <1>4, <1>6, <2>1
  <2>2. CASE s # r
    <3>1. pos'[s] = pos[s] /\ npc'[s] = npc[s] /\ nreq'[s] = nreq[s]
      BY <1>4, <2>2
    <3> QED BY <1>1, <3>1 DEF NodesFollow
  <2> QED BY <2>1, <2>2
<1>8. OneGatherAtATime'
  <2>1. Gathering'
    BY <1>2 DEF Gathering, masterVars
  <2>2. DOMAIN gathered' = {Master} \cup {s \in Nodes : pos'[s] = Len(comm)}
    <3>1. DOMAIN gathered = {Master} \cup {s \in Nodes : pos[s] = Len(comm)}
      BY <1>1, <1>2 DEF OneGatherAtATime
    <3> QED BY <1>2, <1>4, <3>1
  <2>3. \A s \in Nodes : pos[s] <= pos'[s] /\ pos[s] \in Nat /\ pos'[s] \in Nat
    BY <1>1, <1>2, <1>4 DEF TypeOK
  <2>4. ASSUME NEW s \in Nodes, NEW k \in 1 .. Len(comm),
               comm[k].kind = "Scatterv", ~(Gathering /\ k = Len(comm))
        PROVE  k <= pos'[s]
    <3>1. k <= pos[s] /\ k \in Nat
      BY <1>1, <2>4 DEF OneGatherAtATime
    <3> QED BY <2>3, <3>1
  <2> QED BY <1>1, <1>2, <1>3, <2>1, <2>2, <2>4 DEF OneGatherAtATime, masterVars
<1> QED BY <1>4, <1>5, <1>7, <1>8

(* What a node takes out of its receive buffer: what Scatterv dealt to it. *)
LEMMA NodeShareType ==
    ASSUME IndInv, NEW r \in Nodes, pos[r] < Len(comm), NextCall(r).kind = "Scatterv"
    PROVE  LET n == NumberOfBlocks(call.fileSize)
           IN  /\ NodeShare(r) \in Seq(Blobs)
               /\ Len(NodeShare(r)) = EffectiveBlocks(n, r)
               /\ DOMAIN NodeShare(r) = 1 .. EffectiveBlocks(n, r)
               /\ \A i \in 1 .. EffectiveBlocks(n, r) :
                     /\ NodeShare(r)[i] = NextCall(r).parts[Displ(n, r) + i]
                     /\ Displ(n, r) + i \in 1 .. n
<1> DEFINE n == NumberOfBlocks(call.fileSize)
           e == EffectiveBlocks(n, r)
           parts == NextCall(r).parts
<1>1. parts \in Seq(Blobs) /\ Len(parts) = n /\ NodeBlocks(r) = n /\ n \in Nat
  BY NodeAtScatterv DEF Receives
<1>2. r \in Ranks
  BY MasterIsRank
<1>3. e \in Nat
  BY <1>1, <1>2, ShareType, MasterIsRank
<1>4. NodeShare(r) = [i \in 1 .. e |-> ScatterPart(parts, r)[i]]
  BY <1>1 DEF NodeShare
<1> HIDE DEF n, parts
<1>5. /\ ScatterPart(parts, r) \in Seq(Blobs)
      /\ Len(ScatterPart(parts, r)) = e
      /\ \A i \in 1 .. e : /\ ScatterPart(parts, r)[i] = parts[Displ(n, r) + i]
                           /\ Displ(n, r) + i \in 1 .. n
  BY <1>1, <1>2, ScatterPartType
<1>6. \A i \in 1 .. e : ScatterPart(parts, r)[i] \in Blobs
  BY <1>5, ElementOfSeq
<1>7. NodeShare(r) \in [1 .. e -> Blobs]
  BY <1>4, <1>6
<1>8. NodeShare(r) \in Seq(Blobs) /\ Len(NodeShare(r)) = e /\ DOMAIN NodeShare(r) = 1 .. e
  BY <1>3, <1>7, FunctionIsSeq
<1> QED BY <1>4, <1>5, <1>8 DEF n, parts

(* A write reaches a node: its memory grows by its share. *)
THEOREM NodeWriteStep ==
    ASSUME IndInv, NEW r \in Nodes, NodeWrite(r)
    PROVE  IndInv'
<1> DEFINE n == NumberOfBlocks(call.fileSize)
<1>1. TypeOK /\ OneGatherAtATime /\ WriteContributions /\ r \in Ranks
  BY MasterIsRank DEF IndInv
<1>2. npc[r] = "write" /\ Receives(r, "Scatterv")
  BY DEF NodeWrite
<1>3. mpc = "write" /\ r \notin DOMAIN gathered
  BY <1>2, NodeAtScatterv DEF Receives
<1>4. PICK share : share = NodeShare(r)
  OBVIOUS
<1>5. share \in Seq(Blobs) /\ Len(share) = EffectiveBlocks(n, r)
  BY <1>2, <1>4, NodeShareType DEF Receives
<1>6. PICK addresses : addresses = NewAddresses(r, Len(share))
  OBVIOUS
<1>7. /\ pos' = [pos EXCEPT ![r] = @ + 1]
      /\ heap' = [heap EXCEPT ![r] = @ \o share]
      /\ Contribute(r, addresses)
      /\ dataBlockPointers' = [dataBlockPointers EXCEPT ![r][nreq[r].inode] = @ \o addresses]
      /\ npc' = [npc EXCEPT ![r] = "request"]
      /\ UNCHANGED <<nreq, masterVars, comm, aborted>>
  BY <1>4, <1>6 DEF NodeWrite
<1>8. /\ addresses \in Seq(Pointers) /\ addresses \in Seq(Blobs \cup {Garbage})
      /\ Len(addresses) = Len(share)
      /\ \A i \in 1 .. Len(addresses) :
            addresses[i] \in Pointers /\ IsLocal(r, addresses[i])'
  BY <1>1, <1>5, <1>6, <1>7, FreshAreLocal
<1>9. /\ DOMAIN gathered' = DOMAIN gathered \cup {r}
      /\ gathered'[r] = addresses
      /\ \A s \in DOMAIN gathered : gathered'[s] = gathered[s]
      /\ gathered' \in [DOMAIN gathered' -> Seq(Blobs \cup {Garbage})]
  <2>1. gathered' = [s \in DOMAIN gathered \cup {r} |->
                        IF s = r THEN addresses ELSE gathered[s]]
    BY <1>7 DEF Contribute
  <2>2. gathered \in [DOMAIN gathered -> Seq(Blobs \cup {Garbage})]
    BY <1>1 DEF TypeOK
  <2> QED BY <1>3, <1>8, <2>1, <2>2
<1>10. /\ pos' \in [Nodes -> Nat]
       /\ npc' \in [Nodes -> {"request", "write_io", "read_io", "write", "read", "stopped"}]
       /\ WellFormedCalls' /\ NodesFollow' /\ OneGatherAtATime'
  BY <1>2, <1>7, <1>9, NodeContributes
<1>11. /\ heap' \in [Ranks -> Seq(Blobs)]
       /\ \A s \in Ranks, a \in Pointers : IsLocal(s, a) => IsLocal(s, a)'
  BY <1>1, <1>5, <1>7, HeapGrows
<1>12. TypeOK'
  <2>1. dataBlockPointers' \in [Nodes -> [INodes -> Seq(Pointers)]]
    <3>1. nreq[r].inode \in INodes /\ dataBlockPointers[r] \in [INodes -> Seq(Pointers)]
      BY <1>1 DEF TypeOK, IORequests
    <3>2. dataBlockPointers[r][nreq[r].inode] \o addresses \in Seq(Pointers)
      BY <1>8, <3>1, ConcatProperties
    <3> QED BY <1>1, <1>7, <3>1, <3>2 DEF TypeOK
  <2>2. DOMAIN gathered' \subseteq Ranks
    BY <1>1, <1>9 DEF TypeOK
  <2> QED BY <1>1, <1>7, <1>9, <1>10, <1>11, <2>1, <2>2 DEF TypeOK, masterVars
<1>13. WriteContributions'
  <2>1. call' = call
    BY <1>7 DEF masterVars
  <2>2. ASSUME NEW s \in DOMAIN gathered'
        PROVE  /\ Len(gathered'[s]) = EffectiveBlocks(NumberOfBlocks(call'.fileSize), s)
               /\ \A i \in 1 .. Len(gathered'[s]) :
                     gathered'[s][i] \in Pointers /\ IsLocal(s, gathered[s][i])'
    <3>1. CASE s = r
      BY <1>5, <1>8, <1>9, <2>1, <3>1 DEF IsLocal
    <3>2. CASE s # r
      <4>1. s \in DOMAIN gathered /\ gathered'[s] = gathered[s] /\ s \in Ranks
        BY <1>1, <1>9, <3>2 DEF TypeOK
      <4>2. /\ Len(gathered[s]) = EffectiveBlocks(n, s)
            /\ \A i \in 1 .. Len(gathered[s]) :
                  gathered[s][i] \in Pointers /\ IsLocal(s, gathered[s][i])
        BY <1>1, <1>3, <4>1 DEF WriteContributions
      <4>3. ASSUME NEW i \in 1 .. Len(gathered[s])
            PROVE  IsLocal(s, gathered[s][i])'
        <5>1. PICK a \in Pointers : a = gathered[s][i]
          BY <4>2
        <5>2. IsLocal(s, a)'
          BY <1>11, <4>1, <4>2, <5>1
        <5>3. gathered'[s][i] = a
          BY <4>1, <5>1
        <5> QED BY <5>2, <5>3 DEF IsLocal
      <4> QED BY <2>1, <4>1, <4>2, <4>3
    <3> QED BY <3>1, <3>2
  <2> QED BY <2>2 DEF WriteContributions
<1>14. ReadContributions'
  BY <1>3, <1>7 DEF ReadContributions, masterVars
<1>15. WrittenIsListed'
  BY <1>7 DEF IndInv, WrittenIsListed, masterVars
<1>16. StripeOwnership'
  <2>1. UNCHANGED <<blockList, written>>
    BY <1>7 DEF masterVars
  <2> QED BY <1>1, <1>5, <1>7, <2>1, OwnershipStill
<1> QED BY <1>10, <1>12, <1>13, <1>14, <1>15, <1>16 DEF IndInv

(* A read reaches a node: nothing is stored. *)
THEOREM NodeReadStep ==
    ASSUME IndInv, NEW r \in Nodes, NodeRead(r)
    PROVE  IndInv'
<1>1. TypeOK /\ r \in Ranks
  BY MasterIsRank DEF IndInv
<1>2. npc[r] = "read" /\ Receives(r, "Scatterv")
  BY DEF NodeRead
<1>3. mpc = "read" /\ r \notin DOMAIN gathered
  BY <1>2, NodeAtScatterv DEF Receives
<1>4. PICK share : share = NodeShare(r)
  OBVIOUS
<1>5. PICK data : data = [i \in DOMAIN share |-> Deref(r, share[i])]
  OBVIOUS
<1>6. data \in Seq(Blobs \cup {Garbage})
  <2>1. share \in [1 .. Len(share) -> Blobs] /\ Len(share) \in Nat
    BY <1>2, <1>4, NodeShareType, LenProperties DEF Receives
  <2> QED BY <1>1, <1>5, <2>1, DerefType
<1>7. /\ pos' = [pos EXCEPT ![r] = @ + 1]
      /\ Contribute(r, data)
      /\ npc' = [npc EXCEPT ![r] = "request"]
      /\ UNCHANGED <<nreq, dataBlockPointers, masterVars, comm, heap, aborted>>
  BY <1>4, <1>5 DEF NodeRead
<1>8. /\ DOMAIN gathered' = DOMAIN gathered \cup {r}
      /\ gathered' \in [DOMAIN gathered' -> Seq(Blobs \cup {Garbage})]
  <2>1. gathered' = [s \in DOMAIN gathered \cup {r} |->
                        IF s = r THEN data ELSE gathered[s]]
    BY <1>7 DEF Contribute
  <2>2. gathered \in [DOMAIN gathered -> Seq(Blobs \cup {Garbage})]
    BY <1>1 DEF TypeOK
  <2> QED BY <1>6, <2>1, <2>2
<1>9. /\ pos' \in [Nodes -> Nat]
      /\ npc' \in [Nodes -> {"request", "write_io", "read_io", "write", "read", "stopped"}]
      /\ WellFormedCalls' /\ NodesFollow' /\ OneGatherAtATime'
  BY <1>2, <1>7, <1>8, NodeContributes
<1>10. TypeOK'
  <2>1. DOMAIN gathered' \subseteq Ranks
    BY <1>1, <1>8 DEF TypeOK
  <2> QED BY <1>1, <1>7, <1>8, <1>9, <2>1 DEF TypeOK, masterVars
<1>11. WriteContributions' /\ ReadContributions'
  BY <1>3, <1>7 DEF IndInv, WriteContributions, ReadContributions, PointersFor,
                    PointerOf, masterVars
<1>12. WrittenIsListed' /\ StripeOwnership'
  BY <1>7 DEF IndInv, WrittenIsListed, StripeOwnership, IsLocal, masterVars
<1> QED BY <1>9, <1>10, <1>11, <1>12 DEF IndInv
-----------------------------------------------------------------------------
(* The end of a Gatherv. *)

LEMMA GatherEnds ==
    ASSUME IndInv, Gathering, DOMAIN gathered = Ranks,
           mpc' = "loop", gathered' = [r \in {} |-> <<>>],
           UNCHANGED <<comm, nodeVars>>
    PROVE  /\ WellFormedCalls' /\ NodesFollow' /\ OneGatherAtATime'
           /\ WriteContributions' /\ ReadContributions'
           /\ DOMAIN gathered' = {}
           /\ gathered' \in [DOMAIN gathered' -> Seq(Blobs \cup {Garbage})]
<1>1. TypeOK /\ WellFormedCalls /\ NodesFollow /\ OneGatherAtATime
  BY DEF IndInv
<1>2. \A k : PhaseAfter(k)' = PhaseAfter(k)
  BY DEF PhaseAfter
<1>3. mpc # "finished" /\ ~Gathering'
  BY DEF Gathering
<1>4. WellFormedCalls'
  BY <1>1, <1>2, <1>3 DEF WellFormedCalls
<1>5. NodesFollow'
  BY <1>1, <1>2 DEF NodesFollow, nodeVars
<1>6. DOMAIN gathered' = {} /\ gathered' \in [DOMAIN gathered' -> Seq(Blobs \cup {Garbage})]
  OBVIOUS
<1>7. OneGatherAtATime'
  <2>1. ASSUME NEW r \in Nodes, NEW k \in 1 .. Len(comm), comm[k].kind = "Scatterv"
        PROVE  k <= pos[r]
    <3>1. pos[r] = Len(comm) /\ Len(comm) \in Nat
      <4>1. r \in Ranks /\ r # Master
        BY MasterIsRank DEF Nodes
      <4>2. DOMAIN gathered = {Master} \cup {s \in Nodes : pos[s] = Len(comm)}
        BY <1>1 DEF OneGatherAtATime
      <4> QED BY <1>1, <4>1, <4>2, LenProperties DEF TypeOK
    <3> QED BY <3>1
  <2> QED BY <1>3, <1>6, <2>1 DEF OneGatherAtATime, nodeVars
<1>8. WriteContributions' /\ ReadContributions'
  BY DEF WriteContributions, ReadContributions
<1> QED BY <1>4, <1>5, <1>6, <1>7, <1>8

THEOREM ReadDoneStep ==
    ASSUME IndInv, ReadDone
    PROVE  IndInv'
<1>1. /\ mpc = "read" /\ mpc' = "loop"
      /\ DOMAIN gathered = Ranks
      /\ gathered' = [r \in {} |-> <<>>]
      /\ UNCHANGED <<call, blockList, requests, written, comm, nodeVars, heap, aborted>>
  BY DEF ReadDone
<1>2. /\ WellFormedCalls' /\ NodesFollow' /\ OneGatherAtATime'
      /\ WriteContributions' /\ ReadContributions'
      /\ DOMAIN gathered' = {}
      /\ gathered' \in [DOMAIN gathered' -> Seq(Blobs \cup {Garbage})]
  BY <1>1, GatherEnds DEF Gathering
<1>3. TypeOK'
  BY <1>1, <1>2 DEF IndInv, TypeOK, nodeVars
<1>4. WrittenIsListed' /\ StripeOwnership'
  BY <1>1 DEF IndInv, WrittenIsListed, StripeOwnership, IsLocal
<1> QED BY <1>2, <1>3, <1>4 DEF IndInv

(* Every address that came in is one of its owner's memory. *)
LEMMA GatheredAddresses ==
    ASSUME IndInv, mpc = "write", DOMAIN gathered = Ranks,
           NEW b \in 1 .. NumberOfBlocks(call.fileSize)
    PROVE  LET n == NumberOfBlocks(call.fileSize)
           IN  /\ GatherParts(n, gathered)[b] \in Pointers
               /\ \A r \in Ranks : \A i \in 1 .. EffectiveBlocks(n, r) :
                     b = Displ(n, r) + i => IsLocal(r, GatherParts(n, gathered)[b])
<1> DEFINE n == NumberOfBlocks(call.fileSize)
<1>1. TypeOK /\ WriteContributions
  BY DEF IndInv
<1>2. n \in Nat
  BY <1>1, NumberOfBlocksType DEF TypeOK, IORequests
<1> HIDE DEF n
<1>3. PICK o \in Ranks : o = OwnerOf(n, b) /\ b \in Share(n, o)
  BY <1>2, EveryBlockHasOwner DEF n
<1>4. /\ Displ(n, o) \in Nat /\ EffectiveBlocks(n, o) \in Nat
      /\ b - Displ(n, o) \in 1 .. EffectiveBlocks(n, o)
  <2>1. Displ(n, o) \in Nat /\ EffectiveBlocks(n, o) \in Nat
    BY <1>2, ShareType, MasterIsRank
  <2> QED BY <1>3, <2>1 DEF Share
<1>5. GatherParts(n, gathered)[b] = gathered[o][b - Displ(n, o)]
  BY <1>3 DEF GatherParts, n
<1>6. GatherParts(n, gathered)[b] \in Pointers /\ IsLocal(o, GatherParts(n, gathered)[b])
  <2>1. Len(gathered[o]) = EffectiveBlocks(n, o)
    BY <1>1 DEF WriteContributions, n
  <2>2. \A i \in 1 .. Len(gathered[o]) :
           gathered[o][i] \in Pointers /\ IsLocal(o, gathered[o][i])
    BY <1>1 DEF WriteContributions
  <2> QED BY <1>4, <1>5, <2>1, <2>2
<1>7. ASSUME NEW r \in Ranks, NEW i \in 1 .. EffectiveBlocks(n, r), b = Displ(n, r) + i
      PROVE  r = o
  <2>1. Displ(n, r) \in Nat /\ EffectiveBlocks(n, r) \in Nat
    BY <1>2, ShareType, MasterIsRank
  <2>2. b \in Share(n, r)
    BY <1>7, <2>1 DEF Share
  <2> QED BY <1>2, <1>3, <2>2, OwnerUnique
<1> QED BY <1>6, <1>7 DEF n

(* The list after addDataBlocksTo; the new entries have no data yet. *)
LEMMA GrownToType ==
    ASSUME NEW list \in Seq([rank : Ranks, data : Pointers]), NEW n \in Nat
    PROVE  LET grown == GrownTo(list, n)
           IN  /\ grown \in Seq([rank : Ranks, data : Pointers \cup {<<>>}])
               /\ Len(grown) \in Nat /\ n <= Len(grown) /\ Len(list) <= Len(grown)
               /\ \A b \in 1 .. Len(grown) : b > n => grown[b] \in [rank : Ranks, data : Pointers]
<1> DEFINE Listed == [rank : Ranks, data : Pointers]
           Fresh  == [rank : Ranks, data : Pointers \cup {<<>>}]
<1>1. list \in Seq(Fresh)
  BY SeqOfSubset
<1>2. Len(list) \in Nat
  BY LenProperties
<1>3. CASE n <= Len(list)
  <2>1. GrownTo(list, n) = list
    BY <1>3 DEF GrownTo
  <2>2. \A b \in 1 .. Len(list) : list[b] \in [rank : Ranks, data : Pointers]
    BY ElementOfSeq
  <2>3. Len(list) <= Len(list)
    BY <1>2
  <2> QED BY <1>1, <1>2, <1>3, <2>1, <2>2, <2>3, Zenon
<1>4. CASE ~(n <= Len(list))
  <2>1. PICK last : last = IF list = <<>> THEN 0 ELSE list[Len(list)].rank
    OBVIOUS
  <2>2. last \in Ranks
    <3>1. CASE list = <<>>
      BY <2>1, <3>1, MasterIsRank
    <3>2. CASE list # <<>>
      <4>1. Len(list) \in 1 .. Len(list)
        BY <1>2, <3>2, EmptySeq
      <4>2. list[Len(list)] \in Listed
        BY <4>1, ElementOfSeq
      <4> QED BY <2>1, <3>2, <4>2
    <3> QED BY <3>1, <3>2
  <2>3. PICK more : more = [i \in 1 .. n - Len(list) |->
                              [rank |-> (last + i - 1) % WorldSize, data |-> <<>>]]
    OBVIOUS
  <2>4. more \in [1 .. n - Len(list) -> Fresh]
    <3>1. ASSUME NEW i \in 1 .. n - Len(list)
          PROVE  (last + i - 1) % WorldSize \in Ranks
      BY <1>2, <2>2, StripingAssumption DEF Ranks
    <3> QED BY <2>3, <3>1
  <2>5. n - Len(list) \in Nat
    BY <1>2, <1>4
  <2>6. more \in Seq(Fresh) /\ Len(more) = n - Len(list)
    BY <2>4, <2>5, FunctionIsSeq
  <2>7. GrownTo(list, n) = list \o more
    BY <1>4, <2>1, <2>3 DEF GrownTo
  <2>8. list \o more \in Seq(Fresh) /\ Len(list \o more) = Len(list) + Len(more)
    BY <1>1, <2>6, ConcatProperties
  <2>9. Len(list \o more) = n
    BY <1>2, <2>6, <2>8
  <2>10. \A b \in 1 .. Len(list \o more) : ~(b > n)
    BY <2>9
  <2>11. n <= Len(list \o more) /\ Len(list) <= Len(list \o more)
    BY <1>2, <1>4, <2>9
  <2> QED BY <2>7, <2>8, <2>9, <2>10, <2>11
<1> QED BY <1>3, <1>4

(* The end of a flush: the addresses that came in replace those of old. *)
THEOREM WriteDoneStep ==
    ASSUME IndInv, WriteDone
    PROVE  IndInv'
<1> DEFINE Listed == [rank : Ranks, data : Pointers]
<1>1. TypeOK /\ WrittenIsListed /\ StripeOwnership
  BY DEF IndInv
<1>2. PICK ino \in INodes : ino = call.inode
  BY <1>1 DEF TypeOK, IORequests
<1>3. PICK n \in Nat : n = NumberOfBlocks(call.fileSize)
  BY <1>1, NumberOfBlocksType DEF TypeOK, IORequests
<1>4. PICK addresses : addresses = GatherParts(n, gathered)
  OBVIOUS
<1>5. PICK list : list = GrownTo(blockList[ino], n)
  OBVIOUS
<1>6. PICK new : new = [b \in DOMAIN list |->
                          IF b <= n THEN [list[b] EXCEPT !.data = addresses[b]] ELSE list[b]]
  OBVIOUS
<1>7. /\ mpc = "write" /\ mpc' = "loop"
      /\ DOMAIN gathered = Ranks
      /\ blockList' = [blockList EXCEPT ![ino] = new]
      /\ written' = [written EXCEPT ![ino] = n]
      /\ gathered' = [r \in {} |-> <<>>]
      /\ UNCHANGED <<call, readBuff, requests, comm, nodeVars, heap, aborted>>
  BY <1>2, <1>3, <1>4, <1>5, <1>6, Zenon DEF WriteDone
<1>8. /\ WellFormedCalls' /\ NodesFollow' /\ OneGatherAtATime'
      /\ WriteContributions' /\ ReadContributions'
      /\ DOMAIN gathered' = {}
      /\ gathered' \in [DOMAIN gathered' -> Seq(Blobs \cup {Garbage})]
  BY <1>7, GatherEnds DEF Gathering
<1>9. /\ list \in Seq([rank : Ranks, data : Pointers \cup {<<>>}])
      /\ Len(list) \in Nat /\ n <= Len(list)
      /\ \A b \in 1 .. Len(list) : b > n => list[b] \in Listed
      /\ DOMAIN list = 1 .. Len(list)
  <2>1. blockList[ino] \in Seq(Listed)
    BY <1>1 DEF TypeOK
  <2> QED BY <1>5, <2>1, GrownToType, LenProperties
<1>10. ASSUME NEW b \in 1 .. n
       PROVE  /\ addresses[b] \in Pointers
              /\ \A r \in Ranks : \A i \in 1 .. EffectiveBlocks(n, r) :
                    b = Displ(n, r) + i => IsLocal(r, addresses[b])
  BY <1>3, <1>4, <1>7, GatheredAddresses
<1>11. ASSUME NEW b \in 1 .. Len(list)
       PROVE  new[b] \in Listed /\ (b <= n => new[b].data = addresses[b])
  <2>1. list[b] \in [rank : Ranks, data : Pointers \cup {<<>>}]
    BY <1>9, ElementOfSeq
  <2>2. CASE b <= n
    <3>1. new[b] = [list[b] EXCEPT !.data = addresses[b]]
      BY <1>6, <1>9, <2>2
    <3>2. addresses[b] \in Pointers
      BY <1>10, <2>2
    <3> QED BY <2>1, <3>1, <3>2
  <2>3. CASE ~(b <= n)
    <3>1. new[b] = list[b]
      BY <1>6, <1>9, <2>3
    <3> QED BY <1>9, <2>3, <3>1
  <2> QED BY <2>2, <2>3
<1>12. new \in Seq(Listed) /\ Len(new) = Len(list)
  <2>1. new \in [1 .. Len(list) -> Listed]
    BY <1>6, <1>9, <1>11
  <2> QED BY <1>9, <2>1, FunctionIsSeq
<1>13. TypeOK'
  <2>1. blockList' \in [INodes -> Seq(Listed)] /\ written' \in [INodes -> Nat]
    BY <1>1, <1>7, <1>12 DEF TypeOK
  <2> QED BY <1>1, <1>7, <1>8, <2>1 DEF TypeOK, nodeVars
<1>14. /\ blockList'[ino] = new /\ written'[ino] = n
       /\ \A other \in INodes : other # ino => /\ blockList'[other] = blockList[other]
                                               /\ written'[other] = written[other]
  BY <1>1, <1>7 DEF TypeOK
<1>15. WrittenIsListed'
  BY <1>1, <1>9, <1>12, <1>14 DEF WrittenIsListed
<1>16. StripeOwnership'
  <2> SUFFICES ASSUME NEW file \in INodes, NEW r \in Ranks,
                      NEW i \in 1 .. EffectiveBlocks(written'[file], r)
               PROVE  IsLocal(r, blockList'[file][Displ(written'[file], r) + i].data)
    BY <1>7 DEF StripeOwnership, IsLocal
  <2>1. CASE file = ino
    <3>1. EffectiveBlocks(n, r) \in Nat /\ Displ(n, r) \in Nat
          /\ Displ(n, r) + EffectiveBlocks(n, r) <= n
      BY ShareType, ShareInFile, MasterIsRank
    <3>2. PICK b \in 1 .. n : b = Displ(n, r) + i
      BY <1>14, <2>1, <3>1
    <3>3. new[b].data = addresses[b]
      BY <1>9, <1>11
    <3>4. IsLocal(r, addresses[b])
      BY <1>10, <1>14, <2>1, <3>2
    <3> QED BY <1>14, <2>1, <3>2, <3>3, <3>4
  <2>2. CASE file # ino
    BY <1>1, <1>14, <2>2 DEF StripeOwnership
  <2> QED BY <2>1, <2>2
<1> QED BY <1>8, <1>13, <1>15, <1>16 DEF IndInv
-----------------------------------------------------------------------------
(* Every step preserves the invariant. *)
THEOREM NextIndInv == IndInv /\ [Next]_vars => IndInv'
<1> SUFFICES ASSUME IndInv, [Next]_vars PROVE IndInv'
  OBVIOUS
<1>1. CASE Mount
  BY <1>1, RequestCall DEF Mount, Gathering
<1>2. CASE SendTermination
  BY <1>2, RequestCall DEF SendTermination, Gathering
<1>3. CASE Serve
  <2>1. PICK ino \in INodes, size \in FileSizes :
           WriteCall(ino, size) \/ ReadCallEmpty(ino, size) \/ ReadCall(ino, size)
    BY <1>3 DEF Serve
  <2> QED BY <2>1, WriteCallStep, EmptyRead, ReadCallStep
<1>4. CASE WriteDone
  BY <1>4, WriteDoneStep
<1>5. CASE ReadDone
  BY <1>5, ReadDoneStep
<1>6. CASE MountFails \/ StartFails \/ Unmount \/ ReadFaults
  BY <1>6, QuietSteps
<1>7. CASE \E r \in Nodes : NodeNext(r)
  <2>1. PICK r \in Nodes : NodeNext(r)
    BY <1>7
  <2> QED BY <2>1, NodeRequestStep, NodeIORequestStep, NodeWriteStep, NodeReadStep,
             QuietSteps DEF NodeNext
<1>8. CASE Terminating \/ UNCHANGED vars
  BY <1>8, QuietSteps DEF Terminating
<1> QED BY <1>1, <1>2, <1>3, <1>4, <1>5, <1>6, <1>7, <1>8 DEF Next, MasterNext

THEOREM Invariance == Spec => []IndInv
  BY InitIndInv, NextIndInv, PTL DEF Spec

(* The type invariant. *)
THEOREM TypeCorrect == Spec => []TypeOK
<1>1. IndInv => TypeOK
  BY DEF IndInv
<1> QED BY <1>1, Invariance, PTL

(* Each rank's share of every file is in that rank's own memory: the      *)
(* master's list and the stripe, which no one stores, cannot come apart.   *)
THEOREM SharesStayWithTheirOwner == Spec => []StripeOwnership
<1>1. IndInv => StripeOwnership
  BY DEF IndInv
<1> QED BY <1>1, Invariance, PTL

(* However far the nodes lag behind, the collectives of DAGonFS_Write,     *)
(* DAGonFS_Read and start meet their counterparts: kind, count and Gatherv. *)
THEOREM CollectivesAlwaysMatch == Spec => []CollectivesMatch
<1>1. ASSUME IndInv, NEW r \in Nodes, pos[r] < Len(comm)
      PROVE  /\ NextCall(r).kind = KindFor(npc[r])
             /\ NextCall(r).kind = "Scatterv" =>
                   /\ Len(NextCall(r).parts) = NodeBlocks(r)
                   /\ r \notin DOMAIN gathered
                   /\ mpc = npc[r]
  BY <1>1, NodePosition, NodeAtScatterv
<1>2. IndInv => CollectivesMatch
  BY <1>1 DEF CollectivesMatch
<1> QED BY <1>2, Invariance, PTL
-----------------------------------------------------------------------------
(* The data: what the contributions of a Gatherv stand for.                *)

(* What was malloc'ed is never written again. *)
LEMMA HeapKeeps ==
    ASSUME TypeOK, NEW r \in Ranks, NEW share \in Seq(Blobs),
           heap' = [heap EXCEPT ![r] = @ \o share]
    PROVE  /\ \A s \in Ranks : \A id \in 1 .. Len(heap[s]) : heap'[s][id] = heap[s][id]
           /\ \A i \in 1 .. Len(share) : heap'[r][Len(heap[r]) + i] = share[i]
<1>1. heap \in [Ranks -> Seq(Blobs)] /\ heap[r] \in Seq(Blobs)
  BY DEF TypeOK
<1>2. heap'[r] = heap[r] \o share /\ \A s \in Ranks : s # r => heap'[s] = heap[s]
  BY <1>1
<1>3. Len(heap[r]) \in Nat /\ Len(share) \in Nat
  BY <1>1, LenProperties
<1>4. /\ \A id \in 1 .. Len(heap[r]) : (heap[r] \o share)[id] = heap[r][id]
      /\ \A i \in 1 .. Len(share) : (heap[r] \o share)[Len(heap[r]) + i] = share[i]
  BY <1>1, <1>3
<1> QED BY <1>2, <1>4

(* Block b of a file, as the last write dealt it. *)
LEMMA OwnedBlock ==
    ASSUME IndInv, NEW ino \in INodes, NEW r \in Ranks, NEW i \in 1 .. EffectiveBlocks(written[ino], r)
    PROVE  LET b == Displ(written[ino], r) + i
               address == blockList[ino][b].data
           IN  /\ b \in 1 .. written[ino] /\ b \in 1 .. Len(blockList[ino])
               /\ address \in Pointers /\ IsLocal(r, address)
               /\ StoredBlocks(ino)[b] = heap[r][address.id]
<1>1. TypeOK /\ StripeOwnership /\ WrittenIsListed
  BY DEF IndInv
<1>2. written[ino] \in Nat /\ Len(blockList[ino]) \in Nat /\ written[ino] <= Len(blockList[ino])
      /\ blockList[ino] \in Seq([rank : Ranks, data : Pointers])
  BY <1>1, LenProperties DEF TypeOK, WrittenIsListed
<1>3. PICK b : b = Displ(written[ino], r) + i
  OBVIOUS
<1>4. b \in 1 .. written[ino] /\ b \in 1 .. Len(blockList[ino])
  <2>1. /\ Displ(written[ino], r) \in Nat /\ EffectiveBlocks(written[ino], r) \in Nat
        /\ Displ(written[ino], r) + EffectiveBlocks(written[ino], r) <= written[ino]
    BY <1>2, ShareType, ShareInFile, MasterIsRank
  <2> QED BY <1>2, <1>3, <2>1
<1>5. blockList[ino][b].data \in Pointers
  <2>1. blockList[ino][b] \in [rank : Ranks, data : Pointers]
    BY <1>2, <1>4, ElementOfSeq
  <2> QED BY <2>1
<1>6. IsLocal(r, blockList[ino][b].data)
  BY <1>1, <1>3 DEF StripeOwnership
<1>7. StoredBlocks(ino)[b] = heap[r][blockList[ino][b].data.id]
  BY <1>4, <1>6 DEF StoredBlocks, IsLocal
<1> QED BY <1>3, <1>4, <1>5, <1>6, <1>7

(* Every block of a file lies in the share of some rank. *)
LEMMA BlockInShare ==
    ASSUME NEW n \in Nat, NEW b \in 1 .. n
    PROVE  \E r \in Ranks : \E i \in 1 .. EffectiveBlocks(n, r) : b = Displ(n, r) + i /\ OwnerOf(n, b) = r
<1>1. PICK r \in Ranks : r = OwnerOf(n, b) /\ b \in Share(n, r)
  BY EveryBlockHasOwner
<1>2. Displ(n, r) \in Nat /\ EffectiveBlocks(n, r) \in Nat
  BY ShareType, MasterIsRank
<1>3. b - Displ(n, r) \in 1 .. EffectiveBlocks(n, r) /\ b = Displ(n, r) + (b - Displ(n, r))
  BY <1>1, <1>2 DEF Share
<1> QED BY <1>1, <1>3

(* A write or read under way leaves the contents of all files as they are. *)
LEMMA ContentsStay ==
    ASSUME IndInv, UNCHANGED <<blockList, written>>,
           \A s \in Ranks : \A id \in 1 .. Len(heap[s]) : heap'[s][id] = heap[s][id]
    PROVE  \A ino \in INodes : StoredBlocks(ino)' = StoredBlocks(ino)
<1> SUFFICES ASSUME NEW ino \in INodes PROVE StoredBlocks(ino)' = StoredBlocks(ino)
  OBVIOUS
<1>1. written[ino] \in Nat
  BY DEF IndInv, TypeOK
<1>2. ASSUME NEW b \in 1 .. written[ino]
      PROVE  heap'[blockList[ino][b].data.rank][blockList[ino][b].data.id]
             = heap[blockList[ino][b].data.rank][blockList[ino][b].data.id]
  <2>1. PICK r \in Ranks : \E i \in 1 .. EffectiveBlocks(written[ino], r) : b = Displ(written[ino], r) + i
    BY <1>1, BlockInShare
  <2>2. IsLocal(r, blockList[ino][b].data)
    BY <2>1, OwnedBlock
  <2> QED BY <2>2 DEF IsLocal
<1>3. PICK stored : stored = [b \in 1 .. written[ino] |->
                        heap[blockList[ino][b].data.rank][blockList[ino][b].data.id]]
  OBVIOUS
<1>4. StoredBlocks(ino) = stored
  BY <1>3 DEF StoredBlocks
<1>5. StoredBlocks(ino)' = [b \in 1 .. written[ino] |->
                        heap'[blockList[ino][b].data.rank][blockList[ino][b].data.id]]
  BY DEF StoredBlocks
<1> QED BY <1>2, <1>3, <1>4, <1>5
-----------------------------------------------------------------------------
LEMMA InitData == Init => DataInv
  BY SMTT(30) DEF Init, DataInv, SameInode, Gathering, WriteStored, ReadFetched, ListIsRecorded

(* Steps that touch neither the data nor a Gatherv under way. *)
LEMMA DataStill ==
    ASSUME DataInv,
           UNCHANGED <<heap, blockList, written, dataBlockPointers, gathered>>,
           mpc' \in {"write", "read"} => UNCHANGED <<mpc, call, comm, requests>>
    PROVE  DataInv'
<1>1. SameInode' /\ WriteStored'
  BY DEF DataInv, SameInode, Gathering, WriteStored, Recorded
<1>2. ListIsRecorded'
  BY DEF DataInv, ListIsRecorded, Recorded
<1>3. ReadFetched'
  <2> SUFFICES ASSUME mpc' = "read" PROVE ReadFetched'
    BY DEF ReadFetched
  <2>1. UNCHANGED <<mpc, call, heap, blockList, written, gathered>>
    OBVIOUS
  <2>2. StoredBlocks(call.inode)' = StoredBlocks(call.inode)
    BY <2>1 DEF StoredBlocks
  <2> QED BY <2>1, <2>2 DEF DataInv, ReadFetched
<1> QED BY <1>1, <1>2, <1>3 DEF DataInv

LEMMA QuietData ==
    ASSUME IndInv, DataInv,
           \/ Mount \/ MountFails \/ StartFails \/ Unmount \/ SendTermination \/ ReadFaults
           \/ \E ino \in INodes, size \in FileSizes : ReadCallEmpty(ino, size)
           \/ \E r \in Nodes : NodeRequest(r) \/ NodeIORequest(r) \/ NodeReadFaults(r)
           \/ UNCHANGED vars
    PROVE  DataInv'
<1>1. CASE Mount \/ MountFails \/ StartFails \/ Unmount \/ SendTermination
  BY <1>1, DataStill DEF Mount, MountFails, StartFails, Unmount, SendTermination, nodeVars
<1>2. CASE ReadFaults \/ UNCHANGED vars
  BY <1>2, DataStill DEF ReadFaults, vars, masterVars, nodeVars
<1>3. CASE \E ino \in INodes, size \in FileSizes : ReadCallEmpty(ino, size)
  BY <1>3, DataStill DEF ReadCallEmpty, nodeVars
<1>4. CASE \E r \in Nodes : NodeRequest(r) \/ NodeIORequest(r) \/ NodeReadFaults(r)
  <2>1. UNCHANGED <<dataBlockPointers, masterVars, comm, gathered, heap>>
    BY <1>4, Zenon DEF NodeRequest, NodeIORequest, NodeReadFaults, nodeVars
  <2> QED BY <2>1, DataStill DEF masterVars
<1> QED BY <1>1, <1>2, <1>3, <1>4

(* The master's share of a write, stored and noted by the master itself. *)
LEMMA WriteCallData ==
    ASSUME IndInv, DataInv, NEW ino \in INodes, NEW size \in FileSizes, WriteCall(ino, size)
    PROVE  DataInv' /\ \A f \in INodes : StoredBlocks(f)' = StoredBlocks(f)
<1>1. TypeOK /\ OneGatherAtATime
  BY DEF IndInv
<1>2. size \in Nat /\ requests + 1 \in Nat
  BY <1>1, ClientServerAssumption DEF TypeOK
<1>3. PICK n \in Nat : n = NumberOfBlocks(size)
  BY <1>2, NumberOfBlocksType
<1>4. PICK buffer \in Seq(Blobs) : buffer = Buffer(requests + 1, n) /\ Len(buffer) = n
  BY <1>2, BufferType
<1>5. PICK share : share = ScatterPart(buffer, Master)
  OBVIOUS
<1>6. /\ share \in Seq(Blobs) /\ Len(share) = EffectiveBlocks(n, 0)
      /\ \A i \in 1 .. EffectiveBlocks(n, 0) :
            share[i] = buffer[Displ(n, 0) + i] /\ Displ(n, 0) + i \in 1 .. n
  BY <1>4, <1>5, ScatterPartType, MasterIsRank
<1>7. PICK addresses : addresses = NewAddresses(0, Len(share))
  OBVIOUS
<1>8. /\ mpc = "loop" /\ mpc' = "write"
      /\ requests' = requests + 1
      /\ call' = [inode |-> ino, fileSize |-> size]
      /\ comm' = comm \o <<Request("WRITE"), IORequest(ino, size), Scatterv(buffer)>>
      /\ heap' = [heap EXCEPT ![0] = @ \o share]
      /\ gathered' = [s \in DOMAIN gathered \cup {0} |-> IF s = 0 THEN addresses ELSE gathered[s]]
      /\ UNCHANGED <<blockList, readBuff, written, nodeVars, aborted>>
  BY <1>3, <1>4, <1>5, <1>7 DEF WriteCall, Contribute
<1>9. DOMAIN gathered = {} /\ DOMAIN gathered' = {0} /\ gathered'[0] = addresses
  BY <1>1, <1>8 DEF OneGatherAtATime, Gathering
<1>10. comm'[Len(comm')] = Scatterv(buffer) /\ comm'[Len(comm') - 1] = IORequest(ino, size)
  <2>1. comm \in Seq(Entries) /\ Len(comm) \in Nat
    BY <1>1, LenProperties DEF TypeOK
  <2>2. \A a, b, c : LET s == comm \o <<a, b, c>> IN s[Len(s)] = c /\ s[Len(s) - 1] = b
    BY <2>1
  <2> QED BY <1>8, <2>2
<1>11. /\ \A s \in Ranks : \A id \in 1 .. Len(heap[s]) : heap'[s][id] = heap[s][id]
       /\ \A i \in 1 .. Len(share) : heap'[0][Len(heap[0]) + i] = share[i]
  BY <1>1, <1>6, <1>8, HeapKeeps, MasterIsRank
<1>12. SameInode'
  BY <1>8, <1>10 DEF SameInode, IORequest
<1>13. WriteStored'
  <2>1. \A i \in 1 .. EffectiveBlocks(n, 0) :
           heap'[0][addresses[i].id] = [write |-> requests + 1, block |-> Displ(n, 0) + i]
    <3> SUFFICES ASSUME NEW i \in 1 .. EffectiveBlocks(n, 0)
                 PROVE  heap'[0][addresses[i].id] = [write |-> requests + 1, block |-> Displ(n, 0) + i]
      OBVIOUS
    <3>1. addresses[i].id = Len(heap[0]) + i
      <4>1. addresses[i] = [rank |-> 0, id |-> Len(heap[0]) + i]
        BY <1>6, <1>7 DEF NewAddresses
      <4> QED BY <4>1
    <3>2. heap'[0][addresses[i].id] = buffer[Displ(n, 0) + i]
      BY <1>6, <1>11, <3>1
    <3> QED BY <1>4, <1>6, <3>2 DEF Buffer
  <2>2. comm'[Len(comm')].parts = Buffer(requests', n)
    BY <1>4, <1>8, <1>10 DEF Scatterv
  <2>3. NumberOfBlocks(call'.fileSize) = n
    BY <1>3, <1>8
  <2> QED BY <1>8, <1>9, <2>1, <2>2, <2>3 DEF WriteStored
<1>14. ReadFetched'
  BY <1>8 DEF ReadFetched
<1>15. ListIsRecorded'
  BY <1>8 DEF DataInv, ListIsRecorded, Recorded, nodeVars
<1>16. \A f \in INodes : StoredBlocks(f)' = StoredBlocks(f)
  BY <1>8, <1>11, ContentsStay
<1> QED BY <1>12, <1>13, <1>14, <1>15, <1>16 DEF DataInv
(* The pointers of a read for what was last written lead to the contents.  *)
LEMMA FetchedShare ==
    ASSUME IndInv, NEW ino \in INodes, NEW size \in Nat,
           NEW n \in Nat, n = NumberOfBlocks(size), n = written[ino],
           NEW r \in Ranks, NEW i \in 1 .. EffectiveBlocks(n, r),
           NEW b \in Nat, b = Displ(n, r) + i
    PROVE  /\ IsLocal(r, PointersFor(ino, size)[b])
           /\ Deref(r, PointersFor(ino, size)[b]) = StoredBlocks(ino)[b]
<1>1. b = Displ(written[ino], r) + i
  OBVIOUS
<1>2. PICK address : address = blockList[ino][b].data
  OBVIOUS
<1>3. /\ b \in 1 .. written[ino] /\ b \in 1 .. Len(blockList[ino])
      /\ IsLocal(r, address) /\ StoredBlocks(ino)[b] = heap[r][address.id]
  BY <1>1, <1>2, OwnedBlock
<1>4. PointersFor(ino, size)[b] = address
  <2>1. PointersFor(ino, size)[b] = PointerOf(ino, b)
    BY <1>3, PointersForType DEF IndInv
  <2>2. b <= Len(blockList[ino])
    <3>1. Len(blockList[ino]) \in Nat
      BY LenProperties DEF IndInv, TypeOK
    <3> QED BY <1>3, <3>1
  <2> QED BY <1>2, <2>1, <2>2 DEF PointerOf
<1> QED BY <1>1, <1>3, <1>4 DEF Deref

LEMMA ReadCallData ==
    ASSUME IndInv, DataInv, NEW ino \in INodes, NEW size \in FileSizes, ReadCall(ino, size)
    PROVE  DataInv'
<1>1. TypeOK /\ OneGatherAtATime
  BY DEF IndInv
<1>2. size \in Nat
  BY ClientServerAssumption
<1>3. PICK n \in Nat : n = NumberOfBlocks(size)
  BY <1>2, NumberOfBlocksType
<1>4. PICK pointers : /\ pointers = PointersFor(ino, size)
                      /\ pointers \in Seq(Pointers) /\ Len(pointers) = n
  BY <1>1, <1>2, <1>3, PointersForType
<1>5. PICK share : share = ScatterPart(pointers, 0)
  OBVIOUS
<1>6. /\ DOMAIN share = 1 .. EffectiveBlocks(n, 0)
      /\ \A i \in 1 .. EffectiveBlocks(n, 0) : share[i] = pointers[Displ(n, 0) + i]
  BY <1>4, <1>5, ScatterPartType, MasterIsRank
<1>7. PICK data : data = [i \in DOMAIN share |-> Deref(0, share[i])]
  OBVIOUS
<1>8. /\ mpc = "loop" /\ mpc' = "read"
      /\ call' = [inode |-> ino, fileSize |-> size]
      /\ comm' = comm \o <<Request("READ"), IORequest(ino, size), Scatterv(pointers)>>
      /\ gathered' = [s \in DOMAIN gathered \cup {0} |-> IF s = 0 THEN data ELSE gathered[s]]
      /\ UNCHANGED <<blockList, readBuff, written, nodeVars, heap, aborted>>
  BY <1>4, <1>5, <1>7 DEF ReadCall, Contribute
<1>9. DOMAIN gathered = {} /\ DOMAIN gathered' = {0} /\ gathered'[0] = data
  BY <1>1, <1>8 DEF OneGatherAtATime, Gathering
<1>10. SameInode'
  <2>1. comm \in Seq(Entries) /\ Len(comm) \in Nat
    BY <1>1, LenProperties DEF TypeOK
  <2>2. \A a, b, c : LET s == comm \o <<a, b, c>> IN s[Len(s) - 1] = b
    BY <2>1
  <2>3. comm'[Len(comm') - 1] = IORequest(ino, size)
    BY <1>8, <2>2
  <2> QED BY <1>8, <2>3 DEF SameInode, IORequest
<1>11. WriteStored'
  BY <1>8 DEF WriteStored
<1>12. ReadFetched'
  <2>1. StoredBlocks(ino)' = StoredBlocks(ino)
    BY <1>8 DEF StoredBlocks
  <2>2. ASSUME n = written[ino], NEW i \in 1 .. EffectiveBlocks(n, 0)
        PROVE  data[i] = StoredBlocks(ino)[Displ(n, 0) + i]
    <3>1. data[i] = Deref(0, pointers[Displ(n, 0) + i])
      BY <1>6, <1>7
    <3>2. Deref(0, PointersFor(ino, size)[Displ(n, 0) + i]) = StoredBlocks(ino)[Displ(n, 0) + i]
      <4>1. 0 \in Ranks
        BY MasterIsRank
      <4>2. PICK b \in Nat : b = Displ(n, 0) + i
        <5>1. Displ(n, 0) \in Nat /\ EffectiveBlocks(n, 0) \in Nat
          BY ShareType
        <5> QED BY <5>1
      <4>3. Deref(0, PointersFor(ino, size)[b]) = StoredBlocks(ino)[b]
        BY <1>2, <1>3, <2>2, <4>1, <4>2, FetchedShare
      <4> QED BY <4>2, <4>3
    <3> QED BY <1>4, <3>1, <3>2
  <2>3. call'.inode = ino /\ NumberOfBlocks(call'.fileSize) = n /\ written' = written
    BY <1>3, <1>8
  <2>4. StoredBlocks(call.inode)' = StoredBlocks(ino)
    BY <2>1, <2>3 DEF StoredBlocks
  <2> QED BY <1>9, <2>2, <2>3, <2>4 DEF ReadFetched
<1>13. ListIsRecorded'
  BY <1>8 DEF DataInv, ListIsRecorded, Recorded, nodeVars
<1> QED BY <1>10, <1>11, <1>12, <1>13 DEF DataInv

(* A node in the last Scatterv works for the call under way. *)
LEMMA NodeInode ==
    ASSUME IndInv, SameInode, NEW r \in Nodes, Receives(r, "Scatterv")
    PROVE  /\ nreq[r].inode = call.inode
           /\ NextCall(r).parts = comm[Len(comm)].parts
<1>1. pos[r] + 1 = Len(comm) /\ Gathering /\ npc[r] = mpc
  BY NodeAtScatterv DEF Receives
<1>2. pos[r] \in Nat
  BY DEF IndInv, TypeOK
<1>3. nreq[r] = [inode |-> comm[pos[r]].inode, fileSize |-> comm[pos[r]].fileSize]
  BY <1>1 DEF IndInv, NodesFollow, Gathering
<1>4. pos[r] = Len(comm) - 1
  BY <1>1, <1>2
<1>5. nreq[r].inode = comm[Len(comm) - 1].inode
  BY <1>3, <1>4
<1> QED BY <1>1, <1>5 DEF SameInode, NextCall

LEMMA NodeWriteData ==
    ASSUME IndInv, DataInv, NEW r \in Nodes, NodeWrite(r)
    PROVE  DataInv' /\ \A f \in INodes : StoredBlocks(f)' = StoredBlocks(f)
<1>1. TypeOK /\ OneGatherAtATime /\ WriteContributions /\ r \in Ranks /\ r # 0
  BY MasterIsRank DEF IndInv, Nodes
<1>2. npc[r] = "write" /\ Receives(r, "Scatterv")
  BY DEF NodeWrite
<1>3. mpc = "write" /\ r \notin DOMAIN gathered
  BY <1>2, NodeAtScatterv DEF Receives
<1>4. PICK ino \in INodes : ino = call.inode /\ nreq[r].inode = ino
  BY <1>1, <1>2, NodeInode DEF TypeOK, IORequests, DataInv
<1>5. PICK n \in Nat : n = NumberOfBlocks(call.fileSize)
  BY <1>1, NumberOfBlocksType DEF TypeOK, IORequests
<1>6. PICK share : share = NodeShare(r)
  OBVIOUS
<1>7. /\ share \in Seq(Blobs) /\ Len(share) = EffectiveBlocks(n, r)
      /\ \A i \in 1 .. EffectiveBlocks(n, r) :
            /\ share[i] = NextCall(r).parts[Displ(n, r) + i]
            /\ Displ(n, r) + i \in 1 .. n
  BY <1>2, <1>5, <1>6, NodeShareType DEF Receives
<1>8. PICK addresses : addresses = NewAddresses(r, Len(share))
  OBVIOUS
<1>9. /\ heap' = [heap EXCEPT ![r] = @ \o share]
      /\ gathered' = [s \in DOMAIN gathered \cup {r} |->
                         IF s = r THEN addresses ELSE gathered[s]]
      /\ dataBlockPointers' = [dataBlockPointers EXCEPT ![r][ino] = @ \o addresses]
      /\ UNCHANGED <<nreq, masterVars, comm, aborted>>
  BY <1>4, <1>6, <1>8 DEF NodeWrite, Contribute
<1>10. /\ Len(share) \in Nat
       /\ addresses \in Seq(Pointers) /\ Len(addresses) = Len(share)
       /\ \A i \in 1 .. Len(share) : addresses[i] = [rank |-> r, id |-> Len(heap[r]) + i]
  BY <1>1, <1>7, <1>8, NewAddressesType, LenProperties
<1>11. /\ \A s \in Ranks : \A id \in 1 .. Len(heap[s]) : heap'[s][id] = heap[s][id]
       /\ \A i \in 1 .. Len(share) : heap'[r][Len(heap[r]) + i] = share[i]
  BY <1>1, <1>7, <1>9, HeapKeeps
<1>12. UNCHANGED <<mpc, call, blockList, written, requests>>
  BY <1>9 DEF masterVars
<1>13. SameInode'
  BY <1>9, <1>12 DEF DataInv, SameInode, Gathering
<1> DEFINE RecordedThen(s, f, a) == \E i \in DOMAIN dataBlockPointers'[s][f] :
                                        dataBlockPointers'[s][f][i] = a
<1>14. /\ \A s \in Nodes, f \in INodes : \A a : Recorded(s, f, a) => RecordedThen(s, f, a)
       /\ \A i \in 1 .. EffectiveBlocks(n, r) : RecordedThen(r, ino, addresses[i])
  <2>1. dataBlockPointers \in [Nodes -> [INodes -> Seq(Pointers)]]
    BY <1>1 DEF TypeOK
  <2>2. dataBlockPointers[r][ino] \in Seq(Pointers)
    BY <2>1
  <2>3. dataBlockPointers'[r][ino] = dataBlockPointers[r][ino] \o addresses
    BY <1>9, <2>1
  <2>4. \A s \in Nodes, f \in INodes :
           ~(s = r /\ f = ino) => dataBlockPointers'[s][f] = dataBlockPointers[s][f]
    BY <1>9, <2>1
  <2>5. PICK old \in Seq(Pointers) : old = dataBlockPointers[r][ino]
    BY <2>2
  <2>6. /\ Len(old) \in Nat
        /\ \A i \in DOMAIN old : i \in DOMAIN (old \o addresses) /\ (old \o addresses)[i] = old[i]
        /\ \A i \in 1 .. Len(addresses) : /\ Len(old) + i \in DOMAIN (old \o addresses)
                                          /\ (old \o addresses)[Len(old) + i] = addresses[i]
    <3>1. Len(old) \in Nat /\ Len(addresses) \in Nat /\ DOMAIN old = 1 .. Len(old)
      BY <1>10, <2>5, LenProperties
    <3>2. /\ old \o addresses \in Seq(Pointers)
          /\ Len(old \o addresses) = Len(old) + Len(addresses)
          /\ \A i \in 1 .. Len(old) + Len(addresses) :
                (old \o addresses)[i] = IF i <= Len(old) THEN old[i] ELSE addresses[i - Len(old)]
      <4>1. \A S : \A x, y \in Seq(S) :
               /\ x \o y \in Seq(S) /\ Len(x \o y) = Len(x) + Len(y)
               /\ \A i \in 1 .. Len(x) + Len(y) :
                     (x \o y)[i] = IF i <= Len(x) THEN x[i] ELSE y[i - Len(x)]
        BY ConcatProperties
      <4>2. old \in Seq(Pointers) /\ addresses \in Seq(Pointers)
        BY <1>10, <2>5
      <4> QED BY <4>1, <4>2
    <3>3. DOMAIN (old \o addresses) = 1 .. Len(old) + Len(addresses)
      BY <3>2, LenProperties
    <3>4. ASSUME NEW i \in 1 .. Len(addresses)
          PROVE  Len(old) + i \in DOMAIN (old \o addresses)
                 /\ (old \o addresses)[Len(old) + i] = addresses[i]
      BY <3>1, <3>2, <3>3
    <3> QED BY <3>1, <3>2, <3>3, <3>4
  <2>7. ASSUME NEW s \in Nodes, NEW f \in INodes, NEW a, Recorded(s, f, a)
        PROVE  RecordedThen(s, f, a)
    <3>1. CASE s = r /\ f = ino
      BY <2>3, <2>5, <2>6, <2>7, <3>1 DEF Recorded
    <3>2. CASE ~(s = r /\ f = ino)
      BY <2>4, <2>7, <3>2 DEF Recorded
    <3> QED BY <3>1, <3>2
  <2>8. \A i \in 1 .. EffectiveBlocks(n, r) : RecordedThen(r, ino, addresses[i])
    BY <1>7, <1>10, <2>3, <2>5, <2>6 DEF Recorded
  <2> QED BY <2>7, <2>8
<1>15. WriteStored'
  <2>1. /\ comm[Len(comm)].parts = Buffer(requests, n)
        /\ \A s \in DOMAIN gathered : \A i \in 1 .. EffectiveBlocks(n, s) :
              /\ heap[s][gathered[s][i].id] = [write |-> requests, block |-> Displ(n, s) + i]
              /\ s # 0 => Recorded(s, ino, gathered[s][i])
    BY <1>3, <1>4, <1>5 DEF DataInv, WriteStored
  <2>2. ASSUME NEW s \in DOMAIN gathered, NEW i \in 1 .. EffectiveBlocks(n, s)
        PROVE  /\ heap'[s][gathered[s][i].id] = [write |-> requests, block |-> Displ(n, s) + i]
               /\ s # 0 => RecordedThen(s, ino, gathered[s][i])
    <3>1. s \in Ranks /\ (s # 0 => s \in Nodes)
      BY <1>1 DEF TypeOK, Nodes
    <3>2. IsLocal(s, gathered[s][i])
      BY <1>1, <1>3, <1>5 DEF WriteContributions
    <3> QED BY <1>11, <1>14, <2>1, <3>1, <3>2 DEF IsLocal
  <2>3. ASSUME NEW i \in 1 .. EffectiveBlocks(n, r)
        PROVE  heap'[r][addresses[i].id] = [write |-> requests, block |-> Displ(n, r) + i]
    <3>1. heap'[r][addresses[i].id] = share[i]
      <4>1. addresses[i] = [rank |-> r, id |-> Len(heap[r]) + i]
        BY <1>7, <1>10
      <4>2. addresses[i].id = Len(heap[r]) + i
        BY <4>1
      <4> QED BY <1>7, <1>11, <4>2
    <3>2. share[i] = Buffer(requests, n)[Displ(n, r) + i] /\ Displ(n, r) + i \in 1 .. n
      BY <1>1, <1>2, <1>7, <2>1, NodeInode DEF DataInv
    <3> QED BY <3>1, <3>2 DEF Buffer
  <2>4. ASSUME NEW s \in DOMAIN gathered', NEW i \in 1 .. EffectiveBlocks(n, s)
        PROVE  /\ heap'[s][gathered'[s][i].id] = [write |-> requests, block |-> Displ(n, s) + i]
               /\ s # 0 => RecordedThen(s, ino, gathered'[s][i])
    <3>1. CASE s = r
      <4>1. gathered'[s] = addresses
        BY <1>9, <3>1
      <4> QED BY <1>14, <2>3, <2>4, <3>1, <4>1
    <3>2. CASE s # r
      <4>1. s \in DOMAIN gathered /\ gathered'[s] = gathered[s]
        BY <1>9, <3>2
      <4> QED BY <2>2, <4>1
    <3> QED BY <3>1, <3>2
  <2>5. comm'[Len(comm')].parts = Buffer(requests', n)
    BY <1>9, <1>12, <2>1
  <2> QED BY <1>3, <1>4, <1>5, <1>12, <2>4, <2>5 DEF WriteStored, Recorded
<1>16. ReadFetched'
  BY <1>3, <1>12 DEF ReadFetched
<1>17. ListIsRecorded'
  <2> SUFFICES ASSUME NEW f \in INodes, NEW b \in DOMAIN blockList[f]
               PROVE  /\ blockList[f][b].data.rank \in Ranks
                      /\ blockList[f][b].data.rank # 0 =>
                            RecordedThen(blockList[f][b].data.rank, f, blockList[f][b].data)
    BY <1>12 DEF ListIsRecorded, Recorded
  <2>1. /\ blockList[f][b].data.rank \in Ranks
        /\ blockList[f][b].data.rank # 0 => Recorded(blockList[f][b].data.rank, f, blockList[f][b].data)
    BY DEF DataInv, ListIsRecorded
  <2> QED BY <1>14, <2>1 DEF Nodes
<1>18. \A f \in INodes : StoredBlocks(f)' = StoredBlocks(f)
  BY <1>11, <1>12, ContentsStay
<1> QED BY <1>13, <1>15, <1>16, <1>17, <1>18 DEF DataInv
LEMMA NodeReadData ==
    ASSUME IndInv, DataInv, NEW r \in Nodes, NodeRead(r)
    PROVE  DataInv'
<1>1. TypeOK /\ OneGatherAtATime /\ ReadContributions /\ r \in Ranks
  BY MasterIsRank DEF IndInv
<1>2. npc[r] = "read" /\ Receives(r, "Scatterv")
  BY DEF NodeRead
<1>3. mpc = "read" /\ r \notin DOMAIN gathered
  BY <1>2, NodeAtScatterv DEF Receives
<1>4. PICK ino \in INodes, size \in Nat : ino = call.inode /\ size = call.fileSize
  BY <1>1 DEF TypeOK, IORequests
<1>5. PICK n \in Nat : n = NumberOfBlocks(size)
  BY <1>4, NumberOfBlocksType
<1>6. PICK share : share = NodeShare(r)
  OBVIOUS
<1>7. /\ DOMAIN share = 1 .. EffectiveBlocks(n, r)
      /\ \A i \in 1 .. EffectiveBlocks(n, r) :
            /\ share[i] = NextCall(r).parts[Displ(n, r) + i]
            /\ Displ(n, r) + i \in 1 .. n
  BY <1>2, <1>4, <1>5, <1>6, NodeShareType DEF Receives
<1>8. PICK data : data = [i \in DOMAIN share |-> Deref(r, share[i])]
  OBVIOUS
<1>9. /\ gathered' = [s \in DOMAIN gathered \cup {r} |-> IF s = r THEN data ELSE gathered[s]]
      /\ UNCHANGED <<nreq, dataBlockPointers, masterVars, comm, heap, aborted>>
  BY <1>6, <1>8 DEF NodeRead, Contribute
<1>10. NextCall(r).parts = PointersFor(ino, size)
  BY <1>1, <1>2, <1>3, <1>4, NodeInode DEF DataInv, ReadContributions
<1>11. UNCHANGED <<mpc, call, blockList, written, requests>>
  BY <1>9 DEF masterVars
<1>12. ReadFetched'
  <2>1. StoredBlocks(ino)' = StoredBlocks(ino)
    BY <1>9, <1>11 DEF StoredBlocks
  <2>2. ASSUME n = written[ino], NEW s \in DOMAIN gathered', NEW i \in 1 .. EffectiveBlocks(n, s)
        PROVE  gathered'[s][i] = StoredBlocks(ino)[Displ(n, s) + i]
    <3>1. CASE s = r
      <4>1. PICK b \in Nat : b = Displ(n, r) + i
        BY <1>7, <2>2, <3>1
      <4>2. gathered'[s][i] = Deref(r, PointersFor(ino, size)[b])
        BY <1>7, <1>8, <1>9, <1>10, <2>2, <3>1, <4>1
      <4>3. Deref(r, PointersFor(ino, size)[b]) = StoredBlocks(ino)[b]
        BY <1>1, <1>5, <2>2, <3>1, <4>1, FetchedShare
      <4> QED BY <3>1, <4>1, <4>2, <4>3
    <3>2. CASE s # r
      <4>1. s \in DOMAIN gathered /\ gathered'[s] = gathered[s]
        BY <1>9, <3>2
      <4> QED BY <1>3, <1>4, <1>5, <2>2, <4>1 DEF DataInv, ReadFetched
    <3> QED BY <3>1, <3>2
  <2>3. StoredBlocks(call.inode)' = StoredBlocks(ino)
    BY <1>4, <1>11, <2>1 DEF StoredBlocks
  <2> QED BY <1>4, <1>5, <1>11, <2>2, <2>3 DEF ReadFetched
<1>13. SameInode' /\ WriteStored'
  BY <1>3, <1>9, <1>11 DEF DataInv, SameInode, Gathering, WriteStored
<1>14. ListIsRecorded'
  BY <1>9, <1>11 DEF DataInv, ListIsRecorded, Recorded
<1> QED BY <1>12, <1>13, <1>14 DEF DataInv

(* The list keeps what it had; new entries are for blocks of the write.    *)
LEMMA GrownToKeeps ==
    ASSUME NEW list \in Seq([rank : Ranks, data : Pointers]), NEW n \in Nat,
           NEW b \in DOMAIN GrownTo(list, n), b > n
    PROVE  b \in DOMAIN list /\ GrownTo(list, n)[b] = list[b]
<1> DEFINE lastRank == IF list = <<>> THEN 0 ELSE list[Len(list)].rank
           tail == [i \in 1 .. n - Len(list) |->
                       [rank |-> (lastRank + i - 1) % WorldSize, data |-> <<>>]]
<1>1. Len(list) \in Nat /\ DOMAIN list = 1 .. Len(list)
  BY LenProperties
<1>2. CASE n <= Len(list)
  BY <1>2 DEF GrownTo
<1>3. CASE ~(n <= Len(list))
  <2>1. GrownTo(list, n) = list \o tail
    BY <1>3 DEF GrownTo
  <2>2. Len(tail) = n - Len(list)
    BY <1>1, <1>3
  <2> HIDE DEF tail
  <2>3. DOMAIN (list \o tail) = 1 .. Len(list) + Len(tail)
    OBVIOUS
  <2>4. b \in 1 .. n
    BY <1>1, <2>1, <2>2, <2>3
  <2> QED BY <2>4
<1> QED BY <1>2, <1>3

(* What comes in during a write, laid side by side. *)
LEMMA GatheredFrom ==
    ASSUME NEW n \in Nat, NEW b \in 1 .. n
    PROVE  \E r \in Ranks : \E i \in 1 .. EffectiveBlocks(n, r) :
              b = Displ(n, r) + i /\ GatherParts(n, gathered)[b] = gathered[r][i]
<1>1. PICK r \in Ranks : \E i \in 1 .. EffectiveBlocks(n, r) : b = Displ(n, r) + i /\ OwnerOf(n, b) = r
  BY BlockInShare
<1>2. PICK i \in 1 .. EffectiveBlocks(n, r) : b = Displ(n, r) + i /\ OwnerOf(n, b) = r
  BY <1>1
<1>3. Displ(n, r) \in Nat /\ EffectiveBlocks(n, r) \in Nat
  BY ShareType, MasterIsRank
<1>4. GatherParts(n, gathered)[b] = gathered[r][b - Displ(n, r)] /\ b - Displ(n, r) = i
  BY <1>2, <1>3 DEF GatherParts
<1> QED BY <1>2, <1>4

LEMMA WriteDoneData ==
    ASSUME IndInv, DataInv, WriteDone
    PROVE  /\ DataInv'
           /\ \A f \in INodes : StoredBlocks(f)' =
                 IF f = call.inode THEN Buffer(requests, NumberOfBlocks(call.fileSize))
                 ELSE StoredBlocks(f)
<1>1. TypeOK /\ OneGatherAtATime /\ WriteContributions
  BY DEF IndInv
<1>2. PICK ino \in INodes : ino = call.inode
  BY <1>1 DEF TypeOK, IORequests
<1>3. PICK n \in Nat : n = NumberOfBlocks(call.fileSize)
  BY <1>1, NumberOfBlocksType DEF TypeOK, IORequests
<1>4. PICK addresses : addresses = GatherParts(n, gathered)
  OBVIOUS
<1>5. PICK list : list = GrownTo(blockList[ino], n)
  OBVIOUS
<1>6. PICK new : new = [b \in DOMAIN list |->
                          IF b <= n THEN [list[b] EXCEPT !.data = addresses[b]] ELSE list[b]]
  OBVIOUS
<1>7. /\ mpc = "write" /\ mpc' = "loop"
      /\ DOMAIN gathered = Ranks
      /\ blockList' = [blockList EXCEPT ![ino] = new]
      /\ written' = [written EXCEPT ![ino] = n]
      /\ UNCHANGED <<call, readBuff, requests, comm, nodeVars, heap, aborted>>
  BY <1>2, <1>3, <1>4, <1>5, <1>6, Zenon DEF WriteDone
<1>8. /\ list \in Seq([rank : Ranks, data : Pointers \cup {<<>>}])
      /\ Len(list) \in Nat /\ n <= Len(list)
      /\ DOMAIN list = 1 .. Len(list)
      /\ blockList[ino] \in Seq([rank : Ranks, data : Pointers])
  <2>1. blockList[ino] \in Seq([rank : Ranks, data : Pointers])
    BY <1>1 DEF TypeOK
  <2> QED BY <1>5, <2>1, GrownToType, LenProperties
<1>9. ASSUME NEW b \in 1 .. n
      PROVE  \E r \in Ranks :
                /\ IsLocal(r, addresses[b])
                /\ heap[r][addresses[b].id] = [write |-> requests, block |-> b]
                /\ r # 0 => Recorded(r, ino, addresses[b])
  <2>1. PICK r \in Ranks : \E i \in 1 .. EffectiveBlocks(n, r) :
           b = Displ(n, r) + i /\ addresses[b] = gathered[r][i]
    BY <1>4, GatheredFrom
  <2>2. PICK i \in 1 .. EffectiveBlocks(n, r) : b = Displ(n, r) + i /\ addresses[b] = gathered[r][i]
    BY <2>1
  <2>3. PICK address : address = gathered[r][i]
    OBVIOUS
  <2>4. IsLocal(r, address)
    BY <1>1, <1>3, <1>7, <2>3 DEF WriteContributions
  <2>5. /\ heap[r][address.id] = [write |-> requests, block |-> b]
        /\ r # 0 => Recorded(r, ino, address)
    BY <1>2, <1>3, <1>7, <2>2, <2>3 DEF DataInv, WriteStored
  <2> QED BY <2>2, <2>3, <2>4, <2>5
<1>10. ASSUME NEW b \in 1 .. n
       PROVE  b \in DOMAIN new /\ new[b].data = addresses[b]
  <2>1. b \in 1 .. Len(list)
    BY <1>8
  <2>2. list[b] \in [rank : Ranks, data : Pointers \cup {<<>>}]
    BY <1>8, <2>1, ElementOfSeq
  <2>3. new[b] = [list[b] EXCEPT !.data = addresses[b]]
    BY <1>6, <1>8, <2>1
  <2> QED BY <1>6, <1>8, <2>1, <2>2, <2>3
<1>11. /\ blockList'[ino] = new /\ written'[ino] = n
       /\ \A f \in INodes : f # ino => /\ blockList'[f] = blockList[f]
                                       /\ written'[f] = written[f]
  BY <1>1, <1>7 DEF TypeOK
<1>12. SameInode' /\ WriteStored' /\ ReadFetched'
  BY <1>7 DEF SameInode, Gathering, WriteStored, ReadFetched
<1>13. ListIsRecorded'
  <2> SUFFICES ASSUME NEW f \in INodes, NEW b \in DOMAIN blockList'[f]
               PROVE  /\ blockList'[f][b].data.rank \in Ranks
                      /\ blockList'[f][b].data.rank # 0 =>
                            Recorded(blockList'[f][b].data.rank, f, blockList'[f][b].data)
    BY <1>7, Zenon DEF ListIsRecorded, Recorded, nodeVars
  <2>1. ASSUME NEW g \in INodes, NEW c \in DOMAIN blockList[g]
        PROVE  /\ blockList[g][c].data.rank \in Ranks
               /\ blockList[g][c].data.rank # 0 =>
                     Recorded(blockList[g][c].data.rank, g, blockList[g][c].data)
    BY DEF DataInv, ListIsRecorded
  <2>2. CASE f # ino
    BY <1>11, <2>1, <2>2
  <2>3. CASE f = ino /\ b <= n
    <3>1. b \in 1 .. n
      BY <1>6, <1>8, <1>11, <2>3
    <3>2. blockList'[f][b].data = addresses[b]
      BY <1>10, <1>11, <2>3, <3>1
    <3>3. PICK r \in Ranks : IsLocal(r, addresses[b]) /\ (r # 0 => Recorded(r, ino, addresses[b]))
      BY <1>9, <3>1
    <3> QED BY <2>3, <3>2, <3>3 DEF IsLocal
  <2>4. CASE f = ino /\ b > n
    <3>1. b \in DOMAIN list /\ new[b] = list[b]
      BY <1>6, <1>8, <1>11, <2>4
    <3>2. b \in DOMAIN blockList[ino] /\ list[b] = blockList[ino][b]
      BY <1>5, <1>8, <2>4, <3>1, GrownToKeeps
    <3> QED BY <1>11, <2>1, <2>4, <3>1, <3>2
  <2> QED BY <1>6, <1>8, <1>11, <2>2, <2>3, <2>4
<1>14. StoredBlocks(ino)' = Buffer(requests, n)
  <2>1. ASSUME NEW b \in 1 .. n
        PROVE  heap[new[b].data.rank][new[b].data.id] = [write |-> requests, block |-> b]
    BY <1>9, <1>10 DEF IsLocal
  <2>2. StoredBlocks(ino)' = [b \in 1 .. n |-> heap[new[b].data.rank][new[b].data.id]]
    BY <1>7, <1>11 DEF StoredBlocks
  <2> QED BY <2>1, <2>2 DEF Buffer
<1>15. \A f \in INodes : f # ino => StoredBlocks(f)' = StoredBlocks(f)
  BY <1>7, <1>11 DEF StoredBlocks
<1> QED BY <1>2, <1>3, <1>12, <1>13, <1>14, <1>15 DEF DataInv

LEMMA ReadDoneData ==
    ASSUME IndInv, DataInv, ReadDone
    PROVE  /\ DataInv'
           /\ NumberOfBlocks(call.fileSize) = written[call.inode] =>
                 readBuff' = StoredBlocks(call.inode)
<1>1. TypeOK
  BY DEF IndInv
<1>2. PICK n \in Nat : n = NumberOfBlocks(call.fileSize)
  BY <1>1, NumberOfBlocksType DEF TypeOK, IORequests
<1>3. /\ mpc = "read" /\ mpc' = "loop"
      /\ DOMAIN gathered = Ranks
      /\ readBuff' = GatherParts(n, gathered)
      /\ UNCHANGED <<call, blockList, requests, written, comm, nodeVars, heap, aborted>>
  BY <1>2, RequestBlocks DEF ReadDone
<1>4. SameInode' /\ WriteStored' /\ ReadFetched'
  BY <1>3 DEF SameInode, Gathering, WriteStored, ReadFetched
<1>5. ListIsRecorded'
  BY <1>3 DEF DataInv, ListIsRecorded, Recorded, nodeVars
<1>6. ASSUME n = written[call.inode] PROVE readBuff' = StoredBlocks(call.inode)
  <2>1. PICK stored : stored = StoredBlocks(call.inode)
    OBVIOUS
  <2>2. ASSUME NEW b \in 1 .. n PROVE GatherParts(n, gathered)[b] = stored[b]
    <3>1. PICK r \in Ranks : \E i \in 1 .. EffectiveBlocks(n, r) :
             b = Displ(n, r) + i /\ GatherParts(n, gathered)[b] = gathered[r][i]
      BY GatheredFrom
    <3> QED BY <1>2, <1>3, <1>6, <2>1, <3>1 DEF DataInv, ReadFetched
  <2>3. DOMAIN stored = 1 .. n /\ stored = [b \in 1 .. n |-> stored[b]]
    BY <1>6, <2>1 DEF StoredBlocks
  <2>4. GatherParts(n, gathered) = [b \in 1 .. n |-> GatherParts(n, gathered)[b]]
    BY DEF GatherParts
  <2>5. [b \in 1 .. n |-> GatherParts(n, gathered)[b]] = [b \in 1 .. n |-> stored[b]]
    BY <2>2
  <2> QED BY <1>3, <2>1, <2>3, <2>4, <2>5, Zenon
<1> QED BY <1>2, <1>4, <1>5, <1>6 DEF DataInv
-----------------------------------------------------------------------------
(* Every step preserves the invariant about the data as well: what comes   *)
(* in during a Gatherv is what the rank holds.                             *)
THEOREM DataInvariance == Spec => []FullInv
<1>1. Init => FullInv
  BY InitIndInv, InitData DEF FullInv
<1>2. FullInv /\ [Next]_vars => FullInv'
  <2> SUFFICES ASSUME IndInv, DataInv, [Next]_vars PROVE DataInv'
    BY NextIndInv DEF FullInv
  <2>1. CASE Serve
    BY <2>1, WriteCallData, QuietData, ReadCallData DEF Serve
  <2>2. CASE WriteDone \/ ReadDone
    BY <2>2, WriteDoneData, ReadDoneData
  <2>3. CASE \E r \in Nodes : NodeNext(r)
    BY <2>3, QuietData, NodeWriteData, NodeReadData DEF NodeNext
  <2>4. CASE Mount \/ MountFails \/ StartFails \/ ReadFaults \/ Unmount \/ SendTermination
    BY <2>4, QuietData
  <2>5. CASE Terminating \/ UNCHANGED vars
    BY <2>5, QuietData DEF Terminating
  <2> QED BY <2>1, <2>2, <2>3, <2>4, <2>5 DEF Next, MasterNext
<1> QED BY <1>1, <1>2, PTL DEF Spec

(* Whatever block the master will send a node to, the node has recorded    *)
(* for the same inode: dataBlockPointers and blockList never come apart.   *)
THEOREM ListsAgree == Spec => []NodesKnowTheirBlocks
<1>1. FullInv => NodesKnowTheirBlocks
  BY DEF FullInv, DataInv, ListIsRecorded, NodesKnowTheirBlocks, Recorded
<1> QED BY <1>1, DataInvariance, PTL

(* A read for as many blocks as the file was last given never sends a node *)
(* an address of another process.  (A read for another number may: an      *)
(* address then goes where the stripe of the wrong size says.)             *)
THEOREM PointersStayLocal == Spec => []PointerLocality
<1>1. ASSUME FullInv, NEW r \in Nodes, npc[r] = "read", pos[r] < Len(comm),
             AskedForWritten(nreq[r]), NEW i \in DOMAIN NodeShare(r)
      PROVE  IsLocal(r, NodeShare(r)[i])
  <2>1. /\ IndInv /\ SameInode
        /\ TypeOK /\ NodesFollow /\ OneGatherAtATime /\ ReadContributions
        /\ WrittenIsListed /\ StripeOwnership
    BY <1>1 DEF FullInv, DataInv, IndInv
  <2>2. NextCall(r).kind = "Scatterv"
    <3>1. NextCall(r).kind = KindFor(npc[r])
      BY <1>1, <2>1, NodePosition
    <3> QED BY <1>1, <3>1, KindForPhase
  <2>3. PICK n \in Nat : n = NumberOfBlocks(call.fileSize)
    BY <1>1, <2>1, <2>2, NodeAtScatterv
  <2>4. PICK ino \in INodes : ino = call.inode
    BY <2>1 DEF TypeOK, IORequests
  <2>5. mpc = "read" /\ pos[r] + 1 = Len(comm)
    BY <1>1, <2>1, <2>2, NodeAtScatterv
  <2>6. written[ino] = n
    <3>1. nreq[r].fileSize = call.fileSize /\ Gathering
      BY <1>1, <2>1, <2>2, NodeAtScatterv
    <3>2. nreq[r].inode = comm[pos[r]].inode
      <4>1. npc[r] \in {"write", "read"} =>
               nreq[r] = [inode |-> comm[pos[r]].inode, fileSize |-> comm[pos[r]].fileSize]
        BY <2>1 DEF NodesFollow
      <4> QED BY <1>1, <4>1
    <3>3. pos[r] \in Nat /\ Len(comm) \in Nat
      BY <2>1, LenProperties DEF TypeOK
    <3>4. nreq[r].inode = call.inode
      BY <2>1, <2>5, <3>1, <3>2, <3>3 DEF SameInode
    <3> QED BY <1>1, <2>3, <2>4, <3>1, <3>4 DEF AskedForWritten
  <2>7. NextCall(r).parts = PointersFor(ino, call.fileSize)
    BY <2>1, <2>4, <2>5 DEF ReadContributions, NextCall
  <2>8. PICK b \in 1 .. n : /\ b = Displ(n, r) + i
                            /\ NodeShare(r)[i] = NextCall(r).parts[b]
                            /\ i \in 1 .. EffectiveBlocks(n, r)
    BY <1>1, <2>1, <2>2, <2>3, NodeShareType
  <2>9. NodeShare(r)[i] = PointerOf(ino, b)
    <3>1. call.fileSize \in Nat
      BY <2>1 DEF TypeOK, IORequests
    <3>2. PointersFor(ino, call.fileSize)[b] = PointerOf(ino, b)
      BY <2>1, <2>3, <3>1, PointersForType
    <3> QED BY <2>7, <2>8, <3>2
  <2>10. b <= Len(blockList[ino])
    <3>1. Len(blockList[ino]) \in Nat /\ n <= Len(blockList[ino])
      BY <2>1, <2>6, LenProperties DEF TypeOK, WrittenIsListed
    <3> QED BY <3>1
  <2>11. PointerOf(ino, b) = blockList[ino][Displ(n, r) + i].data
    BY <2>8, <2>10 DEF PointerOf
  <2>12. IsLocal(r, blockList[ino][Displ(n, r) + i].data)
    BY <2>1, <2>6, <2>8, MasterIsRank DEF StripeOwnership
  <2> QED BY <2>9, <2>11, <2>12
<1>2. FullInv => PointerLocality
  BY <1>1 DEF PointerLocality
<1> QED BY <1>2, DataInvariance, PTL
-----------------------------------------------------------------------------
(* The refinement. *)
LEMMA BlocksBounded ==
    ASSUME NEW largest \in FileSizes, \A t \in FileSizes : t <= largest, NEW size \in FileSizes
    PROVE  NumberOfBlocks(size) \in 0 .. NumberOfBlocks(LargestFile)
<1>1. LargestFile \in FileSizes /\ \A t \in FileSizes : t <= LargestFile
  BY DEF LargestFile
<1>2. PICK top \in Nat : top = LargestFile
  BY <1>1, ClientServerAssumption
<1>3. size \in Nat /\ size <= top
  BY <1>1, <1>2, ClientServerAssumption
<1>4. NumberOfBlocks(size) \in Nat /\ NumberOfBlocks(top) \in Nat
  BY <1>3, NumberOfBlocksType
<1>5. NumberOfBlocks(size) <= NumberOfBlocks(top)
  <2> BlockSize \in Nat \ {0}
    BY StripingAssumption
  <2>1. PICK q \in Nat, m \in Nat : q = size \div BlockSize /\ m = size % BlockSize /\ m < BlockSize
                                    /\ size = BlockSize * q + m
    BY <1>3
  <2>2. PICK u \in Nat, v \in Nat : u = top \div BlockSize /\ v = top % BlockSize /\ v < BlockSize
                                    /\ top = BlockSize * u + v
    BY <1>2
  <2>3. q <= u
    <3> SUFFICES ASSUME q >= u + 1 PROVE FALSE
      BY <2>1, <2>2
    <3>1. BlockSize * q >= BlockSize * (u + 1)
      OBVIOUS
    <3>2. BlockSize * (u + 1) = BlockSize * u + BlockSize
      OBVIOUS
    <3> QED BY <1>3, <2>1, <2>2, <3>1, <3>2
  <2>4. CASE q = u
    BY <1>3, <2>1, <2>2, <2>4 DEF NumberOfBlocks
  <2>5. CASE q + 1 <= u
    BY <2>1, <2>2, <2>5 DEF NumberOfBlocks
  <2> QED BY <2>1, <2>2, <2>3, <2>4, <2>5
<1> QED BY <1>2, <1>4, <1>5

LEMMA ContentsSame ==
    ASSUME \A ino \in INodes : StoredBlocks(ino)' = StoredBlocks(ino)
    PROVE  Contents' = Contents
  BY DEF Contents

LEMMA InitStore == Init => Store!Init
<1> SUFFICES ASSUME Init PROVE Store!Init
  OBVIOUS
<1>1. PendingCall = [op |-> "none"]
  BY DEF Init, PendingCall
<1>2. Contents = [ino \in INodes |-> <<>>]
  <2>1. ASSUME NEW ino \in INodes PROVE StoredBlocks(ino) = <<>>
    <3>1. written[ino] = 0
      BY DEF Init
    <3> QED BY <3>1 DEF StoredBlocks
  <2> QED BY <2>1 DEF Contents
<1> QED BY <1>1, <1>2 DEF Init, Store!Init, Store!Idle

(* A step that leaves the data, the call and its progress alone.           *)
LEMMA QuietStore ==
    ASSUME UNCHANGED <<heap, blockList, written, requests, readBuff>>, PendingCall' = PendingCall
    PROVE  UNCHANGED Store!vars
<1>1. \A ino \in INodes : StoredBlocks(ino)' = StoredBlocks(ino)
  BY DEF StoredBlocks
<1> QED BY <1>1, ContentsSame DEF Store!vars
LEMMA ContentsLength ==
    ASSUME TypeOK, NEW ino \in INodes
    PROVE  Contents[ino] = StoredBlocks(ino) /\ Len(Contents[ino]) = written[ino]
<1>1. written[ino] \in Nat
  BY DEF TypeOK
<1>2. Contents[ino] = StoredBlocks(ino)
  BY DEF Contents
<1>3. Len(StoredBlocks(ino)) = written[ino]
  BY <1>1 DEF StoredBlocks
<1> QED BY <1>2, <1>3

LEMMA OthersStutter ==
    ASSUME IndInv, DataInv,
           \/ Mount \/ MountFails \/ StartFails \/ Unmount \/ SendTermination
           \/ \E r \in Nodes : NodeRequest(r) \/ NodeIORequest(r) \/ NodeWrite(r) \/ NodeRead(r)
           \/ UNCHANGED vars
    PROVE  UNCHANGED Store!vars
<1>1. CASE Mount \/ MountFails \/ StartFails \/ Unmount \/ SendTermination
  <2>1. UNCHANGED <<heap, blockList, written, requests, readBuff, aborted>>
        /\ mpc \notin {"write", "read"} /\ mpc' \notin {"write", "read"}
    BY <1>1 DEF Mount, MountFails, StartFails, Unmount, SendTermination, nodeVars
  <2> QED BY <2>1, QuietStore DEF PendingCall
<1>2. CASE UNCHANGED vars
  <2>1. UNCHANGED <<heap, blockList, written, requests, readBuff, aborted, mpc, call>>
    BY <1>2 DEF vars, masterVars
  <2> QED BY <2>1, QuietStore DEF PendingCall
<1>3. CASE \E r \in Nodes : NodeRequest(r) \/ NodeIORequest(r) \/ NodeRead(r)
  <2>1. UNCHANGED <<masterVars, heap, aborted>>
    BY <1>3, Zenon DEF NodeRequest, NodeIORequest, NodeRead
  <2> QED BY <2>1, QuietStore DEF PendingCall, masterVars
<1>4. CASE \E r \in Nodes : NodeWrite(r)
  <2>1. UNCHANGED <<masterVars, aborted>>
    BY <1>4, Zenon DEF NodeWrite
  <2>2. Contents' = Contents
    BY <1>4, NodeWriteData, ContentsSame
  <2>3. PendingCall' = PendingCall
    BY <2>1 DEF PendingCall, masterVars
  <2> QED BY <2>1, <2>2, <2>3 DEF Store!vars, masterVars
<1> QED BY <1>1, <1>2, <1>3, <1>4

(* A flush or an open begins. *)
LEMMA ServeIsCall ==
    ASSUME IndInv, DataInv, Serve,
           NEW largest \in FileSizes, \A t \in FileSizes : t <= largest
    PROVE  Store!Next
<1>1. PICK ino \in INodes, size \in FileSizes :
         WriteCall(ino, size) \/ ReadCallEmpty(ino, size) \/ ReadCall(ino, size)
  BY DEF Serve
<1>2. PICK n \in 0 .. NumberOfBlocks(LargestFile) : n = NumberOfBlocks(size)
  BY BlocksBounded
<1>3. PendingCall = [op |-> "none"]
  BY <1>1 DEF WriteCall, ReadCallEmpty, ReadCall, PendingCall
<1>4. CASE WriteCall(ino, size)
  <2>1. /\ mpc' = "write" /\ ~aborted' /\ requests' = requests + 1 /\ readBuff' = readBuff
        /\ call' = [inode |-> ino, fileSize |-> size]
    BY <1>4 DEF WriteCall
  <2>2. Contents' = Contents
    BY <1>4, WriteCallData, ContentsSame
  <2>3. PendingCall' = [op |-> "write", inode |-> ino, blocks |-> n]
    BY <1>2, <2>1 DEF PendingCall
  <2>4. Store!Call("write", ino, n)
    BY <1>3, <2>1, <2>2, <2>3 DEF Store!Call, Store!Idle, Store!CallOf
  <2> QED BY <2>4 DEF Store!Next
<1>5. CASE ReadCall(ino, size)
  <2>1. /\ mpc' = "read" /\ ~aborted' /\ requests' = requests + 1
        /\ call' = [inode |-> ino, fileSize |-> size]
        /\ UNCHANGED <<heap, blockList, written, readBuff>>
    BY <1>5 DEF ReadCall
  <2>2. Contents' = Contents
    BY <2>1, ContentsSame DEF StoredBlocks
  <2>3. PendingCall' = [op |-> "read", inode |-> ino, blocks |-> n]
    BY <1>2, <2>1 DEF PendingCall
  <2>4. Store!Call("read", ino, n)
    BY <1>3, <2>1, <2>2, <2>3 DEF Store!Call, Store!Idle, Store!CallOf
  <2> QED BY <2>4 DEF Store!Next
<1>6. CASE ReadCallEmpty(ino, size)
  <2>1. /\ requests' = requests + 1 /\ readBuff' = <<>>
        /\ mpc = "loop" /\ UNCHANGED <<mpc, aborted, heap, blockList, written>>
    BY <1>6 DEF ReadCallEmpty
  <2>2. Contents' = Contents
    BY <2>1, ContentsSame DEF StoredBlocks
  <2>3. PendingCall' = PendingCall
    BY <2>1 DEF PendingCall
  <2> QED BY <1>3, <2>1, <2>2, <2>3 DEF Store!Next, Store!ReadNothing, Store!Idle
<1> QED BY <1>1, <1>4, <1>5, <1>6

(* Only a read for another number of blocks than was written can fault.    *)
LEMMA FaultIsDeath ==
    ASSUME IndInv, DataInv, ReadFaults \/ \E r \in Nodes : NodeReadFaults(r)
    PROVE  Store!Die
<1>1. TypeOK /\ ReadContributions /\ WrittenIsListed
  BY DEF IndInv
<1>2. mpc = "read" /\ ~aborted
  <2>1. CASE ReadFaults
    BY <2>1 DEF ReadFaults
  <2>2. CASE \E r \in Nodes : NodeReadFaults(r)
    BY <2>2, NodeAtScatterv DEF NodeReadFaults, Receives
  <2> QED BY <2>1, <2>2
<1>3. PICK ino \in INodes, size \in Nat : ino = call.inode /\ size = call.fileSize
  BY <1>1 DEF TypeOK, IORequests
<1>4. PICK n \in Nat : n = NumberOfBlocks(size)
  BY <1>3, NumberOfBlocksType
<1>5. ASSUME n = written[ino] PROVE FALSE
  <2>1. ASSUME NEW r \in Ranks, NEW i \in 1 .. EffectiveBlocks(n, r)
        PROVE  IsLocal(r, PointersFor(ino, size)[Displ(n, r) + i])
    <3>1. PICK b \in Nat : b = Displ(n, r) + i
      <4>1. Displ(n, r) \in Nat /\ EffectiveBlocks(n, r) \in Nat
        BY ShareType, MasterIsRank
      <4> QED BY <4>1
    <3>2. IsLocal(r, PointersFor(ino, size)[b])
      BY <1>4, <1>5, <2>1, <3>1, FetchedShare
    <3> QED BY <3>1, <3>2
  <2>2. PointersFor(ino, size) \in Seq(Pointers) /\ Len(PointersFor(ino, size)) = n
    BY <1>1, <1>3, <1>4, PointersForType
  <2>3. CASE ReadFaults
    <3>1. n <= Len(blockList[ino]) /\ Len(blockList[ino]) \in Nat
      BY <1>1, <1>5, LenProperties DEF TypeOK, WrittenIsListed
    <3>2. PICK i \in DOMAIN ScatterPart(PointersFor(ino, size), 0) :
             ~IsLocal(0, ScatterPart(PointersFor(ino, size), 0)[i])
      BY <1>3, <2>2, <2>3, <3>1 DEF ReadFaults
    <3>3. i \in 1 .. EffectiveBlocks(n, 0)
          /\ ScatterPart(PointersFor(ino, size), 0)[i] = PointersFor(ino, size)[Displ(n, 0) + i]
      BY <2>2, <3>2, ScatterPartType, MasterIsRank
    <3> QED BY <2>1, <3>2, <3>3, MasterIsRank
  <2>4. CASE \E r \in Nodes : NodeReadFaults(r)
    <3>1. PICK r \in Nodes : NodeReadFaults(r)
      BY <2>4
    <3>2. PICK i \in DOMAIN NodeShare(r) : ~IsLocal(r, NodeShare(r)[i])
      BY <3>1 DEF NodeReadFaults
    <3>3. Receives(r, "Scatterv")
      BY <3>1 DEF NodeReadFaults
    <3>4. i \in 1 .. EffectiveBlocks(n, r) /\ NodeShare(r)[i] = NextCall(r).parts[Displ(n, r) + i]
      BY <1>3, <1>4, <3>2, <3>3, NodeShareType DEF Receives
    <3>5. NextCall(r).parts = PointersFor(ino, size)
      BY <1>1, <1>2, <1>3, <3>3, NodeInode DEF DataInv, ReadContributions
    <3> QED BY <2>1, <3>2, <3>4, <3>5, MasterIsRank
  <2> QED BY <2>3, <2>4
<1>6. /\ aborted' /\ UNCHANGED <<heap, blockList, written, requests, readBuff>>
  BY DEF ReadFaults, NodeReadFaults, masterVars
<1>7. Contents' = Contents
  BY <1>6, ContentsSame DEF StoredBlocks
<1>8. PendingCall = [op |-> "read", inode |-> ino, blocks |-> n] /\ PendingCall' = [op |-> "dead"]
  BY <1>2, <1>3, <1>4, <1>6 DEF PendingCall
<1>9. ~(n = Len(Contents[ino]))
  BY <1>1, <1>5, ContentsLength
<1> QED BY <1>6, <1>7, <1>8, <1>9 DEF Store!Die, Store!WellAsked, Store!Dead

LEMMA DoneCompletes ==
    ASSUME IndInv, DataInv
    PROVE  /\ WriteDone => Store!CompleteWrite
           /\ ReadDone => Store!CompleteRead
<1>1. TypeOK
  BY DEF IndInv
<1>2. PICK ino \in INodes : ino = call.inode
  BY <1>1 DEF TypeOK, IORequests
<1>3. PICK n : n = NumberOfBlocks(call.fileSize)
  OBVIOUS
<1>4. ASSUME WriteDone PROVE Store!CompleteWrite
  <2>1. mpc = "write" /\ mpc' = "loop" /\ ~aborted /\ UNCHANGED <<aborted, requests, readBuff>>
    BY <1>4 DEF WriteDone
  <2>2. PendingCall = [op |-> "write", inode |-> ino, blocks |-> n] /\ PendingCall' = [op |-> "none"]
    BY <1>2, <1>3, <2>1 DEF PendingCall
  <2>3. Contents' = [Contents EXCEPT ![ino] = Buffer(requests, n)]
    BY <1>2, <1>3, <1>4, WriteDoneData DEF Contents
  <2>4. Buffer(requests, n) = Store!Buffer(requests, n)
    BY DEF Buffer, Store!Buffer
  <2> QED BY <2>1, <2>2, <2>3, <2>4 DEF Store!CompleteWrite, Store!Idle
<1>5. ASSUME ReadDone PROVE Store!CompleteRead
  <2>1. mpc = "read" /\ mpc' = "loop" /\ ~aborted
        /\ UNCHANGED <<aborted, requests, heap, blockList, written>>
    BY <1>5 DEF ReadDone
  <2>2. PendingCall = [op |-> "read", inode |-> ino, blocks |-> n] /\ PendingCall' = [op |-> "none"]
    BY <1>2, <1>3, <2>1 DEF PendingCall
  <2>3. Contents' = Contents
    BY <2>1, ContentsSame DEF StoredBlocks
  <2>4. n = Len(Contents[ino]) => readBuff' = Contents[ino]
    BY <1>1, <1>2, <1>3, <1>5, ReadDoneData, ContentsLength
  <2> QED BY <2>1, <2>2, <2>3, <2>4 DEF Store!CompleteRead, Store!WellAsked, Store!Idle
<1> QED BY <1>4, <1>5

(* The collectives implement the store, for every number of ranks, size of *)
(* block and order of the processes: a read that asks for what was last    *)
(* written returns it, and only another read can kill the system.  File    *)
(* sizes are bounded, as an off_t is.                                      *)
THEOREM StoreIsImplemented ==
    ASSUME \E s \in FileSizes : \A t \in FileSizes : t <= s
    PROVE  Spec => ImplementsBlockStore
<1>1. FullInv /\ [Next]_vars => [Store!Next]_Store!vars
  <2> SUFFICES ASSUME IndInv, DataInv, [Next]_vars PROVE [Store!Next]_Store!vars
    BY DEF FullInv
  <2>1. CASE Serve
    BY <2>1, ServeIsCall
  <2>2. CASE WriteDone \/ ReadDone
    BY <2>2, DoneCompletes DEF Store!Next
  <2>3. CASE ReadFaults \/ \E r \in Nodes : NodeReadFaults(r)
    BY <2>3, FaultIsDeath DEF Store!Next
  <2>4. CASE \/ Mount \/ MountFails \/ StartFails \/ Unmount \/ SendTermination
             \/ \E r \in Nodes : NodeRequest(r) \/ NodeIORequest(r) \/ NodeWrite(r) \/ NodeRead(r)
             \/ UNCHANGED vars
    BY <2>4, OthersStutter
  <2>5. CASE Terminating
    BY <2>5, OthersStutter DEF Terminating
  <2> QED BY <2>1, <2>2, <2>3, <2>4, <2>5 DEF Next, MasterNext, NodeNext
<1> QED BY <1>1, InitStore, DataInvariance, PTL DEF Spec, ImplementsBlockStore, Store!Spec
=============================================================================
