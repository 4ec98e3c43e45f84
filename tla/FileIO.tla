------------------------------- MODULE FileIO -------------------------------
(***************************************************************************)
(* The handlers of the client-server version that move the bytes of one    *)
(* regular file: open, read, write, flush, release and setattr.            *)
(*                                                                         *)
(* While a file is in use its bytes are in m_buf, one buffer for all who   *)
(* have it open; else they are in the blocks that DAGonFS_Write stored.    *)
(* An open loads m_buf, a flush stores it and frees it.  Two attributes    *)
(* describe both: st_size, the bytes of the file, and st_blocks, the       *)
(* blocks that m_buf once had room for.                                    *)
(*                                                                         *)
(* The handlers run one at a time.  A DAGonFS_Write or DAGonFS_Read is one *)
(* step here, and does what BlockStore promises: see ClientServer.         *)
(***************************************************************************)
EXTENDS Naturals, Sequences

CONSTANTS BlockSize,    \* FILE_SYSTEM_SINGLE_BLOCK_SIZE
          MaxSize,      \* bound on the bytes of the file
          Bytes,        \* what is written
          Junk,         \* a byte of memory that nobody wrote
          Handles,      \* open files of user programs
          Habits        \* what programs do with a file, of AllHabits

(* "share": open a file that another handle still has open, or that was    *)
(*     closed but not yet released.                                        *)
(* "dup": go on using a handle after the close of a duplicate of its       *)
(*     descriptor, as after the end of a child process.  The kernel sends  *)
(*     a flush for each close, and one release at the end.                 *)
(* "truncate": set the size of the file, other than to shorten the last    *)
(*     block of what was written and is yet to be flushed.                 *)
(* "hole": write past the end.                                             *)
(* "append": open a file for writing only and not to empty it.             *)
AllHabits == {"share", "dup", "truncate", "hole", "append"}

ASSUME FileIOAssumption == /\ BlockSize \in Nat \ {0}
                           /\ MaxSize \in Nat
                           /\ Junk \notin Bytes
                           /\ Habits \subseteq AllHabits

VARIABLES st_size,
          st_blocks,
          m_buf,        \* the bytes of the buffer; <<>> is the null pointer
          waiting,      \* isWaitingForDistributedWrite
          stored,       \* the bytes of the file's blocks
          written,      \* how many blocks the last DAGonFS_Write wrote
          handle,       \* handle[h]: how h was opened, or where its close is
          answer,       \* what the last read replied
          crashed       \* memory outside m_buf was accessed

file == <<st_size, st_blocks, m_buf, waiting>>
vars == <<file, stored, written, handle, answer, crashed>>

(* O_RDONLY; O_RDWR; O_WRONLY; O_WRONLY and O_RDWR with O_TRUNC. *)
Modes == {"r", "rw", "append", "w", "trunc"}
Loads(mode) == mode \in {"r", "rw"}
Readers == {"r", "rw", "trunc"}
Writers == {"rw", "append", "w", "trunc"}
InUse(h) == handle[h] \in Modes \cup {"spent"}

Blocks(size) == size \div BlockSize + (IF size % BlockSize > 0 THEN 1 ELSE 0)
ByteOf(s, i) == IF i <= Len(s) THEN s[i] ELSE Junk

(* realloc to cap bytes. *)
Realloc(s, cap) == [i \in 1 .. cap |-> ByteOf(s, i)]
-----------------------------------------------------------------------------
(* Slip, then the operation.                                               *)
(* DAGonFS_Write of st_size bytes: whole blocks of m_buf, padding and all, *)
(* take the place of the first blocks of the file.                         *)
DAGonFS_Write_floor ==
    LET n == (st_size \div BlockSize) * BlockSize
    IN  /\ stored' = [i \in 1 .. (IF n > Len(stored) THEN n ELSE Len(stored)) |->
                         IF i <= n THEN ByteOf(m_buf, i) ELSE stored[i]]
        /\ written' = st_size \div BlockSize
        /\ crashed' = (crashed \/ n > Len(m_buf))

DAGonFS_Write ==
    LET n == Blocks(st_size) * BlockSize
    IN  /\ stored' = [i \in 1 .. (IF n > Len(stored) THEN n ELSE Len(stored)) |->
                         IF i <= n THEN ByteOf(m_buf, i) ELSE stored[i]]
        /\ written' = Blocks(st_size)
        /\ crashed' = (crashed \/ n > Len(m_buf))

(* DAGonFS_Read of st_size bytes into a new buffer.  Any number of blocks  *)
(* but the one last written has the ranks follow bad pointers.             *)
DAGonFS_Read ==
    LET n == Blocks(st_size) * BlockSize
    IN  IF n = 0 \/ Blocks(st_size) = written
        THEN m_buf' = SubSeq(stored, 1, n) /\ UNCHANGED crashed
        ELSE m_buf' = [i \in 1 .. n |-> Junk] /\ crashed' \in BOOLEAN
-----------------------------------------------------------------------------
(* A file as FuseCreate or FuseMknod makes it; with a create it is open.   *)
(* The inode number may be a used one, whose old blocks are still listed.  *)
Init == /\ st_size = 0
        /\ st_blocks = 0
        /\ m_buf = <<>>
        /\ waiting = FALSE
        /\ stored \in {<<>>, [i \in 1 .. BlockSize |-> Junk]}
        /\ written = Blocks(Len(stored))
        /\ handle \in {[h \in Handles |-> "closed"]} \cup
                      {[h \in Handles |-> IF h = k THEN mode ELSE "closed"] :
                           k \in Handles, mode \in {"rw", "w", "trunc"}}
        /\ answer = <<>>
        /\ crashed = FALSE

(* Slip: a truncation leaves the number of blocks. *)
FuseOpen_keepsBlocks(h, mode) ==
    /\ handle[h] = "closed"
    /\ "share" \in Habits \/ \A k \in Handles : handle[k] = "closed"
    /\ mode = "append" => "append" \in Habits
    /\ handle' = [handle EXCEPT ![h] = mode]
    /\ IF Loads(mode)
       THEN DAGonFS_Read /\ UNCHANGED <<st_size, st_blocks>>
       ELSE st_size' = 0 /\ UNCHANGED <<st_blocks, m_buf, crashed>>
    /\ UNCHANGED <<waiting, stored, written, answer>>

FuseOpen(h, mode) ==
    /\ handle[h] = "closed"
    /\ "share" \in Habits \/ \A k \in Handles : handle[k] = "closed"
    /\ mode = "append" => "append" \in Habits
    /\ handle' = [handle EXCEPT ![h] = mode]
    /\ IF Loads(mode)
       THEN DAGonFS_Read /\ UNCHANGED <<st_size, st_blocks>>
       ELSE st_size' = 0 /\ st_blocks' = 0 /\ UNCHANGED <<m_buf, crashed>>
    /\ UNCHANGED <<waiting, stored, written, answer>>

(* Slip: a write that fits does not mark the file. *)
FuseWrite_waitsIfGrown(h, off, n, v) ==
    LET end    == off + n
        grows  == end > BlockSize * st_blocks
        buffer == IF grows THEN Realloc(m_buf, Blocks(end) * BlockSize) ELSE m_buf
    IN  /\ handle[h] \in Writers
        /\ off <= st_size \/ "hole" \in Habits
        /\ end <= MaxSize
        /\ waiting' = (waiting \/ grows)
        /\ st_blocks' = IF grows THEN Blocks(end) ELSE st_blocks
        /\ crashed' = (end > Len(buffer))
        /\ m_buf' = [i \in DOMAIN buffer |-> IF i \in off + 1 .. end THEN v ELSE buffer[i]]
        /\ st_size' = IF end > st_size THEN end ELSE st_size
        /\ UNCHANGED <<stored, written, handle, answer>>

(* Slip: the size counts one byte too many. *)
FuseWrite_sizePastEnd(h, off, n, v) ==
    LET end    == off + n
        grows  == end > BlockSize * st_blocks
        buffer == IF grows THEN Realloc(m_buf, Blocks(end) * BlockSize) ELSE m_buf
    IN  /\ handle[h] \in Writers
        /\ off <= st_size \/ "hole" \in Habits
        /\ end <= MaxSize
        /\ waiting' = TRUE
        /\ st_blocks' = IF grows THEN Blocks(end) ELSE st_blocks
        /\ crashed' = (end > Len(buffer))
        /\ m_buf' = [i \in DOMAIN buffer |-> IF i \in off + 1 .. end THEN v ELSE buffer[i]]
        /\ st_size' = IF end > st_size THEN end + 1 ELSE st_size
        /\ UNCHANGED <<stored, written, handle, answer>>

(* n bytes v, from position off on.  The buffer is made larger if the file *)
(* has fewer blocks than the write needs.                                  *)
FuseWrite(h, off, n, v) ==
    LET end    == off + n
        grows  == end > BlockSize * st_blocks
        buffer == IF grows THEN Realloc(m_buf, Blocks(end) * BlockSize) ELSE m_buf
    IN  /\ handle[h] \in Writers
        /\ off <= st_size \/ "hole" \in Habits
        /\ end <= MaxSize
        /\ waiting' = TRUE
        /\ st_blocks' = IF grows THEN Blocks(end) ELSE st_blocks
        /\ crashed' = (end > Len(buffer))
        /\ m_buf' = [i \in DOMAIN buffer |-> IF i \in off + 1 .. end THEN v ELSE buffer[i]]
        /\ st_size' = IF end > st_size THEN end ELSE st_size
        /\ UNCHANGED <<stored, written, handle, answer>>

(* The kernel does not read from past the end. *)
FuseRead(h, off, n) ==
    LET bytesRead == IF off + n > st_size THEN st_size - off ELSE n
    IN  /\ handle[h] \in Readers
        /\ off <= st_size
        /\ answer' = [i \in 1 .. bytesRead |-> ByteOf(m_buf, off + i)]
        /\ UNCHANGED <<file, stored, written, handle, crashed>>

(* Slip: the file goes on waiting. *)
Flush_keepsWaiting ==
    IF m_buf = <<>> THEN UNCHANGED <<file, stored, written, crashed>>
    ELSE /\ IF waiting THEN DAGonFS_Write ELSE UNCHANGED <<stored, written, crashed>>
         /\ m_buf' = <<>>
         /\ UNCHANGED <<st_size, st_blocks, waiting>>

(* What a flush makes of the file. *)
Flush ==
    IF m_buf = <<>> THEN UNCHANGED <<file, stored, written, crashed>>
    ELSE /\ IF waiting THEN DAGonFS_Write ELSE UNCHANGED <<stored, written, crashed>>
         /\ waiting' = FALSE
         /\ m_buf' = <<>>
         /\ UNCHANGED <<st_size, st_blocks>>

(* The flush of a descriptor that was the last of its handle. *)
FuseFlush(h) == /\ InUse(h)
                /\ handle' = [handle EXCEPT ![h] = "flushed"]
                /\ Flush
                /\ UNCHANGED answer

(* The flush of a duplicate, after which only flushes may come. *)
FuseFlushDuplicate(h) ==
    /\ InUse(h)
    /\ handle' = [handle EXCEPT ![h] = IF "dup" \in Habits THEN @ ELSE "spent"]
    /\ Flush
    /\ UNCHANGED answer

FuseRelease(h) == /\ handle[h] = "flushed"
                  /\ handle' = [handle EXCEPT ![h] = "closed"]
                  /\ m_buf' = <<>>
                  /\ UNCHANGED <<st_size, st_blocks, waiting, stored, written, answer, crashed>>

FuseSetAttr(size) == /\ \/ "truncate" \in Habits
                        \/ waiting /\ size <= st_size /\ Blocks(size) = Blocks(st_size)
                     /\ st_size' = size
                     /\ UNCHANGED <<st_blocks, m_buf, waiting, stored, written, handle,
                                    answer, crashed>>
-----------------------------------------------------------------------------
Next ==
    /\ ~crashed
    /\ \/ \E h \in Handles :
             \/ \E mode \in Modes : FuseOpen(h, mode)
             \/ FuseFlush(h) \/ FuseFlushDuplicate(h) \/ FuseRelease(h)
             \/ \E off \in 0 .. MaxSize, n \in 1 .. MaxSize :
                   \/ \E v \in Bytes : FuseWrite(h, off, n, v)
                   \/ FuseRead(h, off, n)
       \/ \E size \in 0 .. MaxSize : FuseSetAttr(size)

Spec == Init /\ [][Next]_vars
-----------------------------------------------------------------------------
(* Properties. *)

AllBytes == Bytes \cup {Junk}
Closed == \A h \in Handles : handle[h] = "closed"

TypeOK == /\ st_size \in 0 .. MaxSize
          /\ st_blocks \in 0 .. Blocks(MaxSize)
          /\ m_buf \in Seq(AllBytes)
          /\ waiting \in BOOLEAN
          /\ stored \in Seq(AllBytes)
          /\ written \in Nat
          /\ handle \in [Handles -> Modes \cup {"spent", "closed", "flushed"}]
          /\ answer \in Seq(AllBytes)
          /\ crashed \in BOOLEAN

(***************************************************************************)
(* FuseWrite trusts realloc to have made room, and DAGonFS_Write trusts    *)
(* m_buf to reach as far as the blocks of st_size do.  st_blocks, which    *)
(* both go by, is not reset when a flush frees m_buf.                      *)
(***************************************************************************)
NoOverrun == ~crashed

(***************************************************************************)
(* What a later open asks of DAGonFS_Read is what DAGonFS_Write was last   *)
(* given: the condition on which the ranks find their own pointers         *)
(* (AskedForWritten of ClientServer).                                      *)
(***************************************************************************)
OpensAskForWritten == Closed => st_size = 0 \/ Blocks(st_size) = written

(* When the last handle is released, nothing waits to be stored: no later  *)
(* flush would store it, and the next open would load over it.             *)
NothingLeftBehind == Closed => ~waiting /\ m_buf = <<>>

(* The bytes of the file, wherever they are. *)
Content == [i \in 1 .. st_size |-> ByteOf(IF m_buf = <<>> THEN stored ELSE m_buf, i)]

File == INSTANCE PosixFile WITH content <- Content

(***************************************************************************)
(* A file used by one handle at a time behaves as a file: what was written *)
(* is read, in the same session and in later ones, longer or shorter than  *)
(* what the blocks held before, also when they were another file's.        *)
(***************************************************************************)
ImplementsPosixFile == File!Spec
=============================================================================
