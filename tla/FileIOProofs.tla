---------------------------- MODULE FileIOProofs ----------------------------
(***************************************************************************)
(* A file used by one handle at a time, by programs with none of the       *)
(* habits of AllHabits: no access leaves the buffer, an open asks for what *)
(* was written, nothing is left behind, and what FileIO does is what       *)
(* PosixFile says, for every block size, bound, set of bytes and set of    *)
(* handles.                                                                *)
(***************************************************************************)
EXTENDS FileIO, TLAPS

(* Division with remainder, the only fact about \div and % used below. *)
LEMMA DivMod ==
    ASSUME NEW n \in Nat
    PROVE  /\ n \div BlockSize \in Nat
           /\ n % BlockSize \in 0 .. BlockSize - 1
           /\ n = BlockSize * (n \div BlockSize) + (n % BlockSize)
  BY FileIOAssumption

(* The blocks of n bytes have room for them, and none is unused. *)
LEMMA BlocksRoom ==
    ASSUME NEW n \in Nat
    PROVE  /\ Blocks(n) \in Nat
           /\ BlockSize * Blocks(n) \in Nat
           /\ Blocks(n) * BlockSize = BlockSize * Blocks(n)
           /\ n <= BlockSize * Blocks(n)
           /\ BlockSize * Blocks(n) < n + BlockSize
<1> DEFINE q == n \div BlockSize
           m == n % BlockSize
<1>1. q \in Nat /\ m \in 0 .. BlockSize - 1 /\ n = BlockSize * q + m
  BY DivMod
<1>2. Blocks(n) = q + (IF m > 0 THEN 1 ELSE 0)
  BY DEF Blocks
<1> HIDE DEF q, m
<1>3. BlockSize \in Nat \ {0}
  BY FileIOAssumption
<1>4. BlockSize * (q + 1) = BlockSize * q + BlockSize /\ BlockSize * q \in Nat
  BY <1>1, <1>3
<1>5. CASE m > 0
  BY <1>1, <1>2, <1>3, <1>4, <1>5
<1>6. CASE m = 0
  BY <1>1, <1>2, <1>3, <1>4, <1>6
<1> QED BY <1>1, <1>3, <1>5, <1>6

(* More room is more blocks. *)
LEMMA RoomOrder ==
    ASSUME NEW j \in Nat, NEW k \in Nat, j < k
    PROVE  BlockSize * j + BlockSize <= BlockSize * k
<1>1. BlockSize \in Nat \ {0}
  BY FileIOAssumption
<1> DEFINE d == k - (j + 1)
<1>2. d \in Nat /\ k = (j + 1) + d
  OBVIOUS
<1> HIDE DEF d
<1>3. BlockSize * k = BlockSize * (j + 1) + BlockSize * d /\ BlockSize * (j + 1) = BlockSize * j + BlockSize
  BY <1>1, <1>2
<1>4. BlockSize * d \in Nat /\ BlockSize * j \in Nat
  BY <1>1, <1>2
<1> QED BY <1>1, <1>3, <1>4

(* The number of blocks is the only one that gives that room. *)
LEMMA BlocksUnique ==
    ASSUME NEW n \in Nat, NEW k \in Nat,
           n <= BlockSize * k, BlockSize * k < n + BlockSize
    PROVE  Blocks(n) = k
<1>1. Blocks(n) \in Nat /\ n <= BlockSize * Blocks(n) /\ BlockSize * Blocks(n) < n + BlockSize
  BY BlocksRoom
<1>2. BlockSize \in Nat /\ BlockSize * k \in Nat /\ BlockSize * Blocks(n) \in Nat
  BY <1>1, FileIOAssumption
<1>3. ~(Blocks(n) < k)
  BY <1>1, <1>2, RoomOrder
<1>4. ~(k < Blocks(n))
  BY <1>1, <1>2, RoomOrder
<1> QED BY <1>1, <1>3, <1>4

LEMMA BlocksMonotone ==
    ASSUME NEW n \in Nat, NEW s \in Nat, n <= s
    PROVE  Blocks(n) <= Blocks(s)
<1>1. /\ Blocks(n) \in Nat /\ BlockSize * Blocks(n) < n + BlockSize
      /\ Blocks(s) \in Nat /\ s <= BlockSize * Blocks(s)
  BY BlocksRoom
<1>2. BlockSize \in Nat /\ BlockSize * Blocks(n) \in Nat /\ BlockSize * Blocks(s) \in Nat
  BY <1>1, FileIOAssumption
<1>3. ~(Blocks(s) < Blocks(n))
  BY <1>1, <1>2, RoomOrder
<1> QED BY <1>1, <1>3

LEMMA BlocksOfFew ==
    /\ Blocks(0) = 0
    /\ Blocks(BlockSize) = 1
    /\ \A n \in Nat : Blocks(n) = 0 <=> n = 0
<1>1. BlockSize \in Nat \ {0} /\ BlockSize * 0 = 0 /\ BlockSize * 1 = BlockSize
  BY FileIOAssumption
<1>2. Blocks(0) = 0
  BY <1>1, BlocksUnique
<1>3. Blocks(BlockSize) = 1
  BY <1>1, BlocksUnique
<1>4. \A n \in Nat : Blocks(n) = 0 => n = 0
  BY <1>1, BlocksRoom
<1> QED BY <1>2, <1>3, <1>4

(* A write that fits in the blocks of the file leaves their number. *)
LEMMA BlocksOfWrite ==
    ASSUME NEW s \in Nat, NEW end \in Nat
    PROVE  /\ end > BlockSize * Blocks(s) => end > s
           /\ ~(end > BlockSize * Blocks(s)) /\ end > s => Blocks(end) = Blocks(s)
<1>1. /\ Blocks(s) \in Nat /\ BlockSize * Blocks(s) \in Nat
      /\ s <= BlockSize * Blocks(s) /\ BlockSize * Blocks(s) < s + BlockSize
  BY BlocksRoom
<1>2. BlockSize \in Nat
  BY FileIOAssumption
<1>3. ASSUME ~(end > BlockSize * Blocks(s)), end > s
      PROVE  Blocks(end) = Blocks(s)
  BY <1>1, <1>2, <1>3, BlocksUnique
<1> QED BY <1>1, <1>3
-----------------------------------------------------------------------------
(* The inductive invariant. *)

Used == \E h \in Handles : handle[h] \in Modes

(* One program at a time. *)
OneHandle == \A h, k \in Handles : handle[h] # "closed" /\ handle[k] # "closed" => h = k

(* st_blocks, which nobody resets, is nevertheless the blocks of st_size.  *)
BlocksExact == st_blocks = Blocks(st_size)

(* While the file is in use m_buf has room for exactly those blocks.       *)
BufferExact == IF Used THEN Len(m_buf) = BlockSize * st_blocks ELSE m_buf = <<>>

WaitsInBuffer == waiting => m_buf # <<>>

(* What does not wait is stored: so many blocks, and these bytes.          *)
StoredReach == BlockSize * written <= Len(stored)
StoredExact == ~waiting => /\ st_size = 0 \/ Blocks(st_size) = written
                           /\ m_buf # <<>> => \A i \in 1 .. st_size : m_buf[i] = stored[i]

IInv == /\ TypeOK
        /\ NoOverrun
        /\ OneHandle
        /\ BlocksExact
        /\ BufferExact
        /\ WaitsInBuffer
        /\ StoredReach
        /\ StoredExact
-----------------------------------------------------------------------------
(* A file as it is made, open or not, with or without another file's block. *)
LEMMA InitInvariant ==
    ASSUME Init
    PROVE  IInv
<1> USE DEF Init
<1>1. BlockSize \in Nat \ {0} /\ MaxSize \in Nat /\ Blocks(MaxSize) \in Nat
  BY FileIOAssumption, BlocksRoom
<1>2. /\ stored \in Seq(AllBytes) /\ Len(stored) \in Nat
      /\ BlockSize * Blocks(Len(stored)) <= Len(stored)
  <2>1. CASE stored = <<>>
    BY <1>1, <2>1, BlocksOfFew
  <2>2. CASE stored = [i \in 1 .. BlockSize |-> Junk]
    <3>1. stored \in Seq(AllBytes) /\ Len(stored) = BlockSize
      BY <1>1, <2>2 DEF AllBytes
    <3> QED BY <1>1, <3>1, BlocksOfFew
  <2> QED BY <2>1, <2>2
<1>3. OneHandle /\ handle \in [Handles -> Modes \cup {"spent", "closed", "flushed"}]
  BY DEF OneHandle, Modes
<1>4. written \in Nat
  BY <1>2, BlocksRoom
<1>5. TypeOK
  <2> HIDE DEF Init
  <2>1. st_size = 0 /\ st_blocks = 0 /\ m_buf = <<>> /\ answer = <<>> /\ ~waiting /\ ~crashed
    BY DEF Init
  <2>2. waiting \in BOOLEAN /\ crashed \in BOOLEAN
    BY DEF Init
  <2> QED BY <1>1, <1>2, <1>3, <1>4, <2>1, <2>2 DEF TypeOK
<1>6. BufferExact /\ BlocksExact
  BY <1>1, BlocksOfFew DEF BufferExact, BlocksExact
<1> QED BY <1>2, <1>3, <1>5, <1>6 DEF IInv, NoOverrun, WaitsInBuffer, StoredReach, StoredExact

(* What the steps need of the types. *)
LEMMA Sizes ==
    ASSUME IInv
    PROVE  /\ st_size \in Nat /\ st_size <= MaxSize /\ MaxSize \in Nat
           /\ BlockSize \in Nat \ {0}
           /\ st_blocks = Blocks(st_size) /\ st_blocks \in Nat
           /\ BlockSize * st_blocks \in Nat
           /\ st_size <= BlockSize * st_blocks
           /\ m_buf \in Seq(AllBytes) /\ stored \in Seq(AllBytes)
           /\ Len(m_buf) \in Nat /\ Len(stored) \in Nat
           /\ waiting \in BOOLEAN /\ ~crashed
           /\ handle \in [Handles -> Modes \cup {"spent", "closed", "flushed"}]
<1>1. /\ st_size \in Nat /\ st_size <= MaxSize /\ MaxSize \in Nat /\ BlockSize \in Nat \ {0}
      /\ st_blocks = Blocks(st_size)
  BY FileIOAssumption DEF IInv, TypeOK, BlocksExact
<1>2. st_blocks \in Nat /\ BlockSize * st_blocks \in Nat /\ st_size <= BlockSize * st_blocks
  BY <1>1, BlocksRoom
<1>3. /\ m_buf \in Seq(AllBytes) /\ stored \in Seq(AllBytes)
      /\ waiting \in BOOLEAN /\ ~crashed
      /\ handle \in [Handles -> Modes \cup {"spent", "closed", "flushed"}]
  BY DEF IInv, TypeOK, NoOverrun
<1> QED BY <1>1, <1>2, <1>3

(* An open, by a program that finds the file unused, loads what is stored. *)
LEMMA OpenInvariant ==
    ASSUME IInv, Habits = {}, NEW h \in Handles, NEW mode \in Modes, FuseOpen(h, mode)
    PROVE  IInv'
<1>1. /\ \A k \in Handles : handle[k] = "closed"
      /\ handle' = [handle EXCEPT ![h] = mode]
      /\ UNCHANGED <<waiting, stored, written, answer>>
  BY DEF FuseOpen
<1>2. handle \in [Handles -> Modes \cup {"spent", "closed", "flushed"}]
  BY Sizes
<1>3. OneHandle' /\ Used' /\ ~Used
  BY <1>1, <1>2 DEF OneHandle, Used, Modes
<1>4. m_buf = <<>> /\ ~waiting
  BY <1>3 DEF IInv, BufferExact, WaitsInBuffer
<1>5. CASE Loads(mode)
  <2>1. DAGonFS_Read /\ UNCHANGED <<st_size, st_blocks>>
    BY <1>5 DEF FuseOpen
  <2>2. st_size = 0 \/ Blocks(st_size) = written
    BY <1>4 DEF IInv, StoredExact
  <2>3. Blocks(st_size) * BlockSize = 0 \/ Blocks(st_size) = written
    BY <2>2, BlocksOfFew, Sizes
  <2>4. m_buf' = SubSeq(stored, 1, Blocks(st_size) * BlockSize) /\ crashed' = crashed
    BY <2>1, <2>3 DEF DAGonFS_Read
  <2>5. Blocks(st_size) * BlockSize = BlockSize * st_blocks /\ BlockSize * st_blocks <= Len(stored)
    <3>1. Blocks(st_size) * BlockSize = BlockSize * st_blocks
      BY Sizes, BlocksRoom
    <3>2. CASE Blocks(st_size) = written
      BY <3>2, Sizes DEF IInv, StoredReach
    <3>3. CASE Blocks(st_size) * BlockSize = 0
      BY <3>1, <3>3, Sizes
    <3> QED BY <2>3, <3>1, <3>2, <3>3
  <2>6. /\ m_buf' \in Seq(AllBytes) /\ Len(m_buf') = BlockSize * st_blocks
        /\ \A i \in 1 .. st_size : m_buf'[i] = stored[i]
    <3> DEFINE n == BlockSize * st_blocks
    <3>1. n \in Nat /\ n <= Len(stored) /\ st_size <= n /\ m_buf' = SubSeq(stored, 1, n)
      BY <2>4, <2>5, Sizes
    <3> HIDE DEF n
    <3>2. m_buf' \in Seq(AllBytes) /\ Len(m_buf') = n /\ \A i \in 1 .. n : m_buf'[i] = stored[i]
      BY <3>1, Sizes
    <3> QED BY <3>1, <3>2, Sizes DEF n
  <2>7. TypeOK'
    BY <1>1, <1>2, <2>1, <2>4, <2>6 DEF IInv, TypeOK
  <2> QED BY <1>1, <1>3, <1>4, <2>1, <2>2, <2>4, <2>6, <2>7
          DEF IInv, NoOverrun, BlocksExact, BufferExact, WaitsInBuffer, StoredReach, StoredExact
<1>6. CASE ~Loads(mode)
  <2>1. st_size' = 0 /\ st_blocks' = 0 /\ UNCHANGED <<m_buf, crashed>>
    BY <1>6 DEF FuseOpen
  <2>2. 0 \in 0 .. MaxSize /\ 0 \in 0 .. Blocks(MaxSize)
    BY BlocksRoom, Sizes
  <2>3. TypeOK'
    BY <1>1, <1>2, <2>1, <2>2 DEF IInv, TypeOK
  <2>4. BlocksExact' /\ BufferExact'
    BY <1>3, <1>4, <2>1, BlocksOfFew, Sizes DEF BlocksExact, BufferExact
  <2> QED BY <1>1, <1>3, <1>4, <2>1, <2>3, <2>4
          DEF IInv, NoOverrun, WaitsInBuffer, StoredReach, StoredExact
<1> QED BY <1>5, <1>6

(* A write makes room for what it adds, counts it in both sizes and marks  *)
(* the file; what it finds in the buffer it goes by is as st_blocks says.  *)
LEMMA WriteInvariant ==
    ASSUME IInv, Habits = {}, NEW h \in Handles,
           NEW off \in 0 .. MaxSize, NEW n \in 1 .. MaxSize, NEW v \in Bytes,
           FuseWrite(h, off, n, v)
    PROVE  IInv'
<1> DEFINE end    == off + n
           grows  == end > BlockSize * st_blocks
           buffer == IF grows THEN Realloc(m_buf, Blocks(end) * BlockSize) ELSE m_buf
<1>1. /\ handle[h] \in Writers /\ off <= st_size /\ end <= MaxSize
      /\ waiting' = TRUE
      /\ st_blocks' = IF grows THEN Blocks(end) ELSE st_blocks
      /\ crashed' = (end > Len(buffer))
      /\ m_buf' = [i \in DOMAIN buffer |-> IF i \in off + 1 .. end THEN v ELSE buffer[i]]
      /\ st_size' = IF end > st_size THEN end ELSE st_size
      /\ UNCHANGED <<stored, written, handle, answer>>
  BY DEF FuseWrite
<1>2. end \in Nat /\ end > 0 /\ off \in Nat /\ n \in Nat
  BY Sizes
<1>3. Used /\ Used' /\ OneHandle'
  BY <1>1 DEF Used, Writers, Modes, IInv, OneHandle
<1>4. Len(m_buf) = BlockSize * st_blocks
  BY <1>3 DEF IInv, BufferExact
<1>5. Blocks(end) \in Nat /\ Blocks(end) * BlockSize = BlockSize * Blocks(end) /\ BlockSize * Blocks(end) \in Nat
  BY <1>2, BlocksRoom
<1>6. buffer \in Seq(AllBytes) /\ Len(buffer) = BlockSize * st_blocks' /\ end <= Len(buffer)
  <2>1. CASE grows
    <3> DEFINE cap == Blocks(end) * BlockSize
    <3>1. cap \in Nat /\ buffer = Realloc(m_buf, cap)
      BY <1>5, <2>1
    <3> HIDE DEF cap, buffer
    <3>2. \A i \in 1 .. cap : ByteOf(m_buf, i) \in AllBytes
      BY Sizes DEF ByteOf, AllBytes
    <3>3. buffer \in Seq(AllBytes) /\ Len(buffer) = cap
      BY <3>1, <3>2 DEF Realloc
    <3>4. st_blocks' = Blocks(end)
      BY <1>1, <2>1
    <3>5. end <= BlockSize * Blocks(end)
      BY <1>2, BlocksRoom
    <3> QED BY <1>5, <3>3, <3>4, <3>5 DEF cap
  <2>2. CASE ~grows
    BY <1>1, <1>2, <1>4, <2>2, Sizes
  <2> QED BY <2>1, <2>2
<1>7. st_blocks' = Blocks(st_size')
  <2>1. CASE grows
    <3>1. end > st_size
      BY <1>2, <2>1, Sizes, BlocksOfWrite
    <3> QED BY <1>1, <2>1, <3>1
  <2>2. CASE ~grows
    <3>1. end > st_size => Blocks(end) = Blocks(st_size)
      BY <1>2, <2>2, Sizes, BlocksOfWrite
    <3> QED BY <1>1, <2>2, <3>1, Sizes
  <2> QED BY <2>1, <2>2
<1>8. st_size' \in 0 .. MaxSize
  BY <1>1, <1>2, Sizes
<1>9. st_blocks' \in 0 .. Blocks(MaxSize)
  BY <1>7, <1>8, Sizes, BlocksMonotone, BlocksRoom
<1> HIDE DEF grows, buffer
<1>10. m_buf' \in Seq(AllBytes) /\ Len(m_buf') = Len(buffer) /\ Len(buffer) \in Nat
  <2>1. Len(buffer) \in Nat /\ DOMAIN buffer = 1 .. Len(buffer) /\ \A i \in DOMAIN buffer : buffer[i] \in AllBytes
    BY <1>6
  <2>2. v \in AllBytes
    BY DEF AllBytes
  <2> QED BY <1>1, <2>1, <2>2
<1>11. crashed' = FALSE /\ m_buf' # <<>>
  <2>1. Len(m_buf') > 0
    BY <1>2, <1>6, <1>10
  <2>2. ~(end > Len(buffer))
    BY <1>2, <1>6, <1>10
  <2>3. crashed' = (end > Len(buffer))
    BY <1>1
  <2>4. (end > Len(buffer)) = FALSE
    BY <1>2, <1>10, <2>2
  <2>5. crashed' = FALSE
    BY <2>3, <2>4
  <2>6. m_buf' # <<>>
    BY <2>1
  <2> QED BY <2>5, <2>6
<1>12. TypeOK'
  <2>1. waiting' \in BOOLEAN /\ crashed' \in BOOLEAN
    BY <1>1, <1>11
  <2>2. /\ stored \in Seq(AllBytes) /\ written \in Nat /\ answer \in Seq(AllBytes)
        /\ handle \in [Handles -> Modes \cup {"spent", "closed", "flushed"}]
    BY DEF IInv, TypeOK
  <2> QED BY <1>1, <1>8, <1>9, <1>10, <2>1, <2>2 DEF TypeOK
<1>13. BufferExact'
  BY <1>3, <1>6, <1>10 DEF BufferExact
<1> QED BY <1>1, <1>3, <1>7, <1>11, <1>12, <1>13
        DEF IInv, NoOverrun, BlocksExact, WaitsInBuffer, StoredReach, StoredExact

(* DAGonFS_Write stores all of the buffer, and nothing from behind it. *)
LEMMA StoreStep ==
    ASSUME IInv, m_buf # <<>>, DAGonFS_Write
    PROVE  /\ stored' \in Seq(AllBytes) /\ Len(stored') \in Nat
           /\ BlockSize * written' <= Len(stored')
           /\ written' = Blocks(st_size) /\ written' \in Nat
           /\ crashed' = FALSE
           /\ \A i \in 1 .. st_size : stored'[i] = ByteOf(m_buf, i)
<1> DEFINE n == Blocks(st_size) * BlockSize
           last == IF n > Len(stored) THEN n ELSE Len(stored)
<1>1. n = BlockSize * st_blocks /\ n \in Nat /\ st_size <= n
  BY Sizes, BlocksRoom
<1>2. Len(m_buf) = n
  BY <1>1 DEF IInv, BufferExact
<1>3. /\ stored' = [i \in 1 .. last |-> IF i <= n THEN ByteOf(m_buf, i) ELSE stored[i]]
      /\ written' = Blocks(st_size)
      /\ crashed' = (crashed \/ n > Len(m_buf))
  BY DEF DAGonFS_Write
<1>4. n = BlockSize * written'
  BY <1>1, <1>3, Sizes
<1> HIDE DEF n
<1>5. last \in Nat /\ n <= last /\ \A i \in 1 .. last : i <= n \/ i \in 1 .. Len(stored)
  BY <1>1, Sizes
<1> HIDE DEF last
<1>6. \A i \in 1 .. last : (IF i <= n THEN ByteOf(m_buf, i) ELSE stored[i]) \in AllBytes
  BY <1>5, Sizes DEF ByteOf, AllBytes
<1>7. stored' \in Seq(AllBytes) /\ Len(stored') = last
  BY <1>3, <1>5, <1>6
<1>8. crashed' = FALSE
  <2>1. (crashed \/ n > Len(m_buf)) = FALSE
    BY <1>1, <1>2, Sizes
  <2> QED BY <1>3, <2>1
<1>9. \A i \in 1 .. st_size : stored'[i] = ByteOf(m_buf, i)
  BY <1>1, <1>3, <1>5, Sizes
<1> QED BY <1>1, <1>3, <1>4, <1>5, <1>7, <1>8, <1>9, Sizes

(* What a flush leaves, of a file in use or not. *)
LEMMA FlushStep ==
    ASSUME IInv, Flush
    PROVE  /\ st_size' = st_size /\ st_blocks' = st_blocks
           /\ m_buf' = <<>> /\ waiting' = FALSE
           /\ stored' \in Seq(AllBytes) /\ written' \in Nat
           /\ BlockSize * written' <= Len(stored')
           /\ st_size = 0 \/ Blocks(st_size) = written'
           /\ crashed' = FALSE
<1>1. crashed = FALSE /\ written \in Nat /\ stored \in Seq(AllBytes)
  BY DEF IInv, TypeOK, NoOverrun
<1>2. CASE m_buf = <<>>
  <2>1. UNCHANGED <<st_size, st_blocks, m_buf, waiting, stored, written, crashed>>
    BY <1>2 DEF Flush, file
  <2>2. waiting = FALSE
    BY <1>2 DEF IInv, WaitsInBuffer, TypeOK
  <2> QED BY <1>1, <1>2, <2>1, <2>2 DEF IInv, StoredReach, StoredExact
<1>3. CASE m_buf # <<>> /\ waiting
  <2>1. DAGonFS_Write /\ waiting' = FALSE /\ m_buf' = <<>> /\ UNCHANGED <<st_size, st_blocks>>
    BY <1>3 DEF Flush
  <2> QED BY <1>3, <2>1, StoreStep
<1>4. CASE m_buf # <<>> /\ ~waiting
  <2>1. /\ UNCHANGED <<stored, written, crashed>>
        /\ waiting' = FALSE /\ m_buf' = <<>> /\ UNCHANGED <<st_size, st_blocks>>
    BY <1>4 DEF Flush
  <2> QED BY <1>1, <1>4, <2>1 DEF IInv, StoredReach, StoredExact
<1> QED BY <1>2, <1>3, <1>4

(* A handle that was flushed is used no more, but by a duplicate that only *)
(* flushes.                                                                *)
LEMMA FlushInvariant ==
    ASSUME IInv, NEW h \in Handles, InUse(h), Flush, UNCHANGED answer,
           NEW place \in {"flushed", "spent"}, handle' = [handle EXCEPT ![h] = place]
    PROVE  IInv'
<1>1. /\ st_size' = st_size /\ st_blocks' = st_blocks
      /\ m_buf' = <<>> /\ waiting' = FALSE
      /\ stored' \in Seq(AllBytes) /\ written' \in Nat
      /\ BlockSize * written' <= Len(stored')
      /\ st_size = 0 \/ Blocks(st_size) = written'
      /\ crashed' = FALSE
  BY FlushStep
<1>2. handle[h] # "closed" /\ handle \in [Handles -> Modes \cup {"spent", "closed", "flushed"}]
  BY Sizes DEF InUse, Modes
<1>3. OneHandle' /\ ~Used'
  BY <1>2 DEF IInv, OneHandle, Used, Modes
<1>4. TypeOK'
  <2>1. waiting' \in BOOLEAN /\ crashed' \in BOOLEAN /\ m_buf' \in Seq(AllBytes)
    <3>1. m_buf' \in Seq(AllBytes)
      BY <1>1
    <3> QED BY <1>1, <3>1
  <2>2. handle' \in [Handles -> Modes \cup {"spent", "closed", "flushed"}]
    BY <1>2
  <2> QED BY <1>1, <2>1, <2>2 DEF IInv, TypeOK
<1>5. BlocksExact'
  BY <1>1 DEF IInv, BlocksExact
<1> QED BY <1>1, <1>3, <1>4, <1>5
        DEF IInv, NoOverrun, BufferExact, WaitsInBuffer, StoredReach, StoredExact

LEMMA ReleaseInvariant ==
    ASSUME IInv, NEW h \in Handles, FuseRelease(h)
    PROVE  IInv'
<1>1. /\ handle[h] = "flushed" /\ handle' = [handle EXCEPT ![h] = "closed"]
      /\ m_buf' = <<>>
      /\ UNCHANGED <<st_size, st_blocks, waiting, stored, written, answer, crashed>>
  BY DEF FuseRelease
<1>2. ~Used /\ ~Used' /\ OneHandle'
  BY <1>1, Sizes DEF IInv, OneHandle, Used, Modes
<1>3. m_buf = <<>>
  BY <1>2 DEF IInv, BufferExact
<1>4. TypeOK'
  BY <1>1, <1>3, Sizes DEF IInv, TypeOK
<1> QED BY <1>1, <1>2, <1>3, <1>4
        DEF IInv, NoOverrun, BlocksExact, BufferExact, WaitsInBuffer, StoredReach, StoredExact

(* A truncation within the last block of what waits in the buffer. *)
LEMMA SetAttrInvariant ==
    ASSUME IInv, Habits = {}, NEW size \in 0 .. MaxSize, FuseSetAttr(size)
    PROVE  IInv'
<1>1. /\ waiting /\ size <= st_size /\ Blocks(size) = Blocks(st_size)
      /\ st_size' = size
      /\ UNCHANGED <<st_blocks, m_buf, waiting, stored, written, handle, answer, crashed>>
  BY DEF FuseSetAttr
<1>2. TypeOK'
  BY <1>1 DEF IInv, TypeOK
<1>3. BufferExact' /\ BlocksExact' /\ OneHandle'
  BY <1>1 DEF IInv, BufferExact, BlocksExact, OneHandle, Used
<1> QED BY <1>1, <1>2, <1>3
        DEF IInv, NoOverrun, WaitsInBuffer, StoredReach, StoredExact
-----------------------------------------------------------------------------
LEMMA NextInvariant ==
    ASSUME IInv, Habits = {}, [Next]_vars
    PROVE  IInv'
<1>1. ASSUME NEW h \in Handles, NEW mode \in Modes, FuseOpen(h, mode)
      PROVE  IInv'
  BY <1>1, OpenInvariant
<1>2. ASSUME NEW h \in Handles, FuseFlush(h)
      PROVE  IInv'
  BY <1>2, FlushInvariant DEF FuseFlush
<1>3. ASSUME NEW h \in Handles, FuseFlushDuplicate(h)
      PROVE  IInv'
  <2>1. handle' = [handle EXCEPT ![h] = "spent"]
    BY <1>3 DEF FuseFlushDuplicate
  <2> QED BY <1>3, <2>1, FlushInvariant DEF FuseFlushDuplicate
<1>4. ASSUME NEW h \in Handles, FuseRelease(h)
      PROVE  IInv'
  BY <1>4, ReleaseInvariant
<1>5. ASSUME NEW h \in Handles, NEW off \in 0 .. MaxSize, NEW n \in 1 .. MaxSize, NEW v \in Bytes,
             FuseWrite(h, off, n, v)
      PROVE  IInv'
  BY <1>5, WriteInvariant
<1>6. ASSUME NEW h \in Handles, NEW off \in 0 .. MaxSize, NEW n \in 1 .. MaxSize, FuseRead(h, off, n)
      PROVE  IInv'
  <2>1. UNCHANGED <<st_size, st_blocks, m_buf, waiting, stored, written, handle, crashed>>
    BY <1>6 DEF FuseRead, file
  <2>2. answer' \in Seq(AllBytes)
    <3> DEFINE bytesRead == IF off + n > st_size THEN st_size - off ELSE n
    <3>1. answer' = [i \in 1 .. bytesRead |-> ByteOf(m_buf, off + i)] /\ off <= st_size
      BY <1>6 DEF FuseRead
    <3>2. bytesRead \in Nat /\ off \in Nat
      BY <3>1, Sizes
    <3> HIDE DEF bytesRead
    <3>3. \A i \in 1 .. bytesRead : ByteOf(m_buf, off + i) \in AllBytes
      BY <3>2, Sizes DEF ByteOf, AllBytes
    <3> QED BY <3>1, <3>2, <3>3
  <2>3. TypeOK'
    BY <2>1, <2>2 DEF IInv, TypeOK
  <2> QED BY <2>1, <2>3 DEF IInv, NoOverrun, OneHandle, BlocksExact, BufferExact, Used,
                            WaitsInBuffer, StoredReach, StoredExact
<1>7. ASSUME NEW size \in 0 .. MaxSize, FuseSetAttr(size)
      PROVE  IInv'
  BY <1>7, SetAttrInvariant
<1>8. CASE UNCHANGED vars
  BY <1>8 DEF vars, file, IInv, TypeOK, NoOverrun, OneHandle, BlocksExact, BufferExact, Used,
              WaitsInBuffer, StoredReach, StoredExact
<1> QED BY <1>1, <1>2, <1>3, <1>4, <1>5, <1>6, <1>7, <1>8 DEF Next

(***************************************************************************)
(* What holds of a file in every state while programs are careful: its     *)
(* blocks are those of its size, and m_buf, while in use, is as long.      *)
(***************************************************************************)
THEOREM Invariance ==
    ASSUME Habits = {}
    PROVE  Spec => []IInv
<1>1. Init => IInv
  BY InitInvariant
<1>2. IInv /\ [Next]_vars => IInv'
  BY NextInvariant
<1> QED BY <1>1, <1>2, PTL DEF Spec

(***************************************************************************)
(* The handlers of a file keep sizes and contents in their types.          *)
(***************************************************************************)
THEOREM TypeCorrect ==
    ASSUME Habits = {}
    PROVE  Spec => []TypeOK
<1>1. IInv => TypeOK
  BY DEF IInv
<1> QED BY <1>1, Invariance, PTL

(***************************************************************************)
(* Neither FuseWrite nor DAGonFS_Write goes past the end of m_buf, and     *)
(* DAGonFS_Read asks for no pointer that was not written: st_blocks, which *)
(* a flush leaves, is right again when the file is opened next.            *)
(***************************************************************************)
THEOREM BufferSafe ==
    ASSUME Habits = {}
    PROVE  Spec => []NoOverrun
<1>1. IInv => NoOverrun
  BY DEF IInv
<1> QED BY <1>1, Invariance, PTL

(***************************************************************************)
(* An open asks DAGonFS_Read for as many blocks as were last written.      *)
(***************************************************************************)
THEOREM AsksForWritten ==
    ASSUME Habits = {}
    PROVE  Spec => []OpensAskForWritten
<1>1. ASSUME IInv, Closed
      PROVE  st_size = 0 \/ Blocks(st_size) = written
  <2>1. ~Used
    BY <1>1 DEF Closed, Used, Modes
  <2> QED BY <1>1, <2>1 DEF IInv, BufferExact, WaitsInBuffer, StoredExact
<1>2. IInv => OpensAskForWritten
  BY <1>1 DEF OpensAskForWritten
<1> QED BY <1>2, Invariance, PTL

(***************************************************************************)
(* Nothing waits in the buffer once the last handle is released.           *)
(***************************************************************************)
THEOREM NothingWaits ==
    ASSUME Habits = {}
    PROVE  Spec => []NothingLeftBehind
<1>1. ASSUME IInv, Closed
      PROVE  ~waiting /\ m_buf = <<>>
  <2>1. ~Used
    BY <1>1 DEF Closed, Used, Modes
  <2> QED BY <1>1, <2>1 DEF IInv, BufferExact, WaitsInBuffer
<1>2. IInv => NothingLeftBehind
  BY <1>1 DEF NothingLeftBehind
<1> QED BY <1>2, Invariance, PTL
-----------------------------------------------------------------------------
(* The refinement.  Each lemma maps one step to one of PosixFile, or to    *)
(* none.                                                                   *)

(* The bytes are in the buffer as long as there is one. *)
LEMMA ContentType ==
    ASSUME IInv
    PROVE  Content = [i \in 1 .. st_size |-> Content[i]] /\ Len(Content) = st_size
  BY Sizes DEF Content

LEMMA ContentOfBuffer ==
    ASSUME IInv, Used
    PROVE  /\ Len(m_buf) = BlockSize * st_blocks /\ st_size <= Len(m_buf)
           /\ \A i \in 1 .. st_size : Content[i] = m_buf[i]
<1>1. Len(m_buf) = BlockSize * st_blocks /\ st_size <= Len(m_buf)
  BY Sizes DEF IInv, BufferExact
<1>2. m_buf = <<>> => st_size = 0
  BY <1>1, Sizes
<1> QED BY <1>1, <1>2, Sizes DEF Content, ByteOf

(* The initial file is empty, whatever its blocks hold. *)
LEMMA InitMaps ==
    ASSUME Init
    PROVE  File!Init
  BY DEF Init, File!Init, Content

LEMMA OpenMaps ==
    ASSUME IInv, IInv', Habits = {}, NEW h \in Handles, NEW mode \in Modes, FuseOpen(h, mode)
    PROVE  [File!Next]_(File!vars)
<1>1. /\ \A k \in Handles : handle[k] = "closed"
      /\ UNCHANGED <<waiting, stored, written, answer>>
  BY DEF FuseOpen
<1>2. ~Used
  BY <1>1 DEF Used, Modes
<1>3. m_buf = <<>> /\ ~waiting
  BY <1>2 DEF IInv, BufferExact, WaitsInBuffer
<1>4. CASE Loads(mode)
  <2>1. st_size' = st_size
    BY <1>4 DEF FuseOpen
  <2>2. m_buf' # <<>> => \A i \in 1 .. st_size : m_buf'[i] = stored[i] /\ i <= Len(m_buf')
    <3>1. ASSUME m_buf' # <<>>
          PROVE  \A i \in 1 .. st_size : m_buf'[i] = stored[i]
      BY <1>1, <1>3, <2>1, <3>1 DEF IInv, StoredExact
    <3>2. Used'
      BY Sizes DEF FuseOpen, Used
    <3>3. st_size' <= Len(m_buf')
      <4>1. Len(m_buf') = BlockSize * st_blocks' /\ st_blocks' = Blocks(st_size') /\ st_size' \in Nat
        BY <2>1, <3>2, Sizes DEF IInv, BufferExact, BlocksExact
      <4> QED BY <4>1, BlocksRoom
    <3> QED BY <2>1, <3>1, <3>3, Sizes
  <2>3. \A i \in 1 .. st_size : i <= Len(stored)
    <3>1. st_size = 0 \/ Blocks(st_size) = written
      BY <1>3 DEF IInv, StoredExact
    <3>2. st_size <= Len(stored) \/ st_size = 0
      BY <3>1, Sizes DEF IInv, StoredReach
    <3> QED BY <3>2, Sizes
  <2>4. Content' = Content
    BY <1>1, <1>3, <2>1, <2>2, <2>3 DEF Content, ByteOf
  <2> QED BY <1>1, <2>4 DEF File!vars
<1>5. CASE ~Loads(mode)
  <2>1. st_size' = 0 /\ answer' = answer
    BY <1>1, <1>5 DEF FuseOpen
  <2>2. Content' = <<>>
    BY <2>1 DEF Content
  <2>3. SubSeq(Content, 1, 0) = <<>>
    OBVIOUS
  <2>4. File!Shrink(0)
    BY <2>1, <2>2, <2>3 DEF File!Shrink
  <2>5. 0 \in 0 .. Len(Content)
    BY ContentType, Sizes
  <2> QED BY <2>4, <2>5 DEF File!Next
<1> QED BY <1>4, <1>5

LEMMA WriteMaps ==
    ASSUME IInv, IInv', NEW h \in Handles, Habits = {},
           NEW off \in 0 .. MaxSize, NEW n \in 1 .. MaxSize, NEW v \in Bytes,
           FuseWrite(h, off, n, v)
    PROVE  File!Next
<1> DEFINE end    == off + n
           grows  == end > BlockSize * st_blocks
           buffer == IF grows THEN Realloc(m_buf, Blocks(end) * BlockSize) ELSE m_buf
           last   == IF end > st_size THEN end ELSE st_size
<1>1. /\ handle[h] \in Writers /\ off <= st_size /\ end <= MaxSize
      /\ m_buf' = [i \in DOMAIN buffer |-> IF i \in off + 1 .. end THEN v ELSE buffer[i]]
      /\ st_size' = last
      /\ answer' = answer /\ handle' = handle
  BY DEF FuseWrite
<1>2. off \in Nat /\ n \in Nat /\ end \in Nat /\ last \in Nat /\ st_size \in Nat /\ end > 0
  BY Sizes
<1>3. Used /\ Used'
  BY <1>1 DEF Used, Writers, Modes
<1>4. /\ Len(m_buf) \in Nat /\ st_size <= Len(m_buf)
      /\ \A i \in 1 .. st_size : Content[i] = m_buf[i]
  BY <1>3, ContentOfBuffer, Sizes
<1>5. Len(m_buf') \in Nat /\ last <= Len(m_buf') /\ DOMAIN m_buf' = 1 .. Len(m_buf')
  <2>1. /\ Len(m_buf') = BlockSize * st_blocks' /\ st_blocks' = Blocks(st_size') /\ st_size' \in Nat
        /\ m_buf' \in Seq(AllBytes)
    BY <1>1, <1>2, <1>3 DEF IInv, BufferExact, BlocksExact, TypeOK
  <2>2. st_size' <= BlockSize * Blocks(st_size')
    BY <2>1, BlocksRoom
  <2>3. st_size' = last
    BY <1>1
  <2> HIDE DEF last, buffer, grows
  <2> QED BY <2>1, <2>2, <2>3
<1>6. \A i \in 1 .. st_size : i \in DOMAIN buffer => buffer[i] = m_buf[i]
  <2>1. \A cap : \A i \in 1 .. cap : i <= Len(m_buf) => Realloc(m_buf, cap)[i] = m_buf[i]
    BY DEF Realloc, ByteOf
  <2>2. \A cap : DOMAIN Realloc(m_buf, cap) = 1 .. cap
    BY DEF Realloc
  <2>3. buffer = m_buf \/ buffer = Realloc(m_buf, Blocks(end) * BlockSize)
    OBVIOUS
  <2> HIDE DEF grows, buffer, end
  <2>4. CASE buffer = m_buf
    BY <2>4
  <2>5. CASE buffer = Realloc(m_buf, Blocks(end) * BlockSize)
    <3> DEFINE cap == Blocks(end) * BlockSize
    <3>1. buffer = Realloc(m_buf, cap)
      BY <2>5
    <3> HIDE DEF cap
    <3>2. \A i \in DOMAIN buffer : i \in 1 .. cap
      BY <2>2, <3>1
    <3>3. \A i \in 1 .. st_size : i <= Len(m_buf)
      BY <1>2, <1>4
    <3> QED BY <2>1, <3>1, <3>2, <3>3
  <2> QED BY <2>3, <2>4, <2>5
<1> HIDE DEF buffer
<1>7. \A i \in 1 .. last : m_buf'[i] = IF i \in off + 1 .. end THEN v ELSE Content[i]
  <2> SUFFICES ASSUME NEW i \in 1 .. last
               PROVE  m_buf'[i] = IF i \in off + 1 .. end THEN v ELSE Content[i]
    OBVIOUS
  <2>1. i \in DOMAIN buffer
    <3>1. DOMAIN m_buf' = DOMAIN buffer
      BY <1>1
    <3> QED BY <1>2, <1>5, <3>1
  <2>2. CASE i \in off + 1 .. end
    BY <1>1, <2>1, <2>2
  <2>3. CASE i \notin off + 1 .. end
    <3>1. i \in 1 .. st_size
      BY <1>1, <1>2, <2>3
    <3> QED BY <1>1, <1>4, <1>6, <2>1, <2>3, <3>1
  <2> QED BY <2>2, <2>3
<1>8. Content' = [i \in 1 .. last |-> m_buf'[i]]
  <2>1. m_buf' # <<>>
    BY <1>2, <1>5
  <2> QED BY <1>1, <1>2, <1>5, <2>1 DEF Content, ByteOf
<1>9. Len(Content) = st_size
  BY ContentType
<1>10. Content' = File!Overwrite(Content, off, n, v)
  BY <1>7, <1>8, <1>9 DEF File!Overwrite
<1>11. off \in 0 .. Len(Content) /\ n \in 1 .. MaxSize - off
  BY <1>1, <1>2, <1>9, Sizes
<1>12. File!Write(off, n, v)
  BY <1>1, <1>10 DEF File!Write
<1> QED BY <1>11, <1>12 DEF File!Next

LEMMA ReadMaps ==
    ASSUME IInv, NEW h \in Handles,
           NEW off \in 0 .. MaxSize, NEW n \in 1 .. MaxSize, FuseRead(h, off, n)
    PROVE  File!Next
<1> DEFINE bytesRead == IF off + n > st_size THEN st_size - off ELSE n
           last      == IF off + n > Len(Content) THEN Len(Content) ELSE off + n
<1>1. /\ handle[h] \in Readers /\ off <= st_size
      /\ answer' = [i \in 1 .. bytesRead |-> ByteOf(m_buf, off + i)]
      /\ UNCHANGED <<st_size, m_buf, stored>>
  BY DEF FuseRead, file
<1>2. off \in Nat /\ n \in Nat /\ st_size \in Nat /\ bytesRead \in Nat
  BY <1>1, Sizes
<1>3. Used
  BY <1>1 DEF Used, Readers, Modes
<1>4. st_size <= Len(m_buf) /\ \A i \in 1 .. st_size : Content[i] = m_buf[i]
  BY <1>3, ContentOfBuffer
<1>5. Len(Content) = st_size /\ Content = [i \in 1 .. st_size |-> Content[i]]
  BY ContentType
<1>6. off + bytesRead = last /\ last \in Nat /\ last <= st_size
  BY <1>1, <1>2, <1>5
<1>7. \A i \in 1 .. bytesRead : ByteOf(m_buf, off + i) = Content[off + i]
  <2> SUFFICES ASSUME NEW i \in 1 .. bytesRead
               PROVE  ByteOf(m_buf, off + i) = Content[off + i]
    OBVIOUS
  <2>1. off + i \in 1 .. st_size
    BY <1>2, <1>6
  <2> QED BY <1>2, <1>4, <2>1, Sizes DEF ByteOf
<1> HIDE DEF bytesRead, last
<1>8. SubSeq(Content, off + 1, last) = [i \in 1 .. bytesRead |-> Content[off + i]]
  BY <1>2, <1>5, <1>6
<1>9. answer' = SubSeq(Content, off + 1, last)
  BY <1>1, <1>7, <1>8
<1>10. Content' = Content
  BY <1>1 DEF Content
<1>11. File!Read(off, n)
  BY <1>9, <1>10 DEF File!Read, last
<1>12. off \in 0 .. Len(Content)
  BY <1>1, <1>2, <1>5
<1> QED BY <1>11, <1>12 DEF File!Next

(* A flush moves the bytes, and changes none. *)
LEMMA FlushMaps ==
    ASSUME IInv, Flush, UNCHANGED answer
    PROVE  UNCHANGED File!vars
<1>1. st_size' = st_size /\ m_buf' = <<>>
  BY FlushStep
<1>2. CASE m_buf = <<>>
  BY <1>1, <1>2 DEF Flush, file, Content, File!vars
<1>3. CASE m_buf # <<>>
  <2>1. Used
    BY <1>3 DEF IInv, BufferExact
  <2>2. st_size <= Len(m_buf) /\ st_size \in Nat /\ Len(m_buf) \in Nat
    BY <2>1, ContentOfBuffer, Sizes
  <2>3. \A i \in 1 .. st_size : stored'[i] = m_buf[i] /\ i <= Len(stored')
    <3>1. CASE waiting
      <4>1. DAGonFS_Write
        BY <1>3, <3>1 DEF Flush
      <4>2. /\ Len(stored') \in Nat /\ BlockSize * written' <= Len(stored')
            /\ written' = Blocks(st_size)
            /\ \A i \in 1 .. st_size : stored'[i] = ByteOf(m_buf, i)
        BY <1>3, <4>1, StoreStep
      <4>3. st_size <= Len(stored')
        BY <4>2, Sizes
      <4> QED BY <2>2, <4>2, <4>3 DEF ByteOf
    <3>2. CASE ~waiting
      <4>1. stored' = stored
        BY <1>3, <3>2 DEF Flush
      <4>2. \A i \in 1 .. st_size : m_buf[i] = stored[i]
        BY <1>3, <3>2 DEF IInv, StoredExact
      <4>3. st_size = 0 \/ BlockSize * Blocks(st_size) <= Len(stored)
        BY <3>2 DEF IInv, StoredExact, StoredReach
      <4>4. st_size = 0 \/ st_size <= Len(stored)
        BY <4>3, Sizes
      <4> QED BY <2>2, <4>1, <4>2, <4>4, Sizes
    <3> QED BY <3>1, <3>2
  <2>4. Content' = Content
    BY <1>1, <1>3, <2>2, <2>3 DEF Content, ByteOf
  <2> QED BY <2>4 DEF File!vars
<1> QED BY <1>2, <1>3

LEMMA ReleaseMaps ==
    ASSUME IInv, NEW h \in Handles, FuseRelease(h)
    PROVE  UNCHANGED File!vars
<1>1. handle[h] = "flushed" /\ m_buf' = <<>> /\ UNCHANGED <<st_size, stored, answer>>
  BY DEF FuseRelease
<1>2. m_buf = <<>>
  BY <1>1 DEF IInv, OneHandle, BufferExact, Used, Modes
<1> QED BY <1>1, <1>2 DEF Content, File!vars

LEMMA SetAttrMaps ==
    ASSUME IInv, Habits = {}, NEW size \in 0 .. MaxSize, FuseSetAttr(size)
    PROVE  File!Next
<1>1. /\ size <= st_size /\ st_size' = size
      /\ UNCHANGED <<m_buf, stored, answer>>
  BY DEF FuseSetAttr
<1>2. size \in Nat /\ st_size \in Nat /\ size \in 0 .. Len(Content)
  BY <1>1, ContentType, Sizes
<1>3. Content' = SubSeq(Content, 1, size)
  BY <1>1, <1>2 DEF Content
<1>4. File!Shrink(size)
  BY <1>1, <1>3 DEF File!Shrink
<1> QED BY <1>2, <1>4 DEF File!Next

LEMMA NextMaps ==
    ASSUME IInv, IInv', Habits = {}, [Next]_vars
    PROVE  [File!Next]_(File!vars)
<1>1. ASSUME NEW h \in Handles, NEW mode \in Modes, FuseOpen(h, mode)
      PROVE  [File!Next]_(File!vars)
  BY <1>1, OpenMaps
<1>2. ASSUME NEW h \in Handles, FuseFlush(h) \/ FuseFlushDuplicate(h)
      PROVE  UNCHANGED File!vars
  BY <1>2, FlushMaps DEF FuseFlush, FuseFlushDuplicate
<1>3. ASSUME NEW h \in Handles, FuseRelease(h)
      PROVE  UNCHANGED File!vars
  BY <1>3, ReleaseMaps
<1>4. ASSUME NEW h \in Handles, NEW off \in 0 .. MaxSize, NEW n \in 1 .. MaxSize, NEW v \in Bytes,
             FuseWrite(h, off, n, v)
      PROVE  File!Next
  BY <1>4, WriteMaps
<1>5. ASSUME NEW h \in Handles, NEW off \in 0 .. MaxSize, NEW n \in 1 .. MaxSize, FuseRead(h, off, n)
      PROVE  File!Next
  BY <1>5, ReadMaps
<1>6. ASSUME NEW size \in 0 .. MaxSize, FuseSetAttr(size)
      PROVE  File!Next
  BY <1>6, SetAttrMaps
<1>7. CASE UNCHANGED vars
  BY <1>7 DEF vars, file, Content, File!vars
<1> QED BY <1>1, <1>2, <1>3, <1>4, <1>5, <1>6, <1>7 DEF Next

(***************************************************************************)
(* The handlers, buffer, blocks and all, are a file as programs know it:   *)
(* a read answers the bytes that were last written at its place.           *)
(***************************************************************************)
THEOREM Implementation ==
    ASSUME Habits = {}
    PROVE  Spec => ImplementsPosixFile
<1>1. Init => File!Init
  BY InitMaps
<1>2. IInv /\ IInv' /\ [Next]_vars => [File!Next]_(File!vars)
  BY NextMaps
<1> QED BY <1>1, <1>2, Invariance, PTL DEF Spec, ImplementsPosixFile, File!Spec
=============================================================================
