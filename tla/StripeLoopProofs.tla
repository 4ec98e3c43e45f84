-------------------------- MODULE StripeLoopProofs --------------------------
(* The counts/displacements loop is right for every world size, block size *)
(* and int width, as long as the padded file fits in an int; and for files *)
(* beyond that, exactly as long as what it stores for each rank that gets  *)
(* something can be stored.                                                *)
EXTENDS StripeLoop, StripingProofs, FiniteSetTheorems

(* Multiplying by the block size keeps the order of natural numbers. *)
LEMMA BytesMonotone ==
    ASSUME NEW a \in Nat, NEW b \in Nat, a <= b
    PROVE  /\ a * BlockSize \in Nat
           /\ a * BlockSize <= b * BlockSize
<1> DEFINE d == b - a
<1>1. d \in Nat /\ b = a + d
  OBVIOUS
<1> HIDE DEF d
<1>2. b * BlockSize = a * BlockSize + d * BlockSize
  BY <1>1, StripingAssumption
<1>3. a * BlockSize \in Nat /\ d * BlockSize \in Nat
  BY <1>1, StripingAssumption
<1> QED BY <1>2, <1>3

(* A file that fits has its block count and its counts computed exactly. *)
LEMMA CountExact ==
    ASSUME fileSize \in FileSizes, Fits, NEW r \in Ranks
    PROVE  /\ numberOfBlocks = NumberOfBlocks(fileSize)
           /\ CountOf(r) = EffectiveBlocks(NumberOfBlocks(fileSize), r) * BlockSize
           /\ CountOf(r) \in Nat
<1> DEFINE N == NumberOfBlocks(fileSize)
           e == EffectiveBlocks(N, r)
<1>1. N \in Nat
  BY NumberOfBlocksType, WidthAssumption
<1>2. r \in Nat
  BY StripingAssumption DEF Ranks
<1> HIDE DEF N
<1>3. e \in Nat /\ Displ(N, r) \in Nat
  BY <1>1, <1>2, ShareType
<1>4. e <= N
  BY <1>1, <1>3, ShareInFile
<1> HIDE DEF e
<1>5. N * BlockSize <= IntMax /\ N * BlockSize \in Nat /\ e * BlockSize \in Nat
      /\ e * BlockSize <= N * BlockSize
  BY <1>1, <1>3, <1>4, BytesMonotone DEF Fits, N
<1>6. N <= N * BlockSize
  <2>1. N * BlockSize = N + N * (BlockSize - 1) /\ N * (BlockSize - 1) \in Nat
    BY <1>1, StripingAssumption
  <2> QED BY <1>1, <2>1
<1>7. numberOfBlocks = N
  BY <1>1, <1>5, <1>6, WidthAssumption DEF numberOfBlocks, ToUInt, UIntRange, N
<1>8. ToUInt(e * BlockSize) = e * BlockSize
  BY <1>5, WidthAssumption DEF ToUInt, UIntRange
<1>9. ToInt(e * BlockSize) = e * BlockSize
  BY <1>5, WidthAssumption DEF ToInt
<1>10. CountOf(r) = e * BlockSize
  BY <1>7, <1>8, <1>9 DEF CountOf, e
<1> QED BY <1>5, <1>7, <1>10 DEF N, e

(* Every value the loop stores is an int. *)
LEMMA ToIntType ==
    ASSUME NEW x \in Int
    PROVE  ToInt(x) \in Int
  BY WidthAssumption DEF ToInt, UIntRange

LEMMA CountType ==
    ASSUME fileSize \in FileSizes, NEW r \in Ranks
    PROVE  CountOf(r) \in Int
<1>1. NumberOfBlocks(fileSize) \in Nat
  BY NumberOfBlocksType, WidthAssumption
<1>2. numberOfBlocks \in Nat
  BY <1>1, WidthAssumption DEF numberOfBlocks, ToUInt, UIntRange
<1>3. EffectiveBlocks(numberOfBlocks, r) \in Nat
  BY <1>2, ShareType, StripingAssumption DEF Ranks
<1>4. EffectiveBlocks(numberOfBlocks, r) * BlockSize \in Nat
  BY <1>3, StripingAssumption
<1>5. ToUInt(EffectiveBlocks(numberOfBlocks, r) * BlockSize) \in Int
  BY <1>4, WidthAssumption DEF ToUInt, UIntRange
<1> QED BY <1>5, ToIntType DEF CountOf

(* The arrays hold ints, and one more entry of each after every turn. *)
THEOREM TypeCorrect == Spec => []TypeOK
<1>1. Init => TypeOK
  BY StripingAssumption DEF Init, TypeOK
<1>2. TypeOK /\ [Next]_vars => TypeOK'
  <2> SUFFICES ASSUME TypeOK, [Next]_vars PROVE TypeOK'
    OBVIOUS
  <2>1. CASE Step
    <3>1. i \in Ranks
      BY <2>1, StripingAssumption DEF Step, TypeOK, Ranks
    <3>2. CountOf(i) \in Int
      BY <3>1, CountType DEF TypeOK
    <3>3. offset' \in Int
      BY <2>1, <3>2, ToIntType DEF Step, TypeOK
    <3>4. i' \in 0 .. WorldSize /\ i' - 1 = i
      BY <2>1, <3>1, StripingAssumption DEF Step, Ranks
    <3>5. counts' \in [0 .. i -> Int] /\ displs' \in [0 .. i -> Int]
      BY <2>1, <3>1, <3>2, StripingAssumption DEF Step, TypeOK, Ranks
    <3> QED BY <2>1, <3>3, <3>4, <3>5 DEF Step, TypeOK
  <2>2. CASE Done \/ UNCHANGED vars
    BY <2>2 DEF Done, vars, TypeOK
  <2> QED BY <2>1, <2>2 DEF Next
<1> QED BY <1>1, <1>2, PTL DEF Spec

(* The running offset is the closed form Displ, so rank r's slice starts   *)
(* where the slices of the ranks below it end (lines 68-75 of              *)
(* MasterProcessCode.cpp and its copies).                                  *)
LEMMA LoopExactStep ==
    ASSUME TypeOK, LoopExact, Step
    PROVE  LoopExact'
<1> DEFINE N == NumberOfBlocks(fileSize)
<1> SUFFICES ASSUME Fits
             PROVE  /\ offset' = Displ(N, i + 1) * BlockSize
                    /\ \A r \in 0 .. i : /\ displs'[r] = Displ(N, r) * BlockSize
                                         /\ counts'[r] = EffectiveBlocks(N, r) * BlockSize
  <2>1. i' = i + 1 /\ i' - 1 = i /\ fileSize' = fileSize
    BY StripingAssumption DEF Step, TypeOK
  <2>2. Fits' = Fits
    BY <2>1 DEF Fits
  <2> QED BY <2>1, <2>2 DEF LoopExact
<1>1. N \in Nat /\ i \in Ranks /\ i \in Nat /\ i + 1 \in Nat
  BY NumberOfBlocksType, WidthAssumption, StripingAssumption DEF TypeOK, Step, Ranks
<1>2. CountOf(i) = EffectiveBlocks(N, i) * BlockSize /\ CountOf(i) \in Nat
  BY <1>1, CountExact DEF TypeOK
<1>3. Displ(N, i) \in Nat /\ EffectiveBlocks(N, i) \in Nat /\ Displ(N, i + 1) \in Nat
  BY <1>1, ShareType
<1> HIDE DEF N
<1>4. offset = Displ(N, i) * BlockSize
  BY DEF LoopExact, N
<1>5. offset + CountOf(i) = Displ(N, i + 1) * BlockSize
  <2>1. Displ(N, i + 1) = Displ(N, i) + EffectiveBlocks(N, i)
    BY <1>1, DisplNext
  <2>2. (Displ(N, i) + EffectiveBlocks(N, i)) * BlockSize
          = Displ(N, i) * BlockSize + EffectiveBlocks(N, i) * BlockSize
    BY <1>3, StripingAssumption
  <2> QED BY <1>2, <1>4, <2>1, <2>2
<1>6. Displ(N, i + 1) <= N
  BY <1>1, DisplNext, ShareInFile
<1>7. Displ(N, i + 1) * BlockSize \in 0 .. IntMax
  BY <1>1, <1>3, <1>6, BytesMonotone, WidthAssumption, StripingAssumption DEF Fits, N
<1>8. offset' = Displ(N, i + 1) * BlockSize
  BY <1>5, <1>7 DEF Step, ToInt
<1>9. ASSUME NEW r \in 0 .. i
      PROVE  /\ displs'[r] = Displ(N, r) * BlockSize
             /\ counts'[r] = EffectiveBlocks(N, r) * BlockSize
  <2>1. CASE r = i
    BY <1>1, <1>2, <1>4, <2>1 DEF Step
  <2>2. CASE r # i
    <3>1. r \in 0 .. i - 1
      BY <1>1, <2>2
    <3>2. displs'[r] = displs[r] /\ counts'[r] = counts[r]
      BY <1>9, <2>2 DEF Step
    <3> QED BY <3>1, <3>2 DEF LoopExact, N
  <2> QED BY <2>1, <2>2
<1> QED BY <1>8, <1>9 DEF N

THEOREM LoopIsExact == Spec => []LoopExact
<1>1. Init => LoopExact
  <2> SUFFICES ASSUME Init PROVE LoopExact
    OBVIOUS
  <2>1. NumberOfBlocks(fileSize) \in Nat
    BY NumberOfBlocksType, WidthAssumption DEF Init
  <2>2. Displ(NumberOfBlocks(fileSize), 0) * BlockSize = 0
    BY <2>1, DisplZero, StripingAssumption
  <2> QED BY <2>2 DEF Init, LoopExact
<1>2. TypeOK /\ LoopExact /\ [Next]_vars => LoopExact'
  <2>1. ASSUME LoopExact, Done \/ UNCHANGED vars
        PROVE  LoopExact'
    BY <2>1 DEF LoopExact, Fits, Done, vars
  <2> QED BY <2>1, LoopExactStep DEF Next
<1> QED BY <1>1, <1>2, TypeCorrect, PTL DEF Spec

(* Every block already dealt with has a slice that holds it whole. *)
Covered == Fits => \A b \in 0 .. Displ(NumberOfBlocks(fileSize), i) - 1 :
                      \E r \in 0 .. i - 1 : InSlice(b, r)

(* Two slices of exact arrays share no block. *)
LEMMA SlicesDisjoint ==
    ASSUME TypeOK, LoopExact, Fits, i = WorldSize,
           NEW b \in Nat, NEW r \in Ranks, NEW s \in Ranks, r < s, InSlice(b, r)
    PROVE  ~InSlice(b, s)
<1> DEFINE N == NumberOfBlocks(fileSize)
<1>1. N \in Nat /\ r \in Nat /\ s \in Nat /\ r \in 0 .. i - 1 /\ s \in 0 .. i - 1
  BY NumberOfBlocksType, WidthAssumption, StripingAssumption DEF TypeOK, Ranks
<1>2. /\ Displ(N, r) \in Nat /\ EffectiveBlocks(N, r) \in Nat
      /\ Displ(N, s) \in Nat
  BY <1>1, ShareType
<1>3. Displ(N, r) + EffectiveBlocks(N, r) <= Displ(N, s)
  BY <1>1, SharesOrdered
<1>4. /\ displs[r] = Displ(N, r) * BlockSize
      /\ counts[r] = EffectiveBlocks(N, r) * BlockSize
      /\ displs[s] = Displ(N, s) * BlockSize
  BY <1>1 DEF LoopExact
<1> HIDE DEF N
<1>5. displs[r] + counts[r] <= displs[s]
  <2>1. (Displ(N, r) + EffectiveBlocks(N, r)) * BlockSize = displs[r] + counts[r]
    BY <1>2, <1>4, StripingAssumption
  <2> QED BY <1>2, <1>3, <1>4, <2>1, BytesMonotone
<1>6. displs[r] \in Int /\ counts[r] \in Int /\ displs[s] \in Int
  BY <1>1 DEF TypeOK
<1>7. (b + 1) * BlockSize = b * BlockSize + BlockSize /\ b * BlockSize \in Nat
      /\ (b + 1) * BlockSize \in Nat
  BY StripingAssumption
<1> QED BY <1>5, <1>6, <1>7, StripingAssumption DEF InSlice

(* Scatterv and Gatherv neither drop a block nor move one twice.           *)
THEOREM EveryBlockExactlyOnce == Spec => []EveryBlockOnce
<1>1. Init => Covered
  <2> SUFFICES ASSUME Init PROVE Covered
    OBVIOUS
  <2>1. Displ(NumberOfBlocks(fileSize), i) = 0
    BY NumberOfBlocksType, WidthAssumption, DisplZero DEF Init
  <2> QED BY <2>1 DEF Covered
<1>2. TypeOK /\ LoopExact /\ LoopExact' /\ Covered /\ [Next]_vars => Covered'
  <2> SUFFICES ASSUME TypeOK, LoopExact, LoopExact', Covered, [Next]_vars
               PROVE  Covered'
    OBVIOUS
  <2>1. CASE Done \/ UNCHANGED vars
    BY <2>1 DEF Covered, Fits, InSlice, Done, vars
  <2>2. CASE Step
    <3> DEFINE N == NumberOfBlocks(fileSize)
    <3>1. N \in Nat /\ i \in Ranks /\ i \in Nat /\ i' = i + 1 /\ fileSize' = fileSize
      BY <2>2, NumberOfBlocksType, WidthAssumption, StripingAssumption DEF TypeOK, Step, Ranks
    <3>2. /\ Displ(N, i) \in Nat /\ EffectiveBlocks(N, i) \in Nat
          /\ Displ(N, i + 1) = Displ(N, i) + EffectiveBlocks(N, i)
      BY <3>1, ShareType, DisplNext
    <3> SUFFICES ASSUME Fits, NEW b \in 0 .. Displ(N, i + 1) - 1
                 PROVE  \E r \in 0 .. i : InSlice(b, r)'
      <4>1. (i + 1) - 1 = i
        BY <3>1
      <4> QED BY <3>1, <4>1 DEF Covered, Fits, InSlice
    <3>3. CASE b < Displ(N, i)
      <4>1. b \in 0 .. Displ(N, i) - 1
        BY <3>2, <3>3
      <4>2. PICK r \in 0 .. i - 1 : InSlice(b, r)
        BY <4>1 DEF Covered
      <4>3. r \in 0 .. i /\ r # i
        BY <3>1
      <4>4. displs'[r] = displs[r] /\ counts'[r] = counts[r]
        BY <2>2, <4>3 DEF Step
      <4> QED BY <4>2, <4>3, <4>4 DEF InSlice
    <3>4. CASE ~(b < Displ(N, i))
      <4>1. displs'[i] = Displ(N, i) * BlockSize /\ counts'[i] = EffectiveBlocks(N, i) * BlockSize
        <5>1. i \in 0 .. i' - 1
          BY <3>1
        <5> QED BY <3>1, <5>1 DEF LoopExact, Fits
      <4> HIDE DEF N
      <4>2. b \in Nat /\ Displ(N, i) <= b /\ b + 1 <= Displ(N, i) + EffectiveBlocks(N, i)
        BY <3>2, <3>4
      <4>3. Displ(N, i) * BlockSize <= b * BlockSize
        BY <3>2, <4>2, BytesMonotone
      <4>4. (b + 1) * BlockSize <= (Displ(N, i) + EffectiveBlocks(N, i)) * BlockSize
        BY <3>2, <4>2, BytesMonotone
      <4>5. (Displ(N, i) + EffectiveBlocks(N, i)) * BlockSize
              = Displ(N, i) * BlockSize + EffectiveBlocks(N, i) * BlockSize
        BY <3>2, StripingAssumption
      <4>6. displs'[i] <= b * BlockSize /\ (b + 1) * BlockSize <= displs'[i] + counts'[i]
        BY <4>1, <4>3, <4>4, <4>5
      <4>7. PICK r \in 0 .. i : r = i
        BY <3>1
      <4>8. InSlice(b, r)'
        BY <4>6, <4>7 DEF InSlice
      <4> QED BY <4>8
    <3> QED BY <3>3, <3>4
  <2> QED BY <2>1, <2>2 DEF Next
<1>3. TypeOK /\ LoopExact /\ Covered => EveryBlockOnce
  <2> SUFFICES ASSUME TypeOK, LoopExact, Covered, i = WorldSize, Fits
               PROVE  Partitioned /\ offset = NumberOfBlocks(fileSize) * BlockSize
    BY DEF EveryBlockOnce
  <2> DEFINE N == NumberOfBlocks(fileSize)
  <2>1. N \in Nat
    BY NumberOfBlocksType, WidthAssumption DEF TypeOK
  <2>2. Displ(N, i) = N
    BY <2>1, DisplEnd
  <2>3. offset = N * BlockSize
    BY <2>2 DEF LoopExact
  <2>4. Partitioned
    <3> SUFFICES ASSUME NEW b \in 0 .. N - 1
                 PROVE  \E r \in Ranks : InSlice(b, r) /\ \A s \in Ranks \ {r} : ~InSlice(b, s)
      BY DEF Partitioned
    <3>1. PICK r \in Ranks : InSlice(b, r)
      BY <2>2 DEF Covered, Ranks
    <3>2. ASSUME NEW s \in Ranks \ {r}
          PROVE  ~InSlice(b, s)
      <4>1. r < s \/ s < r
        BY StripingAssumption DEF Ranks
      <4>2. b \in Nat
        BY <2>1
      <4> QED BY <3>1, <4>1, <4>2, SlicesDisjoint
    <3> QED BY <3>1, <3>2
  <2> QED BY <2>3, <2>4
<1> QED BY <1>1, <1>2, <1>3, TypeCorrect, LoopIsExact, PTL DEF Spec
-----------------------------------------------------------------------------
(* Beyond what fits: the arithmetic of the wrap-around.                    *)

LEMMA ModOnce ==
    ASSUME NEW m \in Nat \ {0}, NEW w \in m .. 2 * m - 1
    PROVE  w % m = w - m
<1> DEFINE q == w \div m
           r == w % m
<1>1. q \in Int /\ r \in 0 .. m - 1 /\ w = m * q + r
  OBVIOUS
<1> HIDE DEF q, r
<1>2. q > 0
  <2>1. SUFFICES ASSUME q <= 0 PROVE FALSE
    BY <1>1
  <2>2. PICK k \in Nat : q = - k
    BY <1>1, <2>1
  <2>3. m * q = - (m * k) /\ m * k \in Nat
    BY <2>2
  <2> QED BY <1>1, <2>3
<1>3. q < 2
  <2>1. SUFFICES ASSUME q >= 2 PROVE FALSE
    BY <1>1
  <2>2. PICK k \in Nat : q = 2 + k
    <3>1. q - 2 \in Nat /\ q = 2 + (q - 2)
      BY <1>1, <2>1
    <3> QED BY <3>1
  <2>3. m * q = 2 * m + m * k /\ m * k \in Nat
    BY <2>2
  <2> QED BY <1>1, <2>3
<1>4. q = 1
  BY <1>1, <1>2, <1>3
<1> QED BY <1>1, <1>4 DEF r

(* Stored in an int, a number becomes smaller or stays as it is. *)
LEMMA ToUIntFacts ==
    ASSUME NEW x \in Nat
    PROVE  /\ ToUInt(x) \in 0 .. UIntRange - 1 /\ ToUInt(x) <= x
           /\ x < UIntRange => ToUInt(x) = x
           /\ ~(x < UIntRange) => ToUInt(x) < x
<1>1. UIntRange \in Nat /\ UIntRange > 0
  BY WidthAssumption DEF UIntRange
<1>2. x % UIntRange \in 0 .. UIntRange - 1
  BY <1>1
<1> QED BY <1>1, <1>2 DEF ToUInt

LEMMA ToIntFacts ==
    ASSUME NEW x \in Int
    PROVE  /\ ToInt(x) \in Int /\ ToInt(x) <= IntMax
           /\ x \in 0 .. IntMax => ToInt(x) = x
           /\ IntMax < x /\ x <= 2 * IntMax => ToInt(x) < 0
<1>1. UIntRange \in Nat /\ UIntRange > 0 /\ IntMax \in Nat /\ UIntRange = 2 * IntMax + 2
  BY WidthAssumption DEF UIntRange
<1>2. (x + IntMax + 1) % UIntRange \in 0 .. UIntRange - 1
  BY <1>1
<1>3. ToInt(x) <= IntMax /\ ToInt(x) \in Int
  BY <1>1, <1>2 DEF ToInt
<1>4. ASSUME IntMax < x, x <= 2 * IntMax PROVE ToInt(x) < 0
  <2>1. PICK w \in Int : w = x + IntMax + 1
    BY <1>1
  <2>2. w \in UIntRange .. 2 * UIntRange - 1
    BY <1>1, <1>4, <2>1
  <2>3. w % UIntRange = w - UIntRange
    BY <1>1, <2>2, ModOnce
  <2>4. ToInt(x) = (w - UIntRange) - (IntMax + 1)
    BY <1>1, <1>4, <2>1, <2>3 DEF ToInt
  <2> QED BY <1>1, <1>4, <2>1, <2>4
<1> QED BY <1>3, <1>4 DEF ToInt

LEMMA StoredCount ==
    ASSUME NEW x \in Nat
    PROVE  /\ ToInt(ToUInt(x)) \in Int /\ ToInt(ToUInt(x)) <= x
           /\ x <= IntMax => ToInt(ToUInt(x)) = x
           /\ x > IntMax => ToInt(ToUInt(x)) < x
<1>1. PICK y \in 0 .. UIntRange - 1 : y = ToUInt(x)
  BY ToUIntFacts
<1>2. y \in Int /\ IntMax \in Nat /\ UIntRange = 2 * IntMax + 2
  BY WidthAssumption DEF UIntRange
<1>3. ToInt(y) \in Int /\ ToInt(y) <= IntMax /\ (y \in 0 .. IntMax => ToInt(y) = y)
  BY <1>2, ToIntFacts
<1>4. y <= x /\ (x < UIntRange => y = x)
  BY <1>1, ToUIntFacts
<1> QED BY <1>1, <1>2, <1>3, <1>4

(* The order of blocks is that of their bytes. *)
LEMMA BytesOrder ==
    ASSUME NEW a \in Nat, NEW b \in Nat
    PROVE  /\ a * BlockSize <= b * BlockSize => a <= b
           /\ a * BlockSize < b * BlockSize => a < b
<1>1. a * BlockSize \in Nat /\ b * BlockSize \in Nat
  BY StripingAssumption
<1>2. ASSUME a > b PROVE a * BlockSize > b * BlockSize
  <2>1. (b + 1) * BlockSize <= a * BlockSize
    BY <1>2, BytesMonotone
  <2>2. (b + 1) * BlockSize = b * BlockSize + BlockSize /\ BlockSize > 0
    BY StripingAssumption
  <2> QED BY <1>1, <2>1, <2>2, StripingAssumption
<1>3. ASSUME a >= b PROVE a * BlockSize >= b * BlockSize
  BY <1>3, BytesMonotone
<1> QED BY <1>1, <1>2, <1>3

(* The blocks that lie whole in size bytes from byte start on. *)
Whole(start, size, n) == {b \in 0 .. n - 1 : /\ start <= b * BlockSize
                                            /\ (b + 1) * BlockSize <= start + size}

LEMMA FewInInterval ==
    ASSUME NEW low \in Int, NEW k \in Nat, NEW W, \A b \in W : b \in Int /\ low <= b /\ b < low + k
    PROVE  IsFiniteSet(W) /\ Cardinality(W) \in Nat /\ Cardinality(W) <= k
<1>1. PICK high \in Int : high = low + k - 1
  OBVIOUS
<1>2. W \in SUBSET (low .. high)
  BY <1>1
<1>3. IsFiniteSet(low .. high) /\ Cardinality(low .. high) = k
  <2>1. IsFiniteSet(low .. high) /\ Cardinality(low .. high) = IF low > high THEN 0 ELSE high - low + 1
    BY FS_Interval
  <2> QED BY <1>1, <2>1
<1>4. IsFiniteSet(W) /\ Cardinality(W) <= Cardinality(low .. high)
  BY <1>2, <1>3, FS_Subset
<1> QED BY <1>3, <1>4, FS_CardinalityType

LEMMA WholeBlocks ==
    ASSUME NEW n \in Nat, NEW start \in Int, NEW size \in Int, NEW k \in Nat,
           size <= k * BlockSize
    PROVE  /\ IsFiniteSet(Whole(start, size, n)) /\ Cardinality(Whole(start, size, n)) \in Nat
           /\ Cardinality(Whole(start, size, n)) <= k
           /\ k > 0 /\ size < k * BlockSize => Cardinality(Whole(start, size, n)) < k
<1> DEFINE W == Whole(start, size, n)
<1>1. W \subseteq 0 .. n - 1 /\ W \in SUBSET Nat
  BY DEF Whole
<1>2. IsFiniteSet(W) /\ Cardinality(W) \in Nat
  <2>1. \A b \in W : b \in Int /\ 0 <= b /\ b < 0 + n
    BY <1>1
  <2> QED BY <2>1, FewInInterval
<1>3. k * BlockSize \in Nat
  BY StripingAssumption
<1>4. CASE W = {}
  <2>1. Cardinality(W) = 0
    BY <1>4, FS_EmptySet
  <2> QED BY <1>2, <2>1
<1>5. CASE W # {}
  <2>1. PICK low \in W : \A b \in W : low <= b
    BY <1>1, <1>5, NatHasSmallest
  <2>2. low \in Nat /\ start <= low * BlockSize /\ low * BlockSize \in Nat
    BY <1>1, <2>1, StripingAssumption DEF Whole
  <2>3. (low + k) * BlockSize = low * BlockSize + k * BlockSize
    BY <2>2, StripingAssumption
  <2>4. ASSUME NEW b \in W
        PROVE  /\ b + 1 <= low + k
               /\ size < k * BlockSize => b + 1 < low + k
    <3>1. b \in Nat /\ (b + 1) * BlockSize <= start + size /\ (b + 1) * BlockSize \in Nat
      BY <1>1, StripingAssumption DEF Whole
    <3>2. /\ (b + 1) * BlockSize <= (low + k) * BlockSize
          /\ size < k * BlockSize => (b + 1) * BlockSize < (low + k) * BlockSize
      BY <1>3, <2>2, <2>3, <3>1
    <3>3. b + 1 \in Nat /\ low + k \in Nat
      BY <2>2, <3>1
    <3> QED BY <3>2, <3>3, BytesOrder
  <2>5. Cardinality(W) <= k
    <3>1. \A b \in W : b \in Int /\ low <= b /\ b < low + k
      BY <1>1, <2>1, <2>2, <2>4
    <3> HIDE DEF W
    <3> QED BY <2>2, <3>1, FewInInterval
  <2>6. ASSUME size < k * BlockSize PROVE Cardinality(W) < k
    <3>1. \A b \in W : b \in Int /\ low <= b /\ b < low + (k - 1)
      BY <1>1, <2>1, <2>2, <2>4, <2>6
    <3>2. PICK j \in Nat : j = k - 1
      BY <2>1, <2>2, <3>1
    <3> HIDE DEF W
    <3>3. Cardinality(W) <= j
      BY <2>2, <3>1, <3>2, FewInInterval
    <3> QED BY <1>2, <3>2, <3>3
  <2> QED BY <1>2, <2>5, <2>6
<1> QED BY <1>4, <1>5

(* As long as the count of the blocks, and start and size of each slice so *)
(* far, can be stored, the slices so far are right, and the next one starts*)
(* where it should or, if that cannot be stored, below zero.               *)
RankFits(r) ==
    LET n == NumberOfBlocks(fileSize)
    IN  EffectiveBlocks(n, r) > 0 => /\ Displ(n, r) * BlockSize <= IntMax
                                     /\ EffectiveBlocks(n, r) * BlockSize <= IntMax

RightSoFar == numberOfBlocks = NumberOfBlocks(fileSize) /\ \A r \in 0 .. i - 1 : RankFits(r)

SliceRight(r) ==
    LET n == NumberOfBlocks(fileSize)
    IN  /\ counts[r] = EffectiveBlocks(n, r) * BlockSize
        /\ EffectiveBlocks(n, r) > 0 => displs[r] = Displ(n, r) * BlockSize

NextStart ==
    LET n == NumberOfBlocks(fileSize)
    IN  i < WorldSize /\ EffectiveBlocks(n, i) > 0 =>
           /\ Displ(n, i) * BlockSize <= 2 * IntMax
           /\ offset = ToInt(Displ(n, i) * BlockSize)

SlicesRight == RightSoFar => NextStart /\ \A r \in 0 .. i - 1 : SliceRight(r)

(* The slices so far hold as many blocks as the ranks were to get at most, *)
(* and fewer if one of them could not be stored.                           *)
Reached == {b \in 0 .. NumberOfBlocks(fileSize) - 1 : \E r \in 0 .. i - 1 : InSlice(b, r)}

FewReached ==
    /\ IsFiniteSet(Reached)
    /\ Cardinality(Reached) <= Displ(numberOfBlocks, i)
    /\ numberOfBlocks = NumberOfBlocks(fileSize) /\ ~RightSoFar =>
          Cardinality(Reached) < Displ(numberOfBlocks, i)

(* What a step has to do with. *)
LEMMA StepFacts ==
    ASSUME TypeOK, Step
    PROVE  /\ i \in Ranks /\ i \in Nat /\ i' = i + 1 /\ i' - 1 = i /\ fileSize' = fileSize
           /\ fileSize \in Nat /\ NumberOfBlocks(fileSize) \in Nat /\ numberOfBlocks \in Nat
           /\ numberOfBlocks' = numberOfBlocks
           /\ counts'[i] = CountOf(i) /\ displs'[i] = offset
           /\ \A r \in 0 .. i - 1 : counts'[r] = counts[r] /\ displs'[r] = displs[r]
           /\ 0 .. i' - 1 = 0 .. i
           /\ \A r \in 0 .. i : r \in 0 .. i - 1 \/ r = i
           /\ \A r \in 0 .. i - 1 : r \in 0 .. i
<1>1. /\ i \in Ranks /\ i \in Nat /\ i' = i + 1 /\ i' - 1 = i /\ fileSize' = fileSize
      /\ fileSize \in Nat
  BY StripingAssumption, WidthAssumption DEF TypeOK, Step, Ranks
<1>2. NumberOfBlocks(fileSize) \in Nat
  BY <1>1, NumberOfBlocksType
<1>3. numberOfBlocks \in Nat
  <2>1. PICK n \in Nat : n = NumberOfBlocks(fileSize)
    BY <1>2
  <2>2. ToUInt(n) \in 0 .. UIntRange - 1
    BY ToUIntFacts
  <2> QED BY <2>1, <2>2 DEF numberOfBlocks
<1>4. numberOfBlocks' = numberOfBlocks
  BY <1>1 DEF numberOfBlocks
<1>5. counts'[i] = CountOf(i) /\ displs'[i] = offset
  BY <1>1 DEF Step
<1>6. ASSUME NEW r \in 0 .. i - 1 PROVE counts'[r] = counts[r] /\ displs'[r] = displs[r]
  BY <1>1 DEF Step
<1> QED BY <1>1, <1>2, <1>3, <1>4, <1>5, <1>6

LEMMA CountBound ==
    ASSUME NEW r \in Nat, numberOfBlocks \in Nat
    PROVE  LET size == EffectiveBlocks(numberOfBlocks, r) * BlockSize
           IN  /\ size \in Nat /\ CountOf(r) \in Int /\ CountOf(r) <= size
               /\ size <= IntMax => CountOf(r) = size
               /\ size > IntMax => CountOf(r) < size
<1>1. PICK size \in Nat : size = EffectiveBlocks(numberOfBlocks, r) * BlockSize
  BY ShareType, StripingAssumption
<1>2. /\ ToInt(ToUInt(size)) \in Int /\ ToInt(ToUInt(size)) <= size
      /\ size <= IntMax => ToInt(ToUInt(size)) = size
      /\ size > IntMax => ToInt(ToUInt(size)) < size
  BY StoredCount
<1> QED BY <1>1, <1>2 DEF CountOf

LEMMA SlicesRightStep == ASSUME TypeOK, SlicesRight, Step PROVE SlicesRight'
<1> DEFINE n == NumberOfBlocks(fileSize)
<1> SUFFICES ASSUME RightSoFar' PROVE NextStart' /\ \A r \in 0 .. i : SliceRight(r)'
  BY StepFacts DEF SlicesRight
<1>1. RightSoFar /\ RankFits(i)
  <2>1. \A r \in 0 .. i : RankFits(r)
    BY StepFacts DEF RightSoFar, RankFits
  <2> QED BY <2>1, StepFacts DEF RightSoFar
<1>2. NextStart /\ \A r \in 0 .. i - 1 : SliceRight(r)
  BY <1>1 DEF SlicesRight
<1>3. n \in Nat /\ numberOfBlocks = n
  BY <1>1, StepFacts DEF RightSoFar
<1>4. /\ EffectiveBlocks(n, i) \in Nat /\ Displ(n, i) \in Nat
      /\ EffectiveBlocks(n, i + 1) \in Nat /\ Displ(n, i + 1) \in Nat
  BY <1>3, StepFacts, ShareType
<1>5. EffectiveBlocks(n, i) * BlockSize \in Nat /\ Displ(n, i) * BlockSize \in Nat
  BY <1>4, StripingAssumption
<1>6. CountOf(i) = EffectiveBlocks(n, i) * BlockSize
  <2>1. EffectiveBlocks(n, i) * BlockSize <= IntMax
    <3>1. CASE EffectiveBlocks(n, i) = 0
      <4>1. EffectiveBlocks(n, i) * BlockSize = 0
        BY <3>1, StripingAssumption
      <4> QED BY <4>1, WidthAssumption
    <3>2. CASE EffectiveBlocks(n, i) > 0
      BY <1>1, <3>2 DEF RankFits
    <3> QED BY <1>4, <3>1, <3>2
  <2> QED BY <1>3, <2>1, StepFacts, CountBound
<1>7. EffectiveBlocks(n, i) > 0 => offset = Displ(n, i) * BlockSize
  <2>1. SUFFICES ASSUME EffectiveBlocks(n, i) > 0 PROVE offset = Displ(n, i) * BlockSize
    OBVIOUS
  <2>2. Displ(n, i) * BlockSize <= IntMax /\ offset = ToInt(Displ(n, i) * BlockSize)
    BY <1>1, <1>2, <2>1 DEF RankFits, NextStart, Step
  <2>3. PICK x \in 0 .. IntMax : x = Displ(n, i) * BlockSize
    BY <1>5, <2>2
  <2> QED BY <2>2, <2>3, ToIntFacts
<1>8. ASSUME NEW r \in 0 .. i, r = i PROVE SliceRight(r)'
  BY <1>6, <1>7, <1>8, StepFacts DEF SliceRight
<1>9. ASSUME NEW r \in 0 .. i - 1 PROVE SliceRight(r)'
  BY <1>2, <1>9, StepFacts DEF SliceRight
<1>10. NextStart'
  <2>1. SUFFICES ASSUME EffectiveBlocks(n, i + 1) > 0
                 PROVE  /\ Displ(n, i + 1) * BlockSize <= 2 * IntMax
                        /\ offset' = ToInt(Displ(n, i + 1) * BlockSize)
    BY StepFacts DEF NextStart
  <2>2. EffectiveBlocks(n, i) > 0
    <3>1. n \div WorldSize \in Nat /\ n % WorldSize \in Nat
      BY <1>3, DivMod, StripingAssumption
    <3> QED BY <2>1, <3>1, StepFacts DEF EffectiveBlocks
  <2>3. Displ(n, i + 1) = Displ(n, i) + EffectiveBlocks(n, i)
    BY <1>3, StepFacts, DisplNext
  <2>4. (Displ(n, i) + EffectiveBlocks(n, i)) * BlockSize
           = Displ(n, i) * BlockSize + EffectiveBlocks(n, i) * BlockSize
    BY <1>4, StripingAssumption
  <2>5. Displ(n, i) * BlockSize <= IntMax /\ EffectiveBlocks(n, i) * BlockSize <= IntMax
    BY <1>1, <2>2 DEF RankFits
  <2>6. offset' = ToInt(Displ(n, i) * BlockSize + EffectiveBlocks(n, i) * BlockSize)
    BY <1>6, <1>7, <2>2 DEF Step
  <2> QED BY <1>5, <2>3, <2>4, <2>5, <2>6, WidthAssumption
<1> QED BY <1>8, <1>9, <1>10, StepFacts

LEMMA FewReachedStep == ASSUME TypeOK, SlicesRight, FewReached, Step PROVE FewReached'
<1> DEFINE n == NumberOfBlocks(fileSize)
           k == EffectiveBlocks(numberOfBlocks, i)
           W == Whole(offset, CountOf(i), n)
<1>1. n \in Nat /\ numberOfBlocks \in Nat /\ i \in Nat /\ offset \in Int
  BY StepFacts DEF TypeOK
<1>2. k \in Nat /\ Displ(numberOfBlocks, i) \in Nat
      /\ Displ(numberOfBlocks, i + 1) = Displ(numberOfBlocks, i) + k
  BY <1>1, ShareType, DisplNext
<1>3. /\ k * BlockSize \in Nat /\ CountOf(i) \in Int /\ CountOf(i) <= k * BlockSize
      /\ k * BlockSize > IntMax => CountOf(i) < k * BlockSize
  BY <1>1, CountBound
<1>4. Reached' \subseteq Reached \cup W
  <2>1. SUFFICES ASSUME NEW b \in Reached' PROVE b \in Reached \/ b \in W
    OBVIOUS
  <2>2. b \in 0 .. n - 1
    BY StepFacts DEF Reached
  <2>3. PICK r \in 0 .. i : InSlice(b, r)'
    BY StepFacts DEF Reached
  <2>4. CASE r = i
    BY <2>2, <2>3, <2>4, StepFacts DEF InSlice, Whole
  <2>5. CASE r \in 0 .. i - 1
    <3>1. InSlice(b, r)
      BY <2>3, <2>5, StepFacts DEF InSlice
    <3> QED BY <2>2, <2>5, <3>1 DEF Reached
  <2> QED BY <2>4, <2>5, StepFacts
<1>5. IsFiniteSet(W) /\ Cardinality(W) \in Nat /\ Cardinality(W) <= k
      /\ (k > 0 /\ CountOf(i) < k * BlockSize => Cardinality(W) < k)
  BY <1>1, <1>2, <1>3, WholeBlocks
<1>6. IsFiniteSet(Reached) /\ Cardinality(Reached) \in Nat
  BY FS_CardinalityType DEF FewReached
<1> HIDE DEF W, k, n
<1>7. IsFiniteSet(Reached') /\ Cardinality(Reached') <= Cardinality(Reached) + Cardinality(W)
      /\ Cardinality(Reached') \in Nat
  <2>1. PICK both : both = Reached \cup W
    OBVIOUS
  <2>2. PICK met : met = Reached \cap W
    OBVIOUS
  <2>3. /\ IsFiniteSet(both)
        /\ Cardinality(both) = Cardinality(Reached) + Cardinality(W) - Cardinality(met)
    BY <1>5, <1>6, <2>1, <2>2, FS_Union
  <2>4. met \in SUBSET W /\ Reached' \in SUBSET both
    BY <1>4, <2>1, <2>2
  <2>5. Cardinality(met) \in Nat
    BY <1>5, <2>4, FS_Subset, FS_CardinalityType
  <2>6. IsFiniteSet(Reached') /\ Cardinality(Reached') <= Cardinality(both)
    BY <2>3, <2>4, FS_Subset
  <2>7. Cardinality(Reached') \in Nat /\ Cardinality(both) \in Nat
    BY <2>3, <2>6, FS_CardinalityType
  <2> QED BY <1>5, <1>6, <2>3, <2>5, <2>6, <2>7
<1>8. Cardinality(Reached) <= Displ(numberOfBlocks, i)
  BY DEF FewReached
<1>9. ASSUME numberOfBlocks = n, ~RightSoFar'
      PROVE  Cardinality(Reached') < Displ(numberOfBlocks, i + 1)
  <2>1. CASE ~RightSoFar
    <3>1. Cardinality(Reached) < Displ(numberOfBlocks, i)
      BY <1>9, <2>1 DEF FewReached, n
    <3> QED BY <1>2, <1>5, <1>6, <1>7, <3>1
  <2>2. CASE RightSoFar
    <3>1. ~RankFits(i)
      <4>1. SUFFICES ASSUME RankFits(i) PROVE RightSoFar'
        BY <1>9
      <4>2. \A r \in 0 .. i : RankFits(r)
        BY <2>2, <4>1, StepFacts DEF RightSoFar
      <4>3. \A r \in 0 .. i : RankFits(r)'
        BY <4>2, StepFacts DEF RankFits
      <4> QED BY <2>2, <4>3, StepFacts DEF RightSoFar
    <3>2. /\ k > 0
          /\ ~(Displ(n, i) * BlockSize <= IntMax) \/ ~(k * BlockSize <= IntMax)
      BY <1>9, <3>1 DEF RankFits, n, k
    <3>3. Cardinality(W) < k
      <4>1. CASE ~(k * BlockSize <= IntMax)
        BY <1>3, <1>5, <3>2, <4>1, WidthAssumption
      <4>2. CASE ~(Displ(n, i) * BlockSize <= IntMax)
        <5>1. Displ(n, i) * BlockSize <= 2 * IntMax /\ offset = ToInt(Displ(n, i) * BlockSize)
          BY <1>9, <2>2, <3>2 DEF SlicesRight, NextStart, Step, n, k
        <5>2. PICK x \in Nat : x = Displ(n, i) * BlockSize
          BY <1>2, <1>9, StripingAssumption
        <5>3. offset < 0
          BY <4>2, <5>1, <5>2, ToIntFacts, WidthAssumption
        <5>4. PICK size \in Int : size = offset + CountOf(i)
          BY <1>1, <1>3
        <5>5. size < k * BlockSize
          BY <1>1, <1>3, <5>3, <5>4
        <5>6. W \in SUBSET Whole(0, size, n)
          <6>1. ASSUME NEW b \in W PROVE b \in Whole(0, size, n)
            <7>1. b \in 0 .. n - 1 /\ (b + 1) * BlockSize <= offset + CountOf(i)
              BY DEF W, Whole
            <7>2. 0 <= b * BlockSize /\ 0 + size = offset + CountOf(i)
              BY <1>1, <1>3, <5>4, <7>1, StripingAssumption
            <7> QED BY <7>1, <7>2 DEF Whole
          <6> QED BY <6>1
        <5>7. /\ IsFiniteSet(Whole(0, size, n)) /\ Cardinality(Whole(0, size, n)) \in Nat
              /\ Cardinality(Whole(0, size, n)) < k
          <6>1. PICK zero \in Int : zero = 0
            OBVIOUS
          <6>2. size <= k * BlockSize
            BY <1>3, <5>5
          <6>3. /\ IsFiniteSet(Whole(zero, size, n)) /\ Cardinality(Whole(zero, size, n)) \in Nat
                /\ Cardinality(Whole(zero, size, n)) < k
            BY <1>1, <1>2, <3>2, <5>5, <6>2, WholeBlocks
          <6> QED BY <6>1, <6>3
        <5>8. Cardinality(W) <= Cardinality(Whole(0, size, n))
          BY <5>6, <5>7, FS_Subset
        <5> QED BY <1>2, <1>5, <5>7, <5>8
      <4> QED BY <3>2, <4>1, <4>2
    <3> QED BY <1>2, <1>5, <1>6, <1>7, <1>8, <3>3
  <2> QED BY <2>1, <2>2
<1> QED BY <1>2, <1>5, <1>6, <1>7, <1>8, <1>9, StepFacts DEF FewReached, n

(* The loop begins with all of this true. *)
LEMMA LoopBegins == ASSUME Init PROVE SlicesRight /\ FewReached
<1> DEFINE n == NumberOfBlocks(fileSize)
<1>1. n \in Nat /\ i = 0 /\ offset = 0
  BY NumberOfBlocksType, WidthAssumption DEF Init
<1>2. numberOfBlocks \in Nat
  BY <1>1, ToUIntFacts DEF numberOfBlocks
<1>3. Displ(n, 0) = 0 /\ Displ(numberOfBlocks, 0) = 0
  BY <1>1, <1>2, DisplZero
<1>4. 0 * BlockSize = 0 /\ ToInt(0) = 0
  BY ToIntFacts, StripingAssumption, WidthAssumption
<1>5. SlicesRight
  <2>1. NextStart
    BY <1>1, <1>3, <1>4, WidthAssumption DEF NextStart
  <2> QED BY <1>1, <2>1 DEF SlicesRight
<1>6. FewReached
  <2>1. Reached = {}
    BY <1>1 DEF Reached
  <2>2. IsFiniteSet(Reached) /\ Cardinality(Reached) = 0
    BY <2>1, FS_EmptySet
  <2>3. numberOfBlocks = n => RightSoFar
    BY <1>1 DEF RightSoFar
  <2> QED BY <1>1, <1>3, <2>2, <2>3 DEF FewReached
<1> QED BY <1>5, <1>6

(* If the start of the last slice and its size can be stored, so can the   *)
(* number of blocks.                                                       *)
LEMMA CountStored ==
    ASSUME fileSize \in Nat, Representable
    PROVE  numberOfBlocks = NumberOfBlocks(fileSize)
<1>1. PICK n \in Nat : n = NumberOfBlocks(fileSize)
  BY NumberOfBlocksType
<1>2. n < UIntRange
  <2>1. CASE n = 0
    BY <2>1, WidthAssumption DEF UIntRange
  <2>2. CASE n > 0
    <3>1. PICK r \in Ranks : n \in Share(n, r)
      BY <2>2, EveryBlockHasOwner
    <3>2. r \in Nat
      BY RanksNatural
    <3>3. PICK d \in Nat, e \in Nat : d = Displ(n, r) /\ e = EffectiveBlocks(n, r)
      BY <3>2, ShareType
    <3>4. n >= d + 1 /\ n <= d + e
      BY <3>1, <3>3 DEF Share
    <3>5. d * BlockSize <= IntMax /\ e * BlockSize <= IntMax
      BY <1>1, <3>3, <3>4 DEF Representable
    <3>6. d <= d * BlockSize /\ e <= e * BlockSize
      <4>1. ASSUME NEW m \in Nat PROVE m <= m * BlockSize
        <5>1. m * BlockSize = m + m * (BlockSize - 1) /\ m * (BlockSize - 1) \in Nat
          BY StripingAssumption
        <5> QED BY <5>1
      <4> QED BY <4>1
    <3>7. d * BlockSize \in Nat /\ e * BlockSize \in Nat
      BY StripingAssumption
    <3> QED BY <3>4, <3>5, <3>6, <3>7, WidthAssumption DEF UIntRange
  <2> QED BY <2>1, <2>2
<1> QED BY <1>1, <1>2, ToUIntFacts DEF numberOfBlocks

(* The right slices hold every block once. *)
LEMMA RightIsPartition ==
    ASSUME TypeOK, i = WorldSize, fileSize \in Nat, \A r \in Ranks : SliceRight(r)
    PROVE  Partitioned
<1>1. PICK n \in Nat : n = NumberOfBlocks(fileSize)
  BY NumberOfBlocksType
<1>2. \A r \in Ranks : /\ counts[r] = EffectiveBlocks(n, r) * BlockSize
                       /\ EffectiveBlocks(n, r) > 0 => displs[r] = Displ(n, r) * BlockSize
  BY <1>1 DEF SliceRight
<1>3. ASSUME NEW b \in 0 .. n - 1, NEW r \in Ranks
      PROVE  InSlice(b, r) <=> b + 1 \in Share(n, r)
  <2>1. r \in Nat /\ b \in Nat
    BY RanksNatural
  <2>2. PICK d \in Nat, e \in Nat : d = Displ(n, r) /\ e = EffectiveBlocks(n, r)
    BY <2>1, ShareType
  <2>3. b + 1 \in Share(n, r) <=> d <= b /\ b + 1 <= d + e
    BY <2>1, <2>2 DEF Share
  <2>4. displs[r] \in Int
    BY DEF TypeOK, Ranks
  <2>5. CASE e = 0
    <3>1. e * BlockSize = 0
      BY <2>5, StripingAssumption
    <3>2. counts[r] = 0
      BY <1>2, <2>2, <3>1
    <3>3. (b + 1) * BlockSize = b * BlockSize + BlockSize /\ b * BlockSize \in Nat /\ BlockSize > 0
      BY <2>1, StripingAssumption
    <3>4. ASSUME InSlice(b, r) PROVE FALSE
      <4>1. displs[r] \in Int
        BY <2>4
      <4>2. displs[r] <= b * BlockSize /\ (b + 1) * BlockSize <= displs[r] + 0
        BY <3>2, <3>4 DEF InSlice
      <4> QED BY <3>3, <4>1, <4>2, StripingAssumption
    <3> QED BY <2>1, <2>2, <2>3, <2>5, <3>4
  <2>6. CASE e > 0
    <3>1. displs[r] = d * BlockSize /\ counts[r] = e * BlockSize
      BY <1>2, <2>2, <2>6
    <3>2. displs[r] + counts[r] = (d + e) * BlockSize
      BY <3>1, StripingAssumption
    <3>3. d * BlockSize <= b * BlockSize <=> d <= b
      BY <2>1, BytesOrder, BytesMonotone
    <3>4. (b + 1) * BlockSize <= (d + e) * BlockSize <=> b + 1 <= d + e
      <4>1. PICK j \in Nat, l \in Nat : j = b + 1 /\ l = d + e
        BY <2>1
      <4> QED BY <4>1, BytesOrder, BytesMonotone
    <3> QED BY <2>3, <3>1, <3>2, <3>3, <3>4 DEF InSlice
  <2> QED BY <2>5, <2>6
<1> SUFFICES ASSUME NEW b \in 0 .. n - 1
             PROVE  \E r \in Ranks : InSlice(b, r) /\ \A s \in Ranks \ {r} : ~InSlice(b, s)
  BY <1>1 DEF Partitioned
<1>4. b + 1 \in 1 .. n
  OBVIOUS
<1>5. PICK r \in Ranks : b + 1 \in Share(n, r)
  BY <1>4, EveryBlockHasOwner
<1>6. ASSUME NEW s \in Ranks \ {r} PROVE b + 1 \notin Share(n, s)
  BY <1>5, OwnerUnique
<1> QED BY <1>3, <1>5, <1>6

(***************************************************************************)
(* Where the int arithmetic of the loop stops being right (lines 68-75 of  *)
(* MasterProcessCode.cpp and its copies): the arrays partition the file    *)
(* exactly if the size of each slice that is not empty, and where it       *)
(* starts, can be stored.  For files larger than an int can count, too.    *)
(***************************************************************************)
THEOREM RightJustThen == Spec => []RightExactlyWhenRepresentable
<1>1. Init => SlicesRight /\ FewReached
  BY LoopBegins
<1>2. TypeOK /\ SlicesRight /\ FewReached /\ [Next]_vars => SlicesRight' /\ FewReached'
  <2>1. ASSUME SlicesRight, FewReached, Done \/ UNCHANGED vars PROVE SlicesRight' /\ FewReached'
    BY <2>1 DEF SlicesRight, FewReached, RightSoFar, RankFits, NextStart, SliceRight, Reached,
                InSlice, numberOfBlocks, Done, vars
  <2> QED BY <2>1, SlicesRightStep, FewReachedStep DEF Next
<1>3. TypeOK /\ SlicesRight /\ FewReached => RightExactlyWhenRepresentable
  <2> SUFFICES ASSUME TypeOK, SlicesRight, FewReached, i = WorldSize
               PROVE  Partitioned <=> Representable
    BY DEF RightExactlyWhenRepresentable
  <2>1. fileSize \in Nat /\ 0 .. i - 1 = Ranks
    BY WidthAssumption DEF TypeOK, Ranks
  <2>2. PICK n \in Nat : n = NumberOfBlocks(fileSize)
    BY <2>1, NumberOfBlocksType
  <2>3. Representable <=> \A r \in Ranks : RankFits(r)
    BY DEF Representable, RankFits
  <2>4. ASSUME Representable PROVE Partitioned
    <3>1. RightSoFar
      BY <2>1, <2>3, <2>4, CountStored DEF RightSoFar
    <3> QED BY <2>1, <3>1, RightIsPartition DEF SlicesRight
  <2>5. ASSUME Partitioned, ~Representable PROVE FALSE
    <3>1. Reached = 0 .. n - 1
      BY <2>1, <2>2, <2>5 DEF Partitioned, Reached
    <3>2. Cardinality(Reached) = n
      <4>1. PICK high \in Int : high = n - 1
        BY <2>2
      <4>2. Cardinality(0 .. high) = IF 0 > high THEN 0 ELSE high - 0 + 1
        BY FS_Interval
      <4> QED BY <2>2, <3>1, <4>1, <4>2
    <3>3. PICK m \in Nat : m = numberOfBlocks /\ m <= n
      BY <2>2, ToUIntFacts DEF numberOfBlocks
    <3>4. Displ(numberOfBlocks, i) = m
      BY <3>3, DisplEnd
    <3>5. n <= m
      BY <3>2, <3>4 DEF FewReached
    <3>6. numberOfBlocks = NumberOfBlocks(fileSize)
      BY <2>2, <3>3, <3>5
    <3>7. ~RightSoFar
      BY <2>1, <2>3, <2>5 DEF RightSoFar
    <3> QED BY <3>2, <3>3, <3>4, <3>5, <3>6, <3>7 DEF FewReached
  <2> QED BY <2>4, <2>5
<1> QED BY <1>1, <1>2, <1>3, TypeCorrect, PTL DEF Spec
=============================================================================
