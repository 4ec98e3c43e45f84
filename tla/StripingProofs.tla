--------------------------- MODULE StripingProofs ---------------------------
(* What the block arithmetic of Striping gives, for every world size and   *)
(* every number of blocks.                                                 *)
EXTENDS Striping, SequenceTheorems, WellFoundedInduction, TLAPS

(* A set of natural numbers that is not empty has a smallest one. *)
LEMMA NatHasSmallest == ASSUME NEW S \in SUBSET Nat, S # {}
                        PROVE  \E n \in S : \A k \in S : n <= k
<1> DEFINE R == {ss \in Nat \X Nat : ss[1] < ss[2]}
<1>1. IsWellFoundedOn(R, Nat)
  BY NatLessThanWellFounded DEF OpToRel
<1> HIDE DEF R
<1>2. PICK n \in S : \A k \in S : ~(<<k, n>> \in R)
  BY <1>1, WFMin
<1>3. \A k \in S : ~(k < n)
  BY <1>2 DEF R
<1> QED BY <1>3

(* A function on 1 .. n is a sequence. *)
LEMMA FunctionIsSeq ==
    ASSUME NEW S, NEW n \in Nat, NEW f \in [1 .. n -> S]
    PROVE  f \in Seq(S) /\ Len(f) = n /\ DOMAIN f = 1 .. n
<1>1. f \in Seq(S)
  BY SeqDef
<1> QED BY <1>1, LenProperties

LEMMA SeqOfSubset ==
    ASSUME NEW S, NEW T, S \subseteq T, NEW s \in Seq(S)
    PROVE  s \in Seq(T)
<1>1. Len(s) \in Nat /\ s \in [1 .. Len(s) -> S]
  BY LenProperties
<1>2. s \in [1 .. Len(s) -> T]
  BY <1>1
<1> QED BY <1>1, <1>2, FunctionIsSeq

(* Division with remainder, the only fact about \div and % used below. *)
LEMMA DivMod ==
    ASSUME NEW n \in Nat
    PROVE  /\ n \div WorldSize \in Nat
           /\ n % WorldSize \in 0 .. WorldSize - 1
           /\ n = WorldSize * (n \div WorldSize) + (n % WorldSize)
  BY StripingAssumption

(* A file has a natural number of blocks. *)
LEMMA NumberOfBlocksType ==
    ASSUME NEW fileSize \in Nat
    PROVE  NumberOfBlocks(fileSize) \in Nat
  BY StripingAssumption DEF NumberOfBlocks

(* Shares are natural numbers of blocks at natural offsets. *)
LEMMA ShareType ==
    ASSUME NEW n \in Nat, NEW r \in Nat
    PROVE  /\ EffectiveBlocks(n, r) \in Nat
           /\ Displ(n, r) \in Nat
<1> DEFINE q == n \div WorldSize
           m == n % WorldSize
<1>1. q \in Nat /\ m \in Nat
  BY DivMod, StripingAssumption
<1>2. r * q \in Nat
  BY <1>1
<1> HIDE DEF q, m
<1>3. EffectiveBlocks(n, r) = q + (IF r < m THEN 1 ELSE 0)
  BY DEF EffectiveBlocks, q, m
<1>4. Displ(n, r) = r * q + Min2(r, m)
  BY DEF Displ, q, m
<1>5. EffectiveBlocks(n, r) \in Nat
  BY <1>1, <1>3
<1>6. Displ(n, r) \in Nat
  BY <1>1, <1>2, <1>4 DEF Min2
<1> QED BY <1>5, <1>6

(* The loop starts at 0, advances by one share, and ends after n blocks. *)
LEMMA DisplZero ==
    ASSUME NEW n \in Nat
    PROVE  Displ(n, 0) = 0
<1>1. n \div WorldSize \in Nat /\ n % WorldSize \in Nat
  BY DivMod, StripingAssumption
<1> QED BY <1>1 DEF Displ, Min2

LEMMA DisplNext ==
    ASSUME NEW n \in Nat, NEW r \in Nat
    PROVE  Displ(n, r + 1) = Displ(n, r) + EffectiveBlocks(n, r)
<1> DEFINE q == n \div WorldSize
           m == n % WorldSize
<1>1. q \in Nat /\ m \in Nat
  BY DivMod, StripingAssumption
<1> HIDE DEF q, m
<1>2. Displ(n, r) = r * q + Min2(r, m) /\ Displ(n, r + 1) = (r + 1) * q + Min2(r + 1, m)
  BY DEF Displ, q, m
<1>3. (r + 1) * q = r * q + q
  BY <1>1
<1>4. Min2(r + 1, m) = Min2(r, m) + (IF r < m THEN 1 ELSE 0)
  BY <1>1 DEF Min2
<1>5. EffectiveBlocks(n, r) = q + (IF r < m THEN 1 ELSE 0)
  BY DEF EffectiveBlocks, q, m
<1>6. r * q \in Nat /\ Min2(r, m) \in Nat
  BY <1>1 DEF Min2
<1> QED BY <1>1, <1>2, <1>3, <1>4, <1>5, <1>6

LEMMA DisplEnd ==
    ASSUME NEW n \in Nat
    PROVE  Displ(n, WorldSize) = n
<1>1. Min2(WorldSize, n % WorldSize) = n % WorldSize
  BY DivMod, StripingAssumption DEF Min2
<1>2. Displ(n, WorldSize) = WorldSize * (n \div WorldSize) + (n % WorldSize)
  BY <1>1 DEF Displ
<1> QED BY <1>2, DivMod

(* A higher rank's share starts where the lower ones are over. *)
LEMMA SharesOrdered ==
    ASSUME NEW n \in Nat, NEW r \in Nat, NEW s \in Nat, r < s
    PROVE  Displ(n, r) + EffectiveBlocks(n, r) <= Displ(n, s)
<1> DEFINE q == n \div WorldSize
           m == n % WorldSize
           d == s - (r + 1)
<1>1. q \in Nat /\ m \in Nat
  BY DivMod, StripingAssumption
<1>2. Displ(n, r + 1) = (r + 1) * q + Min2(r + 1, m) /\ Displ(n, s) = s * q + Min2(s, m)
  BY DEF Displ
<1>3. d \in Nat /\ s = (r + 1) + d
  OBVIOUS
<1> HIDE DEF q, m, d
<1>4. s * q = (r + 1) * q + d * q
  BY <1>1, <1>3
<1>5. d * q \in Nat /\ (r + 1) * q \in Nat
  BY <1>1, <1>3
<1>6. Min2(r + 1, m) <= Min2(s, m) /\ Min2(r + 1, m) \in Nat /\ Min2(s, m) \in Nat
  BY <1>1 DEF Min2
<1>7. Displ(n, r + 1) <= Displ(n, s)
  BY <1>2, <1>4, <1>5, <1>6
<1> QED BY <1>7, DisplNext

(* No block has two owners. *)
LEMMA OwnerUnique ==
    ASSUME NEW n \in Nat, NEW r \in Ranks, NEW b \in Share(n, r)
    PROVE  OwnerOf(n, b) = r
<1>1. ASSUME NEW s \in Ranks, b \in Share(n, s)
      PROVE  s = r
  <2> r \in Nat /\ s \in Nat
    BY StripingAssumption DEF Ranks
  <2>1. /\ Displ(n, r) \in Nat /\ EffectiveBlocks(n, r) \in Nat
        /\ Displ(n, s) \in Nat /\ EffectiveBlocks(n, s) \in Nat
    BY ShareType
  <2>2. /\ b \in Int
        /\ Displ(n, r) + 1 <= b /\ b <= Displ(n, r) + EffectiveBlocks(n, r)
        /\ Displ(n, s) + 1 <= b /\ b <= Displ(n, s) + EffectiveBlocks(n, s)
    BY <1>1, <2>1 DEF Share
  <2>3. ~(r < s)
    BY <2>1, <2>2, SharesOrdered
  <2>4. ~(s < r)
    BY <2>1, <2>2, SharesOrdered
  <2> QED BY <2>3, <2>4
<1> QED BY <1>1 DEF OwnerOf

(* A share is part of the file. *)
LEMMA ShareInFile ==
    ASSUME NEW n \in Nat, NEW r \in Ranks
    PROVE  /\ Displ(n, r) + EffectiveBlocks(n, r) <= n
           /\ Share(n, r) \subseteq 1 .. n
<1> r \in Nat /\ WorldSize \in Nat /\ r + 1 \in Nat /\ r < WorldSize
  BY StripingAssumption DEF Ranks
<1>1. Displ(n, r) \in Nat /\ EffectiveBlocks(n, r) \in Nat
  BY ShareType
<1>2. Displ(n, r) + EffectiveBlocks(n, r) <= Displ(n, WorldSize)
  BY SharesOrdered
<1>3. Displ(n, r) + EffectiveBlocks(n, r) <= n
  BY <1>2, DisplEnd
<1> QED BY <1>1, <1>3 DEF Share
(* Every block has an owner: the ranks below the remainder have one block  *)
(* more than the others, so a division by the right share finds the rank.  *)
LEMMA EveryBlockHasOwner ==
    ASSUME NEW n \in Nat, NEW b \in 1 .. n
    PROVE  /\ OwnerOf(n, b) \in Ranks
           /\ b \in Share(n, OwnerOf(n, b))
<1> DEFINE q == n \div WorldSize
           m == n % WorldSize
           c == b - 1
<1>1. q \in Nat /\ m \in Nat /\ m < WorldSize /\ n = WorldSize * q + m /\ c \in Nat /\ c < n
  BY DivMod, StripingAssumption
<1>2. \A r \in Nat : /\ EffectiveBlocks(n, r) = q + (IF r < m THEN 1 ELSE 0)
                     /\ Displ(n, r) = r * q + Min2(r, m)
  BY DEF EffectiveBlocks, Displ
<1>3. ASSUME NEW r \in Nat, r < WorldSize,
             Displ(n, r) <= c, c < Displ(n, r) + EffectiveBlocks(n, r)
      PROVE  r \in Ranks /\ b \in Share(n, r)
  <2>1. Displ(n, r) \in Nat /\ EffectiveBlocks(n, r) \in Nat
    BY <1>3, ShareType
  <2>2. r \in Ranks
    BY <1>3, StripingAssumption DEF Ranks
  <2> QED BY <1>3, <2>1, <2>2 DEF Share
<1>4. \E r \in Nat : /\ r < WorldSize
                     /\ Displ(n, r) <= c
                     /\ c < Displ(n, r) + EffectiveBlocks(n, r)
  <2> HIDE DEF q, m, c
  <2> DEFINE h == m * (q + 1)
  <2>1. h \in Nat /\ h = m * q + m
    BY <1>1
  <2>2. CASE c < h
    <3> DEFINE r == c \div (q + 1)
    <3>1. /\ r \in Nat
          /\ r * (q + 1) <= c
          /\ c < r * (q + 1) + (q + 1)
      BY <1>1
    <3> HIDE DEF r
    <3>2. r < m
      <4> SUFFICES ASSUME m <= r PROVE FALSE
        BY <1>1, <3>1
      <4> DEFINE d == r - m
      <4>1. d \in Nat /\ r = m + d
        BY <1>1, <3>1
      <4> HIDE DEF d
      <4>2. r * (q + 1) = m * (q + 1) + d * (q + 1) /\ d * (q + 1) \in Nat
        BY <1>1, <4>1
      <4> QED BY <1>1, <2>1, <2>2, <3>1, <4>2
    <3>3. Displ(n, r) = r * (q + 1) /\ EffectiveBlocks(n, r) = q + 1
      <4>1. Displ(n, r) = r * q + r
        BY <1>1, <1>2, <3>1, <3>2 DEF Min2
      <4>2. r * (q + 1) = r * q + r
        BY <1>1, <3>1
      <4> QED BY <1>1, <1>2, <3>1, <3>2, <4>1, <4>2
    <3> QED BY <1>1, <3>1, <3>2, <3>3, StripingAssumption
  <2>3. CASE ~(c < h)
    <3> DEFINE e == c - h
               d == e \div q
               r == m + d
               w == WorldSize - m
    <3>1. e \in Nat /\ c = h + e
      BY <1>1, <2>1, <2>3
    <3>2. w \in Nat /\ WorldSize = m + w
      BY <1>1, StripingAssumption
    <3> HIDE DEF e, w
    <3>3. WorldSize * q = m * q + w * q
      BY <1>1, <3>2, StripingAssumption
    <3>4. e < w * q
      <4>1. w * q \in Nat /\ m * q \in Nat
        BY <1>1, <3>2
      <4> QED BY <1>1, <2>1, <3>1, <3>3, <4>1
    <3>5. q # 0
      <4>1. q = 0 => w * q = 0
        BY <3>2
      <4> QED BY <3>1, <3>4, <4>1
    <3>6. /\ d \in Nat
          /\ d * q <= e
          /\ e < d * q + q
      BY <1>1, <3>1, <3>5
    <3> HIDE DEF d
    <3>7. d < w
      <4> SUFFICES ASSUME w <= d PROVE FALSE
        BY <3>2, <3>6
      <4> DEFINE x == d - w
      <4>1. x \in Nat /\ d = w + x
        BY <3>2, <3>6
      <4> HIDE DEF x
      <4>2. d * q = w * q + x * q /\ x * q \in Nat /\ w * q \in Nat
        BY <1>1, <3>2, <4>1
      <4> QED BY <3>1, <3>4, <3>6, <4>2
    <3>8. r \in Nat /\ r < WorldSize /\ ~(r < m)
      BY <1>1, <3>2, <3>6, <3>7
    <3>9. Displ(n, r) = h + d * q /\ EffectiveBlocks(n, r) = q
      <4>1. Displ(n, r) = r * q + m
        BY <1>1, <1>2, <3>8 DEF Min2
      <4>2. r * q = m * q + d * q
        BY <1>1, <3>6
      <4>3. m * q \in Nat /\ d * q \in Nat
        BY <1>1, <3>6
      <4> QED BY <1>1, <1>2, <2>1, <3>8, <4>1, <4>2, <4>3
    <3>10. d * q \in Nat
      BY <1>1, <3>6
    <3> HIDE DEF r, h
    <3> QED BY <1>1, <2>1, <3>1, <3>6, <3>8, <3>9, <3>10
  <2> QED BY <2>2, <2>3
<1>5. PICK r \in Ranks : b \in Share(n, r)
  BY <1>3, <1>4
<1> QED BY <1>5, OwnerUnique

LEMMA RanksNatural == Ranks \subseteq Nat
  BY StripingAssumption DEF Ranks

(* What Scatterv hands to a rank. *)
LEMMA ScatterPartType ==
    ASSUME NEW S, NEW s \in Seq(S), NEW r \in Ranks
    PROVE  /\ ScatterPart(s, r) \in Seq(S)
           /\ Len(ScatterPart(s, r)) = EffectiveBlocks(Len(s), r)
           /\ DOMAIN ScatterPart(s, r) = 1 .. EffectiveBlocks(Len(s), r)
           /\ \A i \in 1 .. EffectiveBlocks(Len(s), r) :
                 /\ ScatterPart(s, r)[i] = s[Displ(Len(s), r) + i]
                 /\ Displ(Len(s), r) + i \in 1 .. Len(s)
<1> DEFINE n == Len(s)
           e == EffectiveBlocks(n, r)
           d == Displ(n, r)
<1>1. n \in Nat
  BY LenProperties
<1>2. e \in Nat /\ d \in Nat
  BY <1>1, ShareType, RanksNatural
<1>3. d + e <= n
  BY <1>1, ShareInFile
<1> HIDE DEF n, e, d
<1>4. \A i \in 1 .. e : d + i \in 1 .. n
  BY <1>1, <1>2, <1>3
<1>5. \A i \in 1 .. e : s[d + i] \in S
  BY <1>4, ElementOfSeq DEF n
<1>6. ScatterPart(s, r) = [i \in 1 .. e |-> s[d + i]]
  BY DEF ScatterPart, n, e, d
<1>7. ScatterPart(s, r) \in [1 .. e -> S]
  BY <1>5, <1>6
<1>8. ScatterPart(s, r) \in Seq(S) /\ Len(ScatterPart(s, r)) = e
      /\ DOMAIN ScatterPart(s, r) = 1 .. e
  BY <1>2, <1>7, FunctionIsSeq
<1> QED BY <1>4, <1>6, <1>8 DEF n, e, d

(* What Gatherv makes of the shares of all ranks. *)
LEMMA GatherPartsType ==
    ASSUME NEW n \in Nat, NEW S, NEW contrib,
           \A r \in Ranks : contrib[r] \in Seq(S) /\ Len(contrib[r]) = EffectiveBlocks(n, r)
    PROVE  /\ GatherParts(n, contrib) \in Seq(S) /\ Len(GatherParts(n, contrib)) = n
           /\ \A r \in Ranks : \A i \in 1 .. EffectiveBlocks(n, r) :
                 /\ Displ(n, r) + i \in 1 .. n
                 /\ GatherParts(n, contrib)[Displ(n, r) + i] = contrib[r][i]
<1>1. ASSUME NEW b \in 1 .. n
      PROVE  contrib[OwnerOf(n, b)][b - Displ(n, OwnerOf(n, b))] \in S
  <2>1. PICK o \in Ranks : o = OwnerOf(n, b) /\ b \in Share(n, o)
    BY EveryBlockHasOwner
  <2>2. Displ(n, o) \in Nat /\ EffectiveBlocks(n, o) \in Nat
    BY ShareType, RanksNatural
  <2>3. b - Displ(n, o) \in 1 .. Len(contrib[o])
    BY <2>1, <2>2 DEF Share
  <2> QED BY <2>1, <2>3, ElementOfSeq
<1>2. GatherParts(n, contrib) \in [1 .. n -> S]
  BY <1>1 DEF GatherParts
<1>3. ASSUME NEW r \in Ranks, NEW i \in 1 .. EffectiveBlocks(n, r)
      PROVE  /\ Displ(n, r) + i \in 1 .. n
             /\ GatherParts(n, contrib)[Displ(n, r) + i] = contrib[r][i]
  <2>1. Displ(n, r) \in Nat /\ EffectiveBlocks(n, r) \in Nat
    BY ShareType, RanksNatural
  <2>2. Displ(n, r) + i \in Share(n, r)
    BY <2>1 DEF Share
  <2>3. Displ(n, r) + i \in 1 .. n /\ OwnerOf(n, Displ(n, r) + i) = r
    BY <2>2, ShareInFile, OwnerUnique
  <2>4. (Displ(n, r) + i) - Displ(n, r) = i
    BY <2>1
  <2> QED BY <2>3, <2>4 DEF GatherParts
<1> QED BY <1>2, <1>3, FunctionIsSeq
=============================================================================
