--------------------------- MODULE ReadDirProofs ---------------------------
(***************************************************************************)
(* Proofs about ReadDir, for every number of names and handles, names of   *)
(* any length and answers of any size: the types, and that a listing that  *)
(* was told the end has been sent all that stayed.                         *)
(*                                                                         *)
(* The argument: while a listing is under way, every name that stayed and  *)
(* lies before the iterator was sent.  An answer sends what lies between   *)
(* the old place of the iterator and the first entry that does not fit;    *)
(* the new place lies before that entry.                                   *)
(*                                                                         *)
(* As long as any entry fits an answer, the iterator also stands at the    *)
(* last name sent, and no other name is sent again.                        *)
(***************************************************************************)
EXTENDS ReadDir, FiniteSetTheorems, WellFoundedInduction, TLAPS

PassedWereSent ==
    \A h \in Handles : state[h] = "reading" =>
        /\ stayed[h] \subseteq children
        /\ iterator[h] \in Names => \A n \in stayed[h] : n < iterator[h] => times[h][n] > 0
        /\ iterator[h] = End => \A n \in stayed[h] : times[h][n] > 0

IInv == TypeOK /\ PassedWereSent /\ Complete

(* A set of natural numbers that is not empty has a smallest one, and a    *)
(* set of names a largest one, too.                                        *)
LEMMA NatHasSmallest == ASSUME NEW S \in SUBSET Nat, S # {}
                        PROVE  \E n \in S : \A k \in S : n <= k
<1> DEFINE R == {ss \in Nat \X Nat : ss[1] < ss[2]}
<1>1. IsWellFoundedOn(R, Nat)
  BY NatLessThanWellFounded DEF OpToRel
<1> HIDE DEF R
<1>2. PICK n \in S : \A k \in S : ~(<<k, n>> \in R)
  BY <1>1, WFMin
<1>3. \A k \in S : ~(k < n)
  BY <1>2 DEF R
<1> QED BY <1>3

LEMMA Smallest == ASSUME NEW S \in SUBSET Names, S # {}
                  PROVE  SmallestOf(S) \in S /\ \A k \in S : SmallestOf(S) <= k
<1>1. S \in SUBSET Nat
  BY ReadDirAssumption DEF Names
<1>2. \E n \in S : \A k \in S : n <= k
  BY <1>1, NatHasSmallest
<1> QED BY <1>2 DEF SmallestOf

LEMMA Largest == ASSUME NEW S \in SUBSET Names, S # {}
                 PROVE  LargestOf(S) \in S /\ \A k \in S : k <= LargestOf(S)
<1> DEFINE T == {LastName - n : n \in S}
<1>1. T \in SUBSET Nat /\ T # {}
  <2>1. \A n \in Names : LastName - n \in Nat
    BY ReadDirAssumption DEF Names
  <2> QED BY <2>1
<1>2. PICK t \in T : \A k \in T : t <= k
  <2> HIDE DEF T
  <2> QED BY <1>1, NatHasSmallest
<1>3. PICK n \in S : t = LastName - n
  BY <1>2
<1>4. \A k \in S : k <= n
  <2> TAKE k \in S
  <2>1. LastName - n <= LastName - k
    BY <1>2, <1>3
  <2>2. k \in Int /\ n \in Int /\ LastName \in Int
    BY ReadDirAssumption DEF Names
  <2> QED BY <2>1, <2>2
<1> QED BY <1>3, <1>4 DEF LargestOf

(* What an answer leaves the iterator at: the end, if all was added, or a  *)
(* place before every entry that was not.                                  *)
LEMMA AddedAhead == ASSUME NEW h \in Handles, TypeOK
                    PROVE  /\ Added(h) \subseteq Ahead(h)
                           /\ Ahead(h) \in SUBSET children
                           /\ children \in SUBSET Names
BY DEF TypeOK, Added, Ahead

LEMMA AnswerStops ==
    ASSUME NEW h \in Handles, TypeOK
    PROVE  /\ IteratorAfter(h) \in children \cup {BeforeBegin, End}
           /\ IteratorAfter(h) = End => Ahead(h) = Added(h)
           /\ IteratorAfter(h) \in Names =>
                 \A n \in Ahead(h) : n < IteratorAfter(h) => n \in Added(h)
<1> DEFINE rest == Ahead(h) \ Added(h)
           first == SmallestOf(rest)
<1>1. rest \in SUBSET Names /\ rest \subseteq children
  BY AddedAhead
<1>2. CASE rest = {}
  BY <1>2, AddedAhead DEF IteratorAfter, End, Names
<1>3. CASE rest # {}
  <2>1. /\ first \in rest
        /\ \A k \in rest : first <= k
    BY <1>1, <1>3, Smallest
  <2>2. first \in Names
    BY <1>1, <2>1
  <2>3. ASSUME NEW n \in Ahead(h), n < first
        PROVE  n \in Added(h)
    <3>1. n \in Names /\ n \in Int /\ first \in Int
      BY <2>2, AddedAhead DEF Names
    <3>2. n \notin rest
      BY <2>1, <2>3, <3>1
    <3> QED BY <3>2
  <2>4. CASE EntriesAdded(h, Added(h)) >= kReadDirEntriesPerResponse
    <3>1. IteratorAfter(h) = first
      BY <1>3, <2>4 DEF IteratorAfter
    <3> QED BY <1>1, <2>1, <2>2, <2>3, <3>1 DEF End, Names
  <2>5. CASE ~(EntriesAdded(h, Added(h)) >= kReadDirEntriesPerResponse)
    <3>1. IteratorAfter(h) = StepBack(first)
      BY <1>3, <2>5 DEF IteratorAfter
    <3>2. CASE Before(first) = {}
      <4>1. IteratorAfter(h) = BeforeBegin
        BY <3>1, <3>2 DEF StepBack
      <4> QED BY <4>1 DEF BeforeBegin, End, Names
    <3>3. CASE Before(first) # {}
      <4>1. Before(first) \in SUBSET Names
        BY AddedAhead DEF Before
      <4>2. StepBack(first) \in Before(first)
        BY <3>3, <4>1, Largest DEF StepBack
      <4>3. /\ IteratorAfter(h) \in children /\ IteratorAfter(h) \in Names
            /\ IteratorAfter(h) < first
        BY <3>1, <4>1, <4>2 DEF Before
      <4>4. \A n \in Ahead(h) : n < IteratorAfter(h) => n < first
        BY <2>2, <4>3, AddedAhead DEF Names
      <4> QED BY <2>3, <4>3, <4>4 DEF End, Names
    <3> QED BY <3>2, <3>3
  <2> QED BY <2>4, <2>5
<1> QED BY <1>2, <1>3
-----------------------------------------------------------------------------
LEMMA InitInv == Init => IInv
<1> SUFFICES ASSUME Init PROVE IInv
  OBVIOUS
<1>1. TypeOK
  <2>1. 0 \in 0 .. Often /\ 0 \in 0 .. MaxChanges /\ 0 \in 0 .. MaxListings
    BY ReadDirAssumption DEF Often
  <2>2. times \in [Handles -> [Names -> 0 .. Often]]
    BY <2>1 DEF Init
  <2> QED BY <2>1, <2>2 DEF Init, TypeOK
<1>2. PassedWereSent /\ Complete
  BY DEF Init, PassedWereSent, Complete
<1> QED BY <1>1, <1>2 DEF IInv

(* A listing that begins has passed nothing. *)
LEMMA NewListingStep ==
    ASSUME IInv, NEW h \in Handles, NewListing(h), UNCHANGED <<children, crashed, changes>>,
           listings < MaxListings
    PROVE  IInv'
<1>1. TypeOK'
  BY ReadDirAssumption DEF IInv, TypeOK, NewListing, Often, NoIterator
<1>2. PassedWereSent'
  <2> SUFFICES ASSUME NEW g \in Handles, state'[g] = "reading"
               PROVE  /\ stayed'[g] \subseteq children'
                      /\ iterator'[g] \in Names => \A n \in stayed'[g] : n < iterator'[g] => times'[g][n] > 0
                      /\ iterator'[g] = End => \A n \in stayed'[g] : times'[g][n] > 0
    BY DEF PassedWereSent
  <2>1. CASE g = h
    BY <2>1 DEF IInv, TypeOK, NewListing, NoIterator, End, Names
  <2>2. CASE g # h
    BY <2>2 DEF IInv, TypeOK, PassedWereSent, NewListing
  <2> QED BY <2>1, <2>2
<1>3. Complete'
  BY DEF IInv, TypeOK, Complete, NewListing
<1> QED BY <1>1, <1>2, <1>3 DEF IInv

LEMMA ReleaseStep == ASSUME IInv, NEW h \in Handles, FuseReleaseDir(h)
                     PROVE  IInv'
<1>1. TypeOK'
  BY DEF IInv, TypeOK, FuseReleaseDir, history
<1>2. PassedWereSent'
  BY DEF IInv, TypeOK, PassedWereSent, FuseReleaseDir, history
<1>3. Complete'
  BY DEF IInv, TypeOK, Complete, FuseReleaseDir, history
<1> QED BY <1>1, <1>2, <1>3 DEF IInv

LEMMA UpdateStep == ASSUME IInv, NEW m \in Names, UpdateChild(m)
                    PROVE  IInv'
<1>1. TypeOK'
  BY ReadDirAssumption DEF IInv, TypeOK, UpdateChild, history
<1>2. PassedWereSent'
  BY DEF IInv, PassedWereSent, UpdateChild, history
<1>3. Complete'
  BY DEF IInv, Complete, UpdateChild, history
<1> QED BY <1>1, <1>2, <1>3 DEF IInv

(* An iterator at the name that goes is at no name from then on. *)
LEMMA DeleteStep == ASSUME IInv, NEW m \in Names, DeleteChild(m)
                    PROVE  IInv'
<1>1. TypeOK'
  <2>1. iterator' \in [Handles -> children' \cup Undefined \cup {NoIterator, End}]
    BY DEF IInv, TypeOK, DeleteChild, Undefined
  <2>2. stayed' \in [Handles -> SUBSET Names]
    BY DEF IInv, TypeOK, DeleteChild
  <2>3. changes' \in 0 .. MaxChanges
    BY ReadDirAssumption DEF IInv, TypeOK, DeleteChild
  <2> QED BY <2>1, <2>2, <2>3 DEF IInv, TypeOK, DeleteChild
<1>2. PassedWereSent'
  <2> SUFFICES ASSUME NEW g \in Handles, state'[g] = "reading"
               PROVE  /\ stayed'[g] \subseteq children'
                      /\ iterator'[g] \in Names => \A n \in stayed'[g] : n < iterator'[g] => times'[g][n] > 0
                      /\ iterator'[g] = End => \A n \in stayed'[g] : times'[g][n] > 0
    BY DEF PassedWereSent
  <2>1. /\ state[g] = "reading" /\ times' = times
        /\ stayed'[g] = stayed[g] \ {m} /\ children' = children \ {m}
        /\ iterator'[g] = IF iterator[g] = m THEN Freed ELSE iterator[g]
    BY DEF DeleteChild
  <2>2. Freed \notin Names /\ Freed # End
    BY DEF Freed, End, Names
  <2> QED BY <2>1, <2>2 DEF IInv, PassedWereSent
<1>3. Complete'
  BY DEF IInv, TypeOK, Complete, DeleteChild
<1> QED BY <1>1, <1>2, <1>3 DEF IInv

(* One entry of the history, for the handle that is answered. *)
LEMMA SentByAnswer ==
    ASSUME IInv, NEW h \in Handles, FuseReadDir(h), iterator[h] \notin Undefined, NEW n \in Names
    PROVE  /\ times'[h][n] \in 0 .. Often
           /\ n \in Added(h) => times'[h][n] > 0
           /\ times[h][n] > 0 => times'[h][n] > 0
<1>1. times[h][n] \in 0 .. Often
  BY DEF IInv, TypeOK
<1>2. times'[h][n] = IF n \in Added(h) /\ times[h][n] < Often THEN times[h][n] + 1 ELSE times[h][n]
  BY DEF FuseReadDir, IInv, TypeOK
<1> QED BY <1>1, <1>2 DEF Often

LEMMA AnswerType ==
    ASSUME IInv, NEW h \in Handles, FuseReadDir(h), iterator[h] \notin Undefined
    PROVE  TypeOK'
<1>1. iterator' \in [Handles -> children' \cup Undefined \cup {NoIterator, End}]
  BY AnswerStops DEF IInv, TypeOK, FuseReadDir, Undefined
<1>2. times' \in [Handles -> [Names -> 0 .. Often]]
  <2> DEFINE answered == [n \in Names |-> IF n \in Added(h) /\ times[h][n] < Often
                                          THEN times[h][n] + 1 ELSE times[h][n]]
  <2>1. times' = [times EXCEPT ![h] = answered]
    BY DEF FuseReadDir
  <2>2. answered \in [Names -> 0 .. Often]
    BY DEF IInv, TypeOK, Often
  <2> HIDE DEF answered
  <2> QED BY <2>1, <2>2 DEF IInv, TypeOK
<1>3. lastSent' \in [Handles -> Names \cup {NoIterator}]
  <2>1. Added(h) \in SUBSET Names
    BY AddedAhead DEF IInv
  <2>2. Added(h) # {} => LargestOf(Added(h)) \in Names
    BY <2>1, Largest
  <2> QED BY <2>2 DEF IInv, TypeOK, FuseReadDir
<1>4. /\ state' \in [Handles -> {"closed", "reading", "ended"}]
      /\ UNCHANGED <<crashed, children, stayed, changes, listings>>
  BY DEF IInv, TypeOK, FuseReadDir
<1> QED BY <1>1, <1>2, <1>3, <1>4 DEF IInv, TypeOK

(* The names that were passed: those before the old place of the iterator, *)
(* and those between it and the new one, which were added.                 *)
LEMMA AnswerPasses ==
    ASSUME IInv, NEW h \in Handles, FuseReadDir(h), iterator[h] \notin Undefined
    PROVE  PassedWereSent' /\ Complete'
<1>1. /\ state[h] = "reading" /\ children' = children /\ stayed' = stayed
      /\ iterator' = [iterator EXCEPT ![h] = IteratorAfter(h)]
      /\ state' = [state EXCEPT ![h] = IF iterator[h] = End THEN "ended" ELSE @]
      /\ \A g \in Handles : g # h => times'[g] = times[g]
  BY DEF FuseReadDir, IInv, TypeOK
<1>2. /\ TypeOK /\ h \in Handles
      /\ stayed[h] \subseteq children /\ children \subseteq Names
      /\ iterator[h] \in children \cup {NoIterator, End}
  BY <1>1 DEF IInv, PassedWereSent, TypeOK
<1>3. ASSUME NEW n \in stayed[h],
             \/ IteratorAfter(h) = End
             \/ IteratorAfter(h) \in Names /\ n < IteratorAfter(h)
      PROVE  times'[h][n] > 0
  <2>1. n \in Names /\ n \in children
    BY <1>2
  <2>2. CASE n \in Ahead(h)
    <3>1. n \in Added(h)
      BY <1>2, <1>3, <2>2, AnswerStops DEF End, Names
    <3> QED BY <2>1, <3>1, SentByAnswer
  <2>3. CASE n \notin Ahead(h)
    <3>1. times[h][n] > 0
      <4>1. CASE iterator[h] = NoIterator
        BY <2>1, <2>3, <4>1 DEF Ahead
      <4>2. CASE iterator[h] = End
        BY <1>1, <4>2 DEF IInv, PassedWereSent
      <4>3. CASE iterator[h] \in Names
        <5>1. n < iterator[h]
          BY <2>1, <2>3, <4>3 DEF Ahead, Names, NoIterator, End
        <5> QED BY <1>1, <4>3, <5>1 DEF IInv, PassedWereSent
      <4> QED BY <1>2, <4>1, <4>2, <4>3
    <3> QED BY <2>1, <3>1, SentByAnswer
  <2> QED BY <2>2, <2>3
<1>4. PassedWereSent'
  <2> SUFFICES ASSUME NEW g \in Handles, state'[g] = "reading"
               PROVE  /\ stayed'[g] \subseteq children'
                      /\ iterator'[g] \in Names => \A n \in stayed'[g] : n < iterator'[g] => times'[g][n] > 0
                      /\ iterator'[g] = End => \A n \in stayed'[g] : times'[g][n] > 0
    BY DEF PassedWereSent
  <2>1. CASE g = h
    <3>1. iterator'[g] = IteratorAfter(h)
      BY <1>1, <2>1 DEF IInv, TypeOK
    <3> QED BY <1>1, <1>2, <1>3, <2>1, <3>1
  <2>2. CASE g # h
    BY <1>1, <2>2 DEF IInv, PassedWereSent, TypeOK
  <2> QED BY <2>1, <2>2
<1>5. Complete'
  <2> SUFFICES ASSUME NEW g \in Handles, state'[g] = "ended", NEW n \in stayed'[g]
               PROVE  times'[g][n] > 0
    BY DEF Complete
  <2>1. CASE g = h
    <3>1. iterator[h] = End
      BY <1>1, <2>1 DEF IInv, TypeOK
    <3>2. times[h][n] > 0 /\ n \in Names
      BY <1>1, <1>2, <2>1, <3>1 DEF IInv, PassedWereSent
    <3> QED BY <2>1, <3>2, SentByAnswer
  <2>2. CASE g # h
    BY <1>1, <2>2 DEF IInv, Complete, TypeOK
  <2> QED BY <2>1, <2>2
<1> QED BY <1>4, <1>5

LEMMA ReadStep == ASSUME IInv, NEW h \in Handles, FuseReadDir(h)
                  PROVE  IInv'
<1>1. CASE iterator[h] \in Undefined
  <2>1. UNCHANGED <<state, iterator, times, lastSent, children, stayed, changes, listings>> /\ crashed'
    BY <1>1 DEF FuseReadDir
  <2> QED BY <2>1 DEF IInv, TypeOK, PassedWereSent, Complete
<1>2. CASE iterator[h] \notin Undefined
  BY <1>2, AnswerType, AnswerPasses DEF IInv
<1> QED BY <1>1, <1>2

(* The types, and the inductive invariant, whatever the sizes. *)
THEOREM Invariance == Spec => []IInv
<1>1. Init => IInv
  BY InitInv
<1>2. IInv /\ [Next]_vars => IInv'
  <2> SUFFICES ASSUME IInv, [Next]_vars PROVE IInv'
    OBVIOUS
  <2>1. ASSUME NEW h \in Handles, FuseOpenDir(h) PROVE IInv'
    BY <2>1, NewListingStep DEF FuseOpenDir
  <2>2. ASSUME NEW h \in Handles, Rewind(h) PROVE IInv'
    BY <2>2, NewListingStep DEF Rewind
  <2>3. ASSUME NEW h \in Handles, FuseReadDir(h) PROVE IInv'
    BY <2>3, ReadStep
  <2>4. ASSUME NEW h \in Handles, FuseReleaseDir(h) PROVE IInv'
    BY <2>4, ReleaseStep
  <2>5. ASSUME NEW n \in Names, UpdateChild(n) PROVE IInv'
    BY <2>5, UpdateStep
  <2>6. ASSUME NEW n \in Names, DeleteChild(n) PROVE IInv'
    BY <2>6, DeleteStep
  <2>7. CASE UNCHANGED vars
    BY <2>7 DEF vars, history, IInv, TypeOK, PassedWereSent, Complete
  <2> QED BY <2>1, <2>2, <2>3, <2>4, <2>5, <2>6, <2>7 DEF Next, HandleNext
<1> QED BY <1>1, <1>2, PTL DEF Spec

(* FuseReadDir and the handlers that change the children keep the types,   *)
(* and an iterator at an entry is at one that is there.                    *)
THEOREM TypeCorrect == Spec => []TypeOK
BY Invariance, PTL DEF IInv

(* FuseReadDir misses no name that stayed, however the answers were cut    *)
(* and whatever else came and went.                                        *)
THEOREM ListingComplete == Spec => []Complete
BY Invariance, PTL DEF IInv
-----------------------------------------------------------------------------
(* The sizes of answers.                                                   *)

(* The sets of names are finite, and a non-empty collection of them has    *)
(* one with the fewest names: induction over sets of names.                *)
LEMMA NamesFinite == ASSUME NEW S \in SUBSET Names
                     PROVE  /\ IsFiniteSet(S) /\ Cardinality(S) \in Nat
                            /\ Cardinality(S) <= LastName
                            /\ \A n \in S : /\ Cardinality(S \ {n}) = Cardinality(S) - 1
                                            /\ Cardinality(S \ {n}) \in Nat
                            /\ S # {} => Cardinality(S) > 0
<1>1. IsFiniteSet(Names) /\ Cardinality(Names) = LastName
  BY FS_Interval, ReadDirAssumption DEF Names
<1>2. IsFiniteSet(S) /\ Cardinality(S) <= LastName
  BY <1>1, FS_Subset
<1>3. Cardinality(S) \in Nat /\ (S # {} => Cardinality(S) # 0)
  BY <1>2, FS_CardinalityType, FS_EmptySet
<1>4. \A n \in S : Cardinality(S \ {n}) = Cardinality(S) - 1 /\ Cardinality(S \ {n}) \in Nat
  BY <1>2, FS_RemoveElement, FS_CardinalityType
<1> QED BY <1>2, <1>3, <1>4

LEMMA FewestNames == ASSUME NEW Sets \in SUBSET (SUBSET Names), Sets # {}
                     PROVE  \E S \in Sets : \A T \in Sets : Cardinality(S) <= Cardinality(T)
<1> DEFINE sizes == {Cardinality(S) : S \in Sets}
<1>1. sizes \in SUBSET Nat /\ sizes # {}
  BY NamesFinite
<1>2. PICK n \in sizes : \A k \in sizes : n <= k
  <2> HIDE DEF sizes
  <2> QED BY <1>1, NatHasSmallest
<1> QED BY <1>2

Chosen(S) == CHOOSE n \in S : TRUE
IsSum(sum, S) == sum = [T \in SUBSET S |-> IF T = {} THEN 0
                                           ELSE EntrySize(Chosen(T)) + sum[T \ {Chosen(T)}]]
BytesOf(S) == MapThenSumSet(EntrySize, S)

LEMMA BytesIsSum == ASSUME NEW S
                    PROVE  BytesOf(S) = (CHOOSE sum : IsSum(sum, S))[S]
BY DEF BytesOf, MapThenSumSet, MapThenFoldSet, IsSum, Chosen

LEMMA EntrySizeType == ASSUME NEW n \in Names
                       PROVE  EntrySize(n) \in Nat /\ EntrySize(n) >= 32
<1>1. NameLength[n] \in Nat /\ NameLength[n] >= 1
  BY ReadDirAssumption
<1>2. \A k \in Nat : k >= 32 => k \div 8 \in Nat /\ k \div 8 >= 4
  OBVIOUS
<1>3. 24 + NameLength[n] + 7 \in Nat /\ 24 + NameLength[n] + 7 >= 32
  BY <1>1
<1> QED BY <1>2, <1>3 DEF EntrySize

LEMMA ChosenIn == ASSUME NEW S \in SUBSET Names, S # {}
                  PROVE  /\ Chosen(S) \in S /\ Chosen(S) \in Names
                         /\ S \ {Chosen(S)} \in SUBSET Names
                         /\ Cardinality(S \ {Chosen(S)}) < Cardinality(S)
<1>1. Chosen(S) \in S
  BY DEF Chosen
<1> QED BY <1>1, NamesFinite

(* There is one function that adds up the sizes of every set of names. *)
Smalls(k) == {S \in SUBSET Names : Cardinality(S) <= k}
SumsUpTo(sum, k) ==
    /\ sum \in [Smalls(k) -> Nat]
    /\ \A S \in Smalls(k) : sum[S] = IF S = {} THEN 0 ELSE EntrySize(Chosen(S)) + sum[S \ {Chosen(S)}]

LEMMA SumExists == \E sum : SumsUpTo(sum, LastName)
<1> DEFINE Bad == {k \in Nat : ~\E sum : SumsUpTo(sum, k)}
<1>1. SUFFICES ASSUME Bad # {} PROVE FALSE
  BY ReadDirAssumption
<1>2. PICK k \in Bad : \A m \in Bad : k <= m
  <2>1. Bad \in SUBSET Nat
    OBVIOUS
  <2> HIDE DEF Bad
  <2> QED BY <1>1, <2>1, NatHasSmallest
<1>3. CASE k = 0
  <2>1. Smalls(0) \subseteq {{}}
    BY NamesFinite DEF Smalls
  <2>2. SumsUpTo([S \in Smalls(0) |-> 0], 0)
    BY <2>1 DEF SumsUpTo
  <2> QED BY <1>2, <1>3, <2>2
<1>4. CASE k # 0
  <2>1. k \in Nat /\ k - 1 \in Nat /\ k - 1 \notin Bad
    BY <1>2, <1>4
  <2>2. PICK sum : SumsUpTo(sum, k - 1)
    BY <2>1
  <2> DEFINE more == [S \in Smalls(k) |-> IF S = {} THEN 0
                                          ELSE EntrySize(Chosen(S)) + sum[S \ {Chosen(S)}]]
  <2>3. ASSUME NEW S \in Smalls(k), S # {}
        PROVE  /\ S \ {Chosen(S)} \in Smalls(k) /\ S \ {Chosen(S)} \in Smalls(k - 1)
               /\ EntrySize(Chosen(S)) \in Nat
    <3>1. S \in SUBSET Names /\ Cardinality(S) <= k
      BY DEF Smalls
    <3>2. /\ Chosen(S) \in Names /\ S \ {Chosen(S)} \in SUBSET Names
          /\ Cardinality(S \ {Chosen(S)}) < Cardinality(S)
      BY <2>3, <3>1, ChosenIn
    <3>3. Cardinality(S) \in Nat /\ Cardinality(S \ {Chosen(S)}) \in Nat
      BY <3>1, <3>2, NamesFinite
    <3>4. Cardinality(S \ {Chosen(S)}) <= k - 1
      BY <2>1, <3>1, <3>2, <3>3
    <3> QED BY <2>1, <3>1, <3>2, <3>3, <3>4, EntrySizeType DEF Smalls
  <2>4. more \in [Smalls(k) -> Nat]
    BY <2>2, <2>3 DEF SumsUpTo
  <2>5. \A S \in Smalls(k - 1) : S \in Smalls(k) /\ more[S] = sum[S]
    <3> TAKE S \in Smalls(k - 1)
    <3>1. Cardinality(S) \in Nat /\ S \in SUBSET Names /\ Cardinality(S) <= k - 1
      BY NamesFinite DEF Smalls
    <3>2. S \in Smalls(k)
      BY <2>1, <3>1 DEF Smalls
    <3> QED BY <2>2, <3>2 DEF SumsUpTo
  <2>6. SumsUpTo(more, k)
    <3>1. ASSUME NEW S \in Smalls(k), S # {}
          PROVE  more[S] = EntrySize(Chosen(S)) + more[S \ {Chosen(S)}]
      <4>1. more[S] = EntrySize(Chosen(S)) + sum[S \ {Chosen(S)}]
        BY <3>1
      <4> HIDE DEF more
      <4> QED BY <3>1, <4>1, <2>3, <2>5
    <3>2. ASSUME NEW S \in Smalls(k), S = {} PROVE more[S] = 0
      BY <3>2
    <3> HIDE DEF more
    <3> QED BY <2>4, <3>1, <3>2 DEF SumsUpTo
  <2> QED BY <1>2, <2>6
<1> QED BY <1>3, <1>4

(* What an answer takes: no bytes for no name, and with each name its own. *)
LEMMA BytesStep == ASSUME NEW S \in SUBSET Names
                   PROVE  /\ BytesOf(S) \in Nat
                          /\ S = {} => BytesOf(S) = 0
                          /\ S # {} => BytesOf(S) = EntrySize(Chosen(S)) + BytesOf(S \ {Chosen(S)})
<1>1. PICK all : SumsUpTo(all, LastName)
  BY SumExists
<1>2. \A T \in SUBSET Names : T \in Smalls(LastName)
  BY NamesFinite DEF Smalls
<1>3. ASSUME NEW T \in SUBSET Names
      PROVE  BytesOf(T) = all[T]
  <2> DEFINE part == [U \in SUBSET T |-> all[U]]
  <2>1. IsSum(part, T)
    <3>1. \A U \in SUBSET T : U \in Smalls(LastName) /\ U \ {Chosen(U)} \in SUBSET T
      BY <1>2
    <3> QED BY <1>1, <3>1 DEF SumsUpTo, IsSum
  <2>2. ASSUME NEW sum, IsSum(sum, T)
        PROVE  \A U \in SUBSET T : sum[U] = all[U]
    <3> DEFINE Bad == {U \in SUBSET T : sum[U] # all[U]}
    <3>1. SUFFICES ASSUME Bad # {} PROVE FALSE
      OBVIOUS
    <3>2. PICK U \in Bad : \A V \in Bad : Cardinality(U) <= Cardinality(V)
      <4>1. Bad \in SUBSET (SUBSET Names)
        OBVIOUS
      <4> HIDE DEF Bad
      <4> QED BY <3>1, <4>1, FewestNames
    <3>3. U \in SUBSET T /\ U \in SUBSET Names /\ U \in Smalls(LastName)
      BY <1>2
    <3>4. /\ sum[U] = IF U = {} THEN 0 ELSE EntrySize(Chosen(U)) + sum[U \ {Chosen(U)}]
          /\ all[U] = IF U = {} THEN 0 ELSE EntrySize(Chosen(U)) + all[U \ {Chosen(U)}]
      BY <1>1, <2>2, <3>3 DEF IsSum, SumsUpTo
    <3>5. U # {}
      BY <3>4
    <3>6. U \ {Chosen(U)} \notin Bad
      <4>1. Cardinality(U \ {Chosen(U)}) < Cardinality(U)
        BY <3>3, <3>5, ChosenIn
      <4>2. Cardinality(U \ {Chosen(U)}) \in Nat /\ Cardinality(U) \in Nat
        BY <3>3, NamesFinite
      <4> HIDE DEF Bad
      <4> QED BY <3>2, <4>1, <4>2
    <3> QED BY <3>3, <3>4, <3>5, <3>6
  <2>3. IsSum(CHOOSE sum : IsSum(sum, T), T)
    <3> HIDE DEF part
    <3> QED BY <2>1
  <2> QED BY <2>2, <2>3, BytesIsSum
<1>4. S # {} => S \ {Chosen(S)} \in SUBSET Names
  OBVIOUS
<1> QED BY <1>1, <1>2, <1>3, <1>4 DEF SumsUpTo

LEMMA BytesAdd == ASSUME NEW S \in SUBSET Names, NEW n \in S
                  PROVE  BytesOf(S) = EntrySize(n) + BytesOf(S \ {n})
<1> DEFINE Right(T) == \A k \in T : BytesOf(T) = EntrySize(k) + BytesOf(T \ {k})
           Bad == {T \in SUBSET Names : ~Right(T)}
<1>1. SUFFICES ASSUME Bad # {} PROVE FALSE
  OBVIOUS
<1>2. PICK T \in Bad : \A U \in Bad : Cardinality(T) <= Cardinality(U)
  <2>1. Bad \in SUBSET (SUBSET Names)
    OBVIOUS
  <2> HIDE DEF Bad
  <2> QED BY <1>1, <2>1, FewestNames
<1>3. PICK k \in T : BytesOf(T) # EntrySize(k) + BytesOf(T \ {k})
  OBVIOUS
<1> DEFINE c == Chosen(T)
<1>4. T \in SUBSET Names /\ T # {} /\ c \in T /\ c \in Names /\ k \in Names
  BY ChosenIn
<1>5. BytesOf(T) = EntrySize(c) + BytesOf(T \ {c})
  BY <1>4, BytesStep
<1>6. c # k
  BY <1>3, <1>5
<1>7. Right(T \ {c}) /\ Right(T \ {k})
  <2>1. /\ Cardinality(T \ {c}) < Cardinality(T) /\ Cardinality(T \ {k}) < Cardinality(T)
        /\ Cardinality(T) \in Nat /\ Cardinality(T \ {c}) \in Nat /\ Cardinality(T \ {k}) \in Nat
    BY <1>4, NamesFinite
  <2>2. T \ {c} \notin Bad /\ T \ {k} \notin Bad
    <3> HIDE DEF Bad, c
    <3> QED BY <1>2, <2>1
  <2> HIDE DEF Right
  <2> QED BY <1>4, <2>2
<1>8. /\ BytesOf(T \ {c}) = EntrySize(k) + BytesOf((T \ {c}) \ {k})
      /\ BytesOf(T \ {k}) = EntrySize(c) + BytesOf((T \ {k}) \ {c})
  BY <1>4, <1>6, <1>7
<1>9. (T \ {c}) \ {k} = (T \ {k}) \ {c}
  OBVIOUS
<1>10. /\ EntrySize(c) \in Nat /\ EntrySize(k) \in Nat
       /\ BytesOf((T \ {k}) \ {c}) \in Nat
  BY <1>4, BytesStep, EntrySizeType
<1> HIDE DEF c
<1> QED BY <1>3, <1>5, <1>8, <1>9, <1>10

LEMMA BytesMonotone == ASSUME NEW T \in SUBSET Names, NEW S \in SUBSET T
                       PROVE  BytesOf(S) <= BytesOf(T)
<1> DEFINE Bad == {U \in SUBSET Names : S \subseteq U /\ ~(BytesOf(S) <= BytesOf(U))}
<1>1. SUFFICES ASSUME Bad # {} PROVE FALSE
  OBVIOUS
<1>2. PICK U \in Bad : \A V \in Bad : Cardinality(U) <= Cardinality(V)
  <2>1. Bad \in SUBSET (SUBSET Names)
    OBVIOUS
  <2> HIDE DEF Bad
  <2> QED BY <1>1, <2>1, FewestNames
<1>3. U # S
  <2>1. BytesOf(S) \in Nat
    BY BytesStep
  <2> QED BY <2>1
<1>4. PICK n \in U : n \notin S
  BY <1>3
<1>5. Cardinality(U \ {n}) < Cardinality(U) /\ Cardinality(U) \in Nat /\ Cardinality(U \ {n}) \in Nat
  BY NamesFinite
<1>6. U \ {n} \notin Bad
  <2> HIDE DEF Bad
  <2> QED BY <1>2, <1>5
<1>7. BytesOf(S) <= BytesOf(U \ {n})
  BY <1>4, <1>6
<1>8. BytesOf(U) = EntrySize(n) + BytesOf(U \ {n})
  BY BytesAdd
<1>9. BytesOf(S) \in Nat /\ BytesOf(U \ {n}) \in Nat /\ EntrySize(n) \in Nat
  BY BytesStep, EntrySizeType
<1> QED BY <1>7, <1>8, <1>9

LEMMA BytesCount == ASSUME NEW S \in SUBSET Names
                    PROVE  32 * Cardinality(S) <= BytesOf(S)
<1> DEFINE Bad == {T \in SUBSET Names : ~(32 * Cardinality(T) <= BytesOf(T))}
<1>1. SUFFICES ASSUME Bad # {} PROVE FALSE
  OBVIOUS
<1>2. PICK T \in Bad : \A U \in Bad : Cardinality(T) <= Cardinality(U)
  <2>1. Bad \in SUBSET (SUBSET Names)
    OBVIOUS
  <2> HIDE DEF Bad
  <2> QED BY <1>1, <2>1, FewestNames
<1>3. T # {}
  BY BytesStep, FS_EmptySet
<1>4. PICK n \in T : TRUE
  BY <1>3
<1>5. Cardinality(T \ {n}) = Cardinality(T) - 1 /\ Cardinality(T) \in Nat
  BY NamesFinite
<1>6. 32 * Cardinality(T \ {n}) <= BytesOf(T \ {n})
  <2>1. T \ {n} \notin Bad
    <3> HIDE DEF Bad
    <3> QED BY <1>2, <1>5
  <2> QED BY <2>1
<1>7. BytesOf(T) = EntrySize(n) + BytesOf(T \ {n}) /\ BytesOf(T \ {n}) \in Nat
  BY BytesAdd, BytesStep
<1>8. EntrySize(n) \in Nat /\ EntrySize(n) >= 32
  BY EntrySizeType
<1> QED BY <1>5, <1>6, <1>7, <1>8

(* An answer that has room in bytes has room in entries, too.              *)
LEMMA BytesDecide ==
    ASSUME FullByBytes, NEW h \in Handles, NEW S \in SUBSET Names
    PROVE  /\ BytesAdded(h, S) = (IF iterator[h] = NoIterator THEN 64 ELSE 0) + BytesOf(S)
           /\ BytesAdded(h, S) \in Nat /\ EntriesAdded(h, S) \in Nat
           /\ BytesAdded(h, S) <= BufSize => EntriesAdded(h, S) < kReadDirEntriesPerResponse
<1>1. DotBytes = 64
  BY DEF DotBytes, DotEntries
<1>2. BytesAdded(h, S) = (IF iterator[h] = NoIterator THEN 64 ELSE 0) + BytesOf(S)
  BY <1>1 DEF BytesAdded, BytesOf
<1>3. EntriesAdded(h, S) = (IF iterator[h] = NoIterator THEN 2 ELSE 0) + Cardinality(S)
  BY DEF EntriesAdded, DotsAdded, DotEntries
<1>4. BytesOf(S) \in Nat /\ Cardinality(S) \in Nat /\ 32 * Cardinality(S) <= BytesOf(S)
  BY BytesStep, NamesFinite, BytesCount
<1>5. 32 * EntriesAdded(h, S) <= BytesAdded(h, S)
  BY <1>2, <1>3, <1>4
<1>6. BufSize \in Nat /\ kReadDirEntriesPerResponse \in Nat
  BY ReadDirAssumption DEF BufSize
<1> QED BY <1>2, <1>3, <1>4, <1>5, <1>6 DEF FullByBytes

LEMMA AddedByBytes ==
    ASSUME FullByBytes, TypeOK, NEW h \in Handles, NEW n \in Ahead(h)
    PROVE  /\ UpTo(Ahead(h), n) \in SUBSET Names
           /\ n \in Added(h) <=> BytesAdded(h, UpTo(Ahead(h), n)) <= BufSize
<1>1. UpTo(Ahead(h), n) \in SUBSET Names
  BY AddedAhead DEF UpTo
<1>2. BytesAdded(h, UpTo(Ahead(h), n)) <= BufSize =>
         EntriesAdded(h, UpTo(Ahead(h), n)) <= kReadDirEntriesPerResponse
  BY <1>1, BytesDecide, ReadDirAssumption
<1> QED BY <1>1, <1>2 DEF Added

(* What does not fit ends the answer: what is added lies before it.        *)
LEMMA AddedIsBefore ==
    ASSUME FullByBytes, TypeOK, NEW h \in Handles, NEW n \in Ahead(h), NEW k \in Ahead(h),
           n <= k, k \in Added(h)
    PROVE  n \in Added(h)
<1>1. n \in Names /\ k \in Names
  BY AddedAhead
<1>2. UpTo(Ahead(h), n) \subseteq UpTo(Ahead(h), k)
  BY <1>1, AddedAhead DEF UpTo, Names
<1>3. /\ UpTo(Ahead(h), k) \in SUBSET Names /\ UpTo(Ahead(h), n) \in SUBSET Names
      /\ BytesAdded(h, UpTo(Ahead(h), k)) <= BufSize
  BY AddedByBytes
<1>4. BytesOf(UpTo(Ahead(h), n)) <= BytesOf(UpTo(Ahead(h), k))
  BY <1>2, <1>3, BytesMonotone
<1>5. BytesAdded(h, UpTo(Ahead(h), n)) <= BytesAdded(h, UpTo(Ahead(h), k))
  <2>1. BytesOf(UpTo(Ahead(h), n)) \in Nat /\ BytesOf(UpTo(Ahead(h), k)) \in Nat
    BY <1>3, BytesStep
  <2> QED BY <1>3, <1>4, <2>1, BytesDecide
<1>6. /\ BytesAdded(h, UpTo(Ahead(h), n)) \in Nat /\ BytesAdded(h, UpTo(Ahead(h), k)) \in Nat
      /\ BufSize \in Nat
  BY <1>3, BytesDecide, ReadDirAssumption DEF BufSize
<1>7. BytesAdded(h, UpTo(Ahead(h), n)) <= BufSize
  BY <1>3, <1>5, <1>6
<1> QED BY <1>7, AddedByBytes

(* The bytes of an answer of one entry.                                    *)
LEMMA BytesOfOne == ASSUME NEW n \in Names
                    PROVE  BytesOf({n}) = EntrySize(n)
<1>1. BytesOf({}) = 0 /\ EntrySize(n) \in Nat
  BY BytesStep, EntrySizeType
<1>2. {n} \ {n} = {} /\ {n} \in SUBSET Names
  OBVIOUS
<1> QED BY <1>1, <1>2, BytesAdd

(* An answer that does not reach the end adds something and leaves the     *)
(* iterator at the last name it added.                                     *)
LEMMA AnswerStands ==
    ASSUME FullByBytes, AnyOneFits, TypeOK, NEW h \in Handles, iterator[h] \notin Undefined,
           Ahead(h) # Added(h)
    PROVE  /\ Added(h) # {} /\ Added(h) \in SUBSET Names
           /\ IteratorAfter(h) = LargestOf(Added(h))
<1> DEFINE rest == Ahead(h) \ Added(h)
           first == SmallestOf(rest)
           least == SmallestOf(Ahead(h))
<1>1. /\ Added(h) \subseteq Ahead(h) /\ Ahead(h) \in SUBSET children /\ children \in SUBSET Names
      /\ rest # {} /\ rest \in SUBSET Names /\ Ahead(h) # {} /\ Ahead(h) \in SUBSET Names
  BY AddedAhead
<1>2. /\ first \in rest /\ \A k \in rest : first <= k
      /\ least \in Ahead(h) /\ \A k \in Ahead(h) : least <= k
  BY <1>1, Smallest
<1> HIDE DEF first, least
<1>3. \A n \in Ahead(h) : n \in Added(h) <=> n < first
  <2> TAKE n \in Ahead(h)
  <2>1. n \in Int /\ first \in Int /\ first \in Ahead(h)
    BY <1>1, <1>2 DEF Names
  <2>2. first <= n => n \notin Added(h)
    BY <1>2, <2>1, AddedIsBefore
  <2> QED BY <1>2, <2>1, <2>2
<1>4. least \in Added(h)
  <2>1. UpTo(Ahead(h), least) = {least}
    BY <1>1, <1>2 DEF UpTo, Names
  <2>2. BytesOf({least}) = EntrySize(least) /\ EntrySize(least) \in Nat /\ least \in Names
    BY <1>1, <1>2, BytesOfOne, EntrySizeType
  <2>3. 64 + EntrySize(least) <= BufSize
    <3>1. DotBytes = 64
      BY DEF DotBytes, DotEntries
    <3> QED BY <2>2, <3>1 DEF AnyOneFits
  <2>4. BytesAdded(h, {least}) <= BufSize
    <3>1. BufSize \in Nat
      BY ReadDirAssumption DEF BufSize
    <3>2. BytesAdded(h, {least}) = (IF iterator[h] = NoIterator THEN 64 ELSE 0) + EntrySize(least)
      BY <1>1, <1>2, <2>2, BytesDecide
    <3> QED BY <2>2, <2>3, <3>1, <3>2
  <2> QED BY <1>2, <2>1, <2>4, AddedByBytes
<1>5. ~(EntriesAdded(h, Added(h)) >= kReadDirEntriesPerResponse)
  <2>1. /\ LargestOf(Added(h)) \in Added(h)
        /\ \A k \in Added(h) : k <= LargestOf(Added(h))
        /\ Added(h) \in SUBSET Names
    BY <1>1, <1>4, Largest
  <2>2. Added(h) = UpTo(Ahead(h), LargestOf(Added(h)))
    BY <1>1, <2>1, AddedIsBefore DEF UpTo
  <2>3. BytesAdded(h, Added(h)) <= BufSize
    BY <1>1, <2>1, <2>2, AddedByBytes
  <2> QED BY <2>1, <2>3, BytesDecide, ReadDirAssumption
<1>6. IteratorAfter(h) = StepBack(first)
  BY <1>1, <1>5 DEF IteratorAfter, first
<1>7. /\ Before(first) # {} /\ Before(first) \in SUBSET Names
      /\ Added(h) \subseteq Before(first)
  BY <1>1, <1>3, <1>4 DEF Before
<1> DEFINE last == LargestOf(Before(first))
<1>8. last \in Before(first) /\ \A k \in Before(first) : k <= last
  BY <1>7, Largest
<1> HIDE DEF last
<1>9. last \in Added(h)
  <2>1. last \in children /\ last < first /\ least <= last /\ last \in Names /\ least \in Names
    BY <1>1, <1>4, <1>7, <1>8 DEF Before
  <2>2. last \in Ahead(h)
    <3>1. iterator[h] = NoIterator \/ (iterator[h] \in Names /\ least >= iterator[h])
      BY <1>1, <1>2 DEF TypeOK, Ahead
    <3> QED BY <1>1, <2>1, <3>1 DEF Ahead, Names, NoIterator, End
  <2> QED BY <1>3, <2>1, <2>2
<1>10. last = LargestOf(Added(h))
  <2>1. /\ LargestOf(Added(h)) \in Added(h)
        /\ \A k \in Added(h) : k <= LargestOf(Added(h))
    BY <1>1, <1>4, Largest
  <2>2. last \in Int /\ LargestOf(Added(h)) \in Int
    BY <1>1, <1>9, <2>1 DEF Names
  <2> QED BY <1>7, <1>8, <1>9, <2>1, <2>2
<1>11. StepBack(first) = last
  BY <1>7 DEF StepBack, last
<1> QED BY <1>1, <1>4, <1>6, <1>10, <1>11
-----------------------------------------------------------------------------
(* Where the iterator stands, and what is sent again.                      *)

(* While a listing is under way, what lies after the iterator was not sent *)
(* yet.                                                                    *)
AheadIsNew ==
    \A h \in Handles : state[h] = "reading" => \A n \in stayed[h] :
        /\ iterator[h] = NoIterator => times[h][n] = 0
        /\ iterator[h] \in Names => (n > iterator[h] => times[h][n] = 0)

LEMMA StandsStep ==
    ASSUME FullByBytes, AnyOneFits, IInv, StandsAtLastSent, [Next]_vars
    PROVE  StandsAtLastSent'
<1> SUFFICES ASSUME NEW g \in Handles
             PROVE  /\ iterator'[g] # BeforeBegin
                    /\ iterator'[g] \in Names => iterator'[g] = lastSent'[g]
  BY DEF StandsAtLastSent
<1>1. /\ TypeOK /\ iterator[g] # BeforeBegin
      /\ iterator[g] \in Names => iterator[g] = lastSent[g]
  BY DEF IInv, StandsAtLastSent
<1>2. ASSUME NEW h \in Handles, NewListing(h)
      PROVE  /\ iterator'[g] # BeforeBegin
             /\ iterator'[g] \in Names => iterator'[g] = lastSent'[g]
  BY <1>1, <1>2 DEF NewListing, TypeOK, NoIterator, BeforeBegin, Names
<1>3. ASSUME NEW h \in Handles, FuseReadDir(h)
      PROVE  /\ iterator'[g] # BeforeBegin
             /\ iterator'[g] \in Names => iterator'[g] = lastSent'[g]
  <2>1. CASE iterator[h] \in Undefined
    BY <1>1, <1>3, <2>1 DEF FuseReadDir
  <2>2. CASE iterator[h] \notin Undefined /\ g # h
    BY <1>1, <1>3, <2>2 DEF FuseReadDir, TypeOK
  <2>3. CASE iterator[h] \notin Undefined /\ g = h
    <3>1. /\ iterator'[h] = IteratorAfter(h)
          /\ lastSent'[h] = IF Added(h) = {} THEN lastSent[h] ELSE LargestOf(Added(h))
      BY <1>1, <1>3, <2>3 DEF FuseReadDir, TypeOK
    <3>2. CASE Ahead(h) = Added(h)
      <4>1. IteratorAfter(h) = End
        BY <3>2 DEF IteratorAfter
      <4> QED BY <2>3, <3>1, <4>1 DEF End, BeforeBegin, Names
    <3>3. CASE Ahead(h) # Added(h)
      <4>1. /\ Added(h) # {} /\ Added(h) \in SUBSET Names
            /\ IteratorAfter(h) = LargestOf(Added(h))
        BY <1>1, <2>3, <3>3, AnswerStands
      <4>2. LargestOf(Added(h)) \in Names
        BY <4>1, Largest
      <4> QED BY <2>3, <3>1, <4>1, <4>2 DEF BeforeBegin, Names
    <3> QED BY <3>2, <3>3
  <2> QED BY <2>1, <2>2, <2>3
<1>4. ASSUME NEW h \in Handles, FuseReleaseDir(h)
      PROVE  /\ iterator'[g] # BeforeBegin
             /\ iterator'[g] \in Names => iterator'[g] = lastSent'[g]
  BY <1>1, <1>4 DEF FuseReleaseDir, history, TypeOK, NoIterator, BeforeBegin, Names
<1>5. ASSUME NEW n \in Names, DeleteChild(n)
      PROVE  /\ iterator'[g] # BeforeBegin
             /\ iterator'[g] \in Names => iterator'[g] = lastSent'[g]
  BY <1>1, <1>5 DEF DeleteChild, Freed, BeforeBegin, Names
<1>6. ASSUME UNCHANGED <<iterator, lastSent>>
      PROVE  /\ iterator'[g] # BeforeBegin
             /\ iterator'[g] \in Names => iterator'[g] = lastSent'[g]
  BY <1>1, <1>6
<1> QED BY <1>2, <1>3, <1>4, <1>5, <1>6
        DEF Next, HandleNext, FuseOpenDir, Rewind, UpdateChild, vars, history

(* FuseReadDir leaves its iterator at the name it sent last, never at one  *)
(* still to be sent and never before begin().                              *)
THEOREM IteratorAtLastSent ==
    ASSUME FullByBytes, AnyOneFits PROVE Spec => []StandsAtLastSent
<1>1. Init => StandsAtLastSent
  BY DEF Init, StandsAtLastSent, NoIterator, BeforeBegin, Names
<1>2. IInv /\ StandsAtLastSent /\ [Next]_vars => StandsAtLastSent'
  BY StandsStep
<1> QED BY <1>1, <1>2, Invariance, PTL DEF Spec

(* What an answer leaves ahead of the iterator was ahead of it before.     *)
LEMMA AnswerLeavesNew ==
    ASSUME FullByBytes, AnyOneFits, IInv, AheadIsNew,
           NEW h \in Handles, FuseReadDir(h), iterator[h] \notin Undefined,
           NEW n \in stayed[h]
    PROVE  /\ iterator'[h] # NoIterator
           /\ iterator'[h] \in Names => (n > iterator'[h] => times'[h][n] = 0)
<1>1. /\ TypeOK /\ state[h] = "reading"
      /\ stayed[h] \subseteq children /\ children \subseteq Names /\ n \in Names
      /\ iterator[h] \in children \cup {NoIterator, End}
      /\ iterator'[h] = IteratorAfter(h)
      /\ iterator[h] = NoIterator => times[h][n] = 0
      /\ iterator[h] \in Names => (n > iterator[h] => times[h][n] = 0)
  BY DEF IInv, TypeOK, PassedWereSent, AheadIsNew, FuseReadDir
<1>2. CASE Ahead(h) = Added(h)
  <2>1. IteratorAfter(h) = End
    BY <1>2 DEF IteratorAfter
  <2> QED BY <1>1, <2>1 DEF End, NoIterator, Names
<1>3. CASE Ahead(h) # Added(h)
  <2> DEFINE last == LargestOf(Added(h))
  <2>1. /\ Added(h) # {} /\ Added(h) \in SUBSET Names
        /\ iterator'[h] = last
    BY <1>1, <1>3, AnswerStands
  <2>2. last \in Added(h) /\ last \in Names /\ \A k \in Added(h) : k <= last
    BY <2>1, Largest
  <2>3. iterator[h] = NoIterator \/ (iterator[h] \in Names /\ iterator[h] <= last)
    <3>1. iterator[h] # End
      BY <1>3, AddedAhead, <1>1 DEF Ahead, End, NoIterator
    <3>2. last \in Ahead(h)
      BY <1>1, <2>2, AddedAhead
    <3> QED BY <1>1, <3>1, <3>2 DEF Ahead
  <2> HIDE DEF last
  <2>4. n \in Int /\ last \in Int /\ (iterator[h] \in Names => iterator[h] \in Int)
    BY <1>1, <2>2 DEF Names
  <2>5. n > last => times[h][n] = 0 /\ n \notin Added(h)
    BY <1>1, <2>2, <2>3, <2>4
  <2>6. n > last => times'[h][n] = 0
    BY <1>1, <2>5 DEF FuseReadDir, TypeOK
  <2> QED BY <2>1, <2>2, <2>6 DEF Names, NoIterator
<1> QED BY <1>2, <1>3

LEMMA NewStep ==
    ASSUME FullByBytes, AnyOneFits, IInv, AheadIsNew, [Next]_vars
    PROVE  AheadIsNew'
<1> DEFINE Right(g, n) ==
              state[g] = "reading" =>
                 /\ iterator[g] = NoIterator => times[g][n] = 0
                 /\ iterator[g] \in Names => (n > iterator[g] => times[g][n] = 0)
<1>1. SUFFICES ASSUME NEW g \in Handles, NEW n \in stayed'[g] PROVE Right(g, n)'
  BY DEF AheadIsNew
<1>2. TypeOK /\ \A k \in stayed[g] : Right(g, k)
  BY DEF IInv, AheadIsNew
<1>3. ASSUME NEW h \in Handles, NewListing(h), UNCHANGED children
      PROVE  Right(g, n)'
  <2>1. CASE g = h
    <3>1. n \in Names
      BY <1>1, <1>2, <1>3, <2>1 DEF NewListing, TypeOK
    <3>2. times'[g][n] = 0 /\ iterator'[g] = NoIterator
      BY <1>2, <1>3, <2>1, <3>1 DEF NewListing, TypeOK
    <3> QED BY <3>2 DEF NoIterator, Names
  <2>2. CASE g # h
    <3>1. /\ state'[g] = state[g] /\ iterator'[g] = iterator[g]
          /\ times'[g] = times[g] /\ stayed'[g] = stayed[g]
      BY <1>2, <1>3, <2>2 DEF NewListing, TypeOK
    <3> QED BY <1>1, <1>2, <3>1
  <2> QED BY <2>1, <2>2
<1>4. ASSUME NEW h \in Handles, FuseReadDir(h)
      PROVE  Right(g, n)'
  <2>1. CASE iterator[h] \in Undefined
    BY <1>1, <1>2, <1>4, <2>1 DEF FuseReadDir
  <2>2. CASE iterator[h] \notin Undefined /\ g # h
    <3>1. /\ state'[g] = state[g] /\ iterator'[g] = iterator[g]
          /\ times'[g] = times[g] /\ stayed'[g] = stayed[g]
      BY <1>2, <1>4, <2>2 DEF FuseReadDir, TypeOK
    <3> QED BY <1>1, <1>2, <3>1
  <2>3. CASE iterator[h] \notin Undefined /\ g = h
    <3>1. n \in stayed[h]
      BY <1>1, <1>4, <2>3 DEF FuseReadDir
    <3> QED BY <1>4, <2>3, <3>1, AnswerLeavesNew
  <2> QED BY <2>1, <2>2, <2>3
<1>5. ASSUME NEW h \in Handles, FuseReleaseDir(h)
      PROVE  Right(g, n)'
  <2>1. /\ stayed' = stayed /\ times' = times
        /\ state' = [state EXCEPT ![h] = "closed"]
        /\ iterator' = [iterator EXCEPT ![h] = NoIterator]
    BY <1>5 DEF FuseReleaseDir, history
  <2>2. state'[g] = "reading" => g # h /\ state[g] = "reading" /\ iterator'[g] = iterator[g]
    BY <1>2, <2>1 DEF TypeOK
  <2> QED BY <1>1, <1>2, <2>1, <2>2
<1>6. ASSUME NEW m \in Names, DeleteChild(m)
      PROVE  Right(g, n)'
  <2>1. /\ state' = state /\ times' = times /\ n \in stayed[g]
        /\ iterator'[g] = iterator[g] \/ iterator'[g] = Freed
    BY <1>1, <1>6 DEF DeleteChild
  <2> QED BY <1>2, <2>1 DEF Freed, NoIterator, Names
<1>7. ASSUME UNCHANGED <<state, iterator, times, stayed>>
      PROVE  Right(g, n)'
  BY <1>1, <1>2, <1>7
<1> HIDE DEF Right
<1> QED BY <1>3, <1>4, <1>5, <1>6, <1>7
        DEF Next, HandleNext, FuseOpenDir, Rewind, UpdateChild, vars, history

(* The step back of FuseReadDir sends the name sent last again; no other   *)
(* name that stays is sent twice, wherever names come and go.              *)
THEOREM OnlyTheLastAgain ==
    ASSUME FullByBytes, AnyOneFits PROVE Spec => []OnlyLastSentAgain
<1>1. Init => AheadIsNew
  BY DEF Init, AheadIsNew
<1>2. IInv /\ AheadIsNew /\ [Next]_vars => AheadIsNew'
  BY NewStep
<1>3. IInv /\ StandsAtLastSent /\ AheadIsNew => OnlyLastSentAgain
  <2> SUFFICES ASSUME IInv, StandsAtLastSent, AheadIsNew,
                      NEW h \in Handles, state[h] = "reading", iterator[h] \notin Undefined,
                      NEW n \in Ahead(h) \cap stayed[h], times[h][n] > 0
               PROVE  n = lastSent[h]
    BY DEF OnlyLastSentAgain
  <2>0. TypeOK /\ n \in stayed[h]
    BY DEF IInv
  <2>1. /\ children \subseteq Names /\ stayed[h] \subseteq Names
        /\ iterator[h] \in children \cup {NoIterator, End}
        /\ times[h][n] \in Int
    <3>1. /\ children \subseteq Names /\ stayed[h] \subseteq Names
          /\ iterator[h] \in children \cup {NoIterator, End}
      BY <2>0 DEF TypeOK
    <3>2. n \in Names /\ times \in [Handles -> [Names -> 0 .. Often]]
      BY <2>0, <3>1 DEF TypeOK
    <3>3. 0 .. Often \subseteq Int
      OBVIOUS
    <3> QED BY <3>1, <3>2, <3>3
  <2>2. iterator[h] # NoIterator
    BY <2>0, <2>1 DEF AheadIsNew
  <2>3. iterator[h] # End
    BY <2>2 DEF Ahead, End, NoIterator
  <2>4. iterator[h] \in Names /\ iterator[h] \in Int /\ n >= iterator[h]
    <3>1. iterator[h] \in Names /\ Ahead(h) = {k \in children : k >= iterator[h]}
      BY <2>1, <2>2, <2>3 DEF Ahead
    <3>2. n >= iterator[h]
      BY <3>1
    <3> QED BY <3>1, <3>2 DEF Names
  <2>5. ~(n > iterator[h])
    BY <2>0, <2>1, <2>4 DEF AheadIsNew
  <2>6. n \in Int
    BY <2>0, <2>1 DEF Names
  <2> QED BY <2>1, <2>4, <2>5, <2>6 DEF StandsAtLastSent
<1> QED BY <1>1, <1>2, <1>3, Invariance, IteratorAtLastSent, PTL DEF Spec
=============================================================================
