-------------------------- MODULE NamespaceProofs --------------------------
(***************************************************************************)
(* The inode table with all handlers.  As long as a rename neither goes to *)
(* a name in use nor moves a directory to another one, link counts are     *)
(* exact, the queue holds exactly the unused numbers, no inode with a      *)
(* name is marked as deleted, and directories form a tree, for any names,  *)
(* bounds and threshold.  With renames over names in use, no count is ever *)
(* too low, and a number that is given out again was in no use.            *)
(***************************************************************************)
EXTENDS Namespace, FiniteSetTheorems, TLAPS

PlainRenames == Renames \subseteq {"rename"}

(* Links are never so many that their count wraps: a file has at most one  *)
(* link per entry of the table, a directory two or three and one per name. *)
LinksFit == /\ IsFiniteSet(Names)
            /\ Cardinality((0 .. MaxINodes + 1) \X Names) < LinkModulus
            /\ Cardinality(Names) + 3 < LinkModulus

(* What is made is looked up at once, so that MaxLookups is not 0. *)
Careful == PlainRenames /\ LinksFit /\ MaxLookups > 0

Kid(dir, name) == INodes[dir].m_children[name]
Entry(dir, name, ino) == dir \in DOMAIN INodes /\ name \in Names /\ Kid(dir, name) = ino

(* Every entry is of an inode that is there, and was made by a handler.    *)
EntriesExist == \A dir \in DOMAIN INodes, name \in Names :
                    Kid(dir, name) # NoChild => Kid(dir, name) \in DOMAIN INodes \ {Special, Root}

(* Only directories that have a name have entries. *)
NoHiddenEntries == \A dir \in DOMAIN INodes :
                      ~IsDirectory(dir) \/ ~Named(dir) => \A name \in Names : Kid(dir, name) = NoChild

(* The two inodes of FuseInit keep apart. *)
FirstTwo == /\ ~IsDirectory(Special) /\ INodes[Special].m_nlookup = 0 /\ ~InQueue(Special)
            /\ IsDirectory(Root)

OneNameEach == \A ino \in DOMAIN INodes :
                  IsDirectory(ino) => \A entry, other \in NamesOf(ino) : entry = other

(* A set of inodes that holds the parents of its members.                   *)
Closed(S) == \A dir \in DOMAIN INodes, name \in Names : Kid(dir, name) \in S => dir \in S

(* Whoever climbs from an inode with a name comes to the root.             *)
Hangs == \A S \in SUBSET DOMAIN INodes : Closed(S) /\ (\E ino \in S : Named(ino)) => Root \in S

IInv == /\ TypeOK
        /\ EntriesExist
        /\ NoHiddenEntries
        /\ FirstTwo
        /\ OneNameEach
        /\ Hangs
        /\ LinkCountsExact
        /\ QueueExact
        /\ DeletedHaveNoName

(* What renames over names in use keep as well: the numbers of links, and  *)
(* what hangs below a directory that is replaced, are not part of it.      *)
Sound == /\ TypeOK
         /\ EntriesExist
         /\ FirstTwo
         /\ OneNameEach
         /\ NoNumberTwice
         /\ QueueUnused

LEMMA ExactIsSound == ASSUME IInv PROVE Sound
  BY DEF IInv, QueueExact, Sound
-----------------------------------------------------------------------------
(* The table. *)

LEMMA Table ==
    ASSUME TypeOK
    PROVE  /\ INodes \in [DOMAIN INodes -> INodeRecords(DOMAIN INodes)]
           /\ Special \in DOMAIN INodes /\ Root \in DOMAIN INodes
           /\ DOMAIN INodes \subseteq 0 .. MaxINodes + 1
           /\ \A ino \in DOMAIN INodes : ino \in Nat /\ ino # NoChild
           /\ DeletedINodes \in Seq(DOMAIN INodes)
<1>1. PICK n \in 2 .. MaxINodes \cup {2} : DOMAIN INodes = 0 .. n - 1
  BY DEF TypeOK
<1>2. n \in Nat /\ n >= 2 /\ n <= MaxINodes + 2 /\ MaxINodes \in Nat
  BY NamespaceAssumption
<1>3. Special \in DOMAIN INodes /\ Root \in DOMAIN INodes
  BY <1>1, <1>2 DEF Special, Root
<1>4. DOMAIN INodes \subseteq 0 .. MaxINodes + 1
  BY <1>1, <1>2
<1>5. \A ino \in DOMAIN INodes : ino \in Nat /\ ino # NoChild
  BY <1>1, <1>2 DEF NoChild
<1> QED BY <1>3, <1>4, <1>5 DEF TypeOK

(* The number that Nodes::AddINode gives is the first that is free. *)
LEMMA TableSize ==
    ASSUME TypeOK
    PROVE  /\ Cardinality(DOMAIN INodes) \in Nat
           /\ Cardinality(DOMAIN INodes) >= 2
           /\ DOMAIN INodes = 0 .. Cardinality(DOMAIN INodes) - 1
<1>1. PICK n \in 2 .. MaxINodes \cup {2} : DOMAIN INodes = 0 .. n - 1
  BY DEF TypeOK
<1>2. n \in Nat /\ n >= 2
  BY NamespaceAssumption
<1>3. Cardinality(0 .. n - 1) = n
  BY <1>2, FS_Interval
<1> QED BY <1>1, <1>2, <1>3

LEMMA INodeType ==
    ASSUME TypeOK, NEW ino \in DOMAIN INodes
    PROVE  /\ INodes[ino].type \in Types
           /\ INodes[ino].st_nlink \in 0 .. LinkModulus - 1
           /\ INodes[ino].m_nlookup \in 0 .. MaxLookups
           /\ INodes[ino].markedForDeletion \in BOOLEAN
           /\ INodes[ino].m_children \in [Names -> DOMAIN INodes \cup {NoChild}]
  BY Table DEF INodeRecords
-----------------------------------------------------------------------------
(* Names. *)

LEMMA NameIsEntry ==
    ASSUME NEW ino, NEW dir, NEW name
    PROVE  <<dir, name>> \in NamesOf(ino) <=> Entry(dir, name, ino)
  BY DEF NamesOf, Entry, Kid

LEMMA NameHasPlace ==
    ASSUME NEW ino, NEW entry \in NamesOf(ino)
    PROVE  /\ entry = <<entry[1], entry[2]>>
           /\ Entry(entry[1], entry[2], ino)
  BY DEF NamesOf, Entry, Kid

(* There are finitely many, fewer than st_nlink can count. *)
LEMMA FewEntries ==
    ASSUME LinksFit, NEW some \in SUBSET ((0 .. MaxINodes + 1) \X Names)
    PROVE  /\ IsFiniteSet(some)
           /\ Cardinality(some) \in Nat
           /\ Cardinality(some) < LinkModulus
<1> DEFINE all == (0 .. MaxINodes + 1) \X Names
<1>1. IsFiniteSet(0 .. MaxINodes + 1)
  BY NamespaceAssumption, FS_Interval
<1>2. IsFiniteSet(all) /\ Cardinality(all) \in Nat
  BY <1>1, FS_Product, FS_CardinalityType DEF LinksFit
<1>3. IsFiniteSet(some) /\ Cardinality(some) <= Cardinality(all)
  BY <1>2, FS_Subset
<1>4. Cardinality(some) \in Nat
  BY <1>3, FS_CardinalityType
<1> QED BY <1>2, <1>3, <1>4, NamespaceAssumption DEF LinksFit

LEMMA NamesFinite ==
    ASSUME TypeOK, LinksFit, NEW ino
    PROVE  /\ NamesOf(ino) \in SUBSET ((0 .. MaxINodes + 1) \X Names)
           /\ IsFiniteSet(NamesOf(ino))
           /\ Cardinality(NamesOf(ino)) \in Nat
           /\ Cardinality(NamesOf(ino)) < LinkModulus
<1>1. NamesOf(ino) \in SUBSET ((0 .. MaxINodes + 1) \X Names)
  BY Table DEF NamesOf
<1> QED BY <1>1, FewEntries

LEMMA FewNames ==
    ASSUME LinksFit, NEW some \in SUBSET Names
    PROVE  /\ IsFiniteSet(some)
           /\ Cardinality(some) \in Nat
           /\ Cardinality(some) + 3 < LinkModulus
<1>1. IsFiniteSet(Names) /\ Cardinality(Names) \in Nat
  BY FS_CardinalityType DEF LinksFit
<1>2. IsFiniteSet(some) /\ Cardinality(some) <= Cardinality(Names)
  BY <1>1, FS_Subset
<1>3. Cardinality(some) \in Nat
  BY <1>2, FS_CardinalityType
<1> QED BY <1>1, <1>2, <1>3, NamespaceAssumption DEF LinksFit

LEMMA SubdirectoriesFinite ==
    ASSUME LinksFit, NEW dir
    PROVE  /\ IsFiniteSet(Subdirectories(dir))
           /\ Cardinality(Subdirectories(dir)) \in Nat
           /\ Cardinality(Subdirectories(dir)) + 3 < LinkModulus
<1>1. Subdirectories(dir) \in SUBSET Names
  BY DEF Subdirectories
<1> QED BY <1>1, FewNames

(* Counting modulo LinkModulus is counting, as long as the count fits. *)
LEMMA SmallMod ==
    ASSUME NEW n \in Nat, n < LinkModulus
    PROVE  n % LinkModulus = n
  BY NamespaceAssumption
-----------------------------------------------------------------------------
(* Steps that change neither a type nor an entry: a lookup, a forget. *)

SameShape == /\ DOMAIN INodes' = DOMAIN INodes
             /\ \A q \in DOMAIN INodes : /\ INodes'[q].type = INodes[q].type
                                        /\ INodes'[q].m_children = INodes[q].m_children

LEMMA ShapeKept ==
    ASSUME TypeOK, EntriesExist, SameShape
    PROVE  /\ \A q : NamesOf(q)' = NamesOf(q)
           /\ \A q : Named(q)' <=> Named(q)
           /\ \A q \in DOMAIN INodes : IsDirectory(q)' <=> IsDirectory(q)
           /\ \A q \in DOMAIN INodes : Subdirectories(q)' = Subdirectories(q)
           /\ \A q \in DOMAIN INodes : LinkCount(q)' = LinkCount(q)
<1>1. \A q : NamesOf(q)' = NamesOf(q)
  BY DEF SameShape, NamesOf
<1>2. \A q : Named(q)' <=> Named(q)
  BY <1>1 DEF Named
<1>3. \A q \in DOMAIN INodes : IsDirectory(q)' <=> IsDirectory(q)
  BY DEF SameShape, IsDirectory
<1>4. \A q \in DOMAIN INodes : Subdirectories(q)' = Subdirectories(q)
  BY <1>3 DEF SameShape, EntriesExist, Kid, Subdirectories, Free, ChildINodeNumberWithName
<1> QED BY <1>1, <1>2, <1>3, <1>4 DEF LinkCount

(* What such a step keeps whatever it does to the references. *)
LEMMA ShapeInvariants ==
    ASSUME TypeOK, EntriesExist, NoHiddenEntries, OneNameEach, Hangs, LinkCountsExact,
           DeletedHaveNoName, SameShape,
           \A q \in DOMAIN INodes : /\ INodes'[q].st_nlink = INodes[q].st_nlink
                                   /\ INodes'[q].markedForDeletion = INodes[q].markedForDeletion
    PROVE  /\ EntriesExist' /\ NoHiddenEntries' /\ OneNameEach' /\ Hangs' /\ LinkCountsExact'
           /\ DeletedHaveNoName'
<1>1. \A q : NamesOf(q)' = NamesOf(q)
  BY ShapeKept
<1>2. \A q : Named(q)' <=> Named(q)
  BY ShapeKept
<1>3. \A q \in DOMAIN INodes : IsDirectory(q)' <=> IsDirectory(q)
  BY ShapeKept
<1>4. \A q \in DOMAIN INodes : LinkCount(q)' = LinkCount(q)
  BY ShapeKept
<1>5. EntriesExist'
  BY DEF SameShape, EntriesExist, Kid
<1>6. NoHiddenEntries'
  BY <1>2, <1>3 DEF SameShape, NoHiddenEntries, Kid
<1>7. OneNameEach'
  BY <1>1, <1>3 DEF SameShape, OneNameEach
<1>8. LinkCountsExact'
  BY <1>4 DEF SameShape, LinkCountsExact
<1>9. DeletedHaveNoName'
  BY <1>2 DEF SameShape, DeletedHaveNoName
<1>10. Hangs'
  <2>1. SUFFICES ASSUME NEW S \in SUBSET DOMAIN INodes, Closed(S)', NEW ino \in S, Named(ino)'
                 PROVE  Root \in S
    BY DEF SameShape, Hangs
  <2>2. Closed(S)
    BY <2>1 DEF SameShape, Closed, Kid
  <2> QED BY <1>2, <2>1, <2>2 DEF Hangs
<1> QED BY <1>5, <1>6, <1>7, <1>8, <1>9, <1>10

(* A file has no link exactly if it has no name, and so has a directory. *)
LEMMA NoLinksNoName ==
    ASSUME TypeOK, LinksFit, FirstTwo, LinkCountsExact, NEW ino \in DOMAIN INodes \ {Special}
    PROVE  HasNoLinks(ino) <=> ~Named(ino)
<1>1. INodes[ino].st_nlink = LinkCount(ino)
  BY DEF LinkCountsExact
<1>2. CASE ~IsDirectory(ino) /\ ino # Root
  <2>1. IsFiniteSet(NamesOf(ino))
    BY NamesFinite
  <2>2. Cardinality(NamesOf(ino)) = 0 <=> NamesOf(ino) = {}
    BY <2>1, FS_EmptySet
  <2> QED BY <1>1, <1>2, <2>2 DEF LinkCount, HasNoLinks, Named
<1>3. CASE IsDirectory(ino)
  <2>1. Cardinality(Subdirectories(ino)) \in Nat
    BY SubdirectoriesFinite
  <2> QED BY <1>1, <1>3, <2>1 DEF LinkCount, HasNoLinks
<1> QED BY <1>2, <1>3 DEF FirstTwo

(* A field of an inode that keeps its type may take any value of its own.  *)
LEMMA FieldTyped ==
    ASSUME TypeOK, SameShape, DeletedINodes' \in Seq(DOMAIN INodes), m_reclaimingINodes' \in BOOLEAN,
           INodes' \in [DOMAIN INodes -> INodeRecords(DOMAIN INodes)]
    PROVE  TypeOK'
  BY DEF TypeOK, SameShape
-----------------------------------------------------------------------------
(* A lookup: the kernel holds an inode that has a name once more. *)
LookedUp(ino) ==
    /\ ino \in DOMAIN INodes \ {Special, Root} /\ Named(ino)
    /\ SameShape /\ UNCHANGED DeletedINodes
    /\ \A q \in DOMAIN INodes :
          /\ INodes'[q].st_nlink = INodes[q].st_nlink
          /\ INodes'[q].markedForDeletion = INodes[q].markedForDeletion
          /\ INodes'[q].m_nlookup = IF q = ino THEN INodes[q].m_nlookup + 1 ELSE INodes[q].m_nlookup

LEMMA LookUpEffect == ASSUME Sound, LookUp PROVE TypeOK' /\ \E ino : LookedUp(ino)
<1>1. PICK dir \in DOMAIN INodes, name \in Names : Usable(dir) /\ FuseLookup(dir, name)
  BY DEF LookUp
<1> DEFINE ino == Kid(dir, name)
<1>2. /\ ino \in DOMAIN INodes \ {Special, Root}
      /\ INodes[ino].m_nlookup < MaxLookups
      /\ INodes' = [INodes EXCEPT ![ino].m_nlookup = @ + 1]
      /\ DeletedINodes' = DeletedINodes /\ m_reclaimingINodes' = m_reclaimingINodes
  BY <1>1 DEF FuseLookup, Free, ChildINodeNumberWithName, Kid, Sound, EntriesExist, RoomForLookup, Lookup
<1>3. Named(ino)
  BY <1>1, NameIsEntry DEF Entry, Kid, Named
<1> HIDE DEF ino
<1>4. INodes[ino] \in INodeRecords(DOMAIN INodes) /\ INodes[ino].m_nlookup + 1 \in 0 .. MaxLookups
  <2>1. INodes[ino].m_nlookup \in 0 .. MaxLookups
    BY <1>2, INodeType DEF Sound
  <2> QED BY <1>2, <2>1, Table, NamespaceAssumption DEF Sound
<1>5. INodes' \in [DOMAIN INodes -> INodeRecords(DOMAIN INodes)]
  BY <1>2, <1>4, Table DEF Sound, INodeRecords
<1>6. SameShape /\ \A q \in DOMAIN INodes :
         /\ INodes'[q].st_nlink = INodes[q].st_nlink
         /\ INodes'[q].markedForDeletion = INodes[q].markedForDeletion
         /\ INodes'[q].m_nlookup = IF q = ino THEN INodes[q].m_nlookup + 1 ELSE INodes[q].m_nlookup
  BY <1>2, <1>4, Table DEF SameShape, Sound, INodeRecords
<1>7. TypeOK'
  BY <1>2, <1>5, <1>6, FieldTyped, Table DEF Sound, TypeOK
<1>8. LookedUp(ino)
  BY <1>2, <1>3, <1>6 DEF LookedUp
<1> QED BY <1>7, <1>8

LEMMA LookUpKeeps == ASSUME IInv, LookUp PROVE IInv'
<1>1. PICK ino : LookedUp(ino)
  BY ExactIsSound, LookUpEffect
<1>2. TypeOK'
  BY ExactIsSound, LookUpEffect
<1>3. EntriesExist' /\ NoHiddenEntries' /\ OneNameEach' /\ Hangs' /\ LinkCountsExact' /\ DeletedHaveNoName'
  BY <1>1, ShapeInvariants DEF IInv, LookedUp
<1>4. \A q : Named(q)' <=> Named(q)
  BY <1>1, ShapeKept DEF IInv, LookedUp
<1>5. FirstTwo'
  BY <1>1, Table DEF IInv, FirstTwo, IsDirectory, InQueue, SameShape, LookedUp
<1>6. QueueExact'
  <2>1. NoNumberTwice'
    BY <1>1 DEF IInv, QueueExact, NoNumberTwice, LookedUp
  <2>2. QueueUnused'
    BY <1>1, <1>4 DEF IInv, QueueExact, QueueUnused, InQueue, Held, SameShape, LookedUp
  <2>3. NoINodeLost'
    BY <1>1, <1>4, INodeType, NamespaceAssumption
       DEF IInv, QueueExact, NoINodeLost, InQueue, Held, SameShape, LookedUp
  <2> QED BY <2>1, <2>2, <2>3 DEF QueueExact
<1> QED BY <1>2, <1>3, <1>5, <1>6 DEF IInv

(* A forget: some of the references go, and with the last of them the      *)
(* number of an inode without links into the queue.                        *)
Forgotten(ino, n) ==
    /\ ino \in DOMAIN INodes \ {Special, Root} /\ ~InQueue(ino) /\ Held(ino)
    /\ SameShape
    /\ \A q \in DOMAIN INodes :
          /\ INodes'[q].st_nlink = INodes[q].st_nlink
          /\ INodes'[q].markedForDeletion = INodes[q].markedForDeletion
          /\ q # ino => INodes'[q].m_nlookup = INodes[q].m_nlookup
          /\ q # ino => (Held(q)' <=> Held(q))
    /\ Held(ino)' <=> INodes[ino].m_nlookup # n
    /\ \A q : InQueue(q)' <=> InQueue(q) \/ (q = ino /\ INodes[ino].m_nlookup = n /\ HasNoLinks(ino))

LEMMA ForgetEffect == ASSUME Sound, Forget PROVE TypeOK' /\ NoNumberTwice' /\ \E ino, n : Forgotten(ino, n)
<1>1. PICK ino \in DOMAIN INodes \ {Special, Root} :
         \E n \in 1 .. INodes[ino].m_nlookup : FuseForget(ino, n)
  BY DEF Forget
<1>2. PICK n \in 1 .. INodes[ino].m_nlookup : FuseForget(ino, n)
  BY <1>1
<1>3. INodes[ino].m_nlookup \in 0 .. MaxLookups /\ INodes[ino] \in INodeRecords(DOMAIN INodes)
  BY <1>1, INodeType, Table DEF Sound
<1>4. /\ n \in Nat /\ n >= 1 /\ INodes[ino].m_nlookup > 0
      /\ INodes[ino].m_nlookup - n \in 0 .. MaxLookups
      /\ INodes[ino].m_nlookup - n > 0 <=> INodes[ino].m_nlookup # n
  BY <1>2, <1>3, NamespaceAssumption
<1>5. INodes' = [INodes EXCEPT ![ino].m_nlookup = @ - n]
  BY <1>2 DEF FuseForget
<1>6. INodes' \in [DOMAIN INodes -> INodeRecords(DOMAIN INodes)]
  BY <1>1, <1>3, <1>4, <1>5, Table DEF Sound, INodeRecords
<1>7. SameShape /\ \A q \in DOMAIN INodes :
         /\ INodes'[q].st_nlink = INodes[q].st_nlink
         /\ INodes'[q].markedForDeletion = INodes[q].markedForDeletion
         /\ INodes'[q].m_nlookup = IF q = ino THEN INodes[q].m_nlookup - n ELSE INodes[q].m_nlookup
  BY <1>1, <1>3, <1>5, Table DEF SameShape, Sound, INodeRecords
<1>8. ~InQueue(ino) /\ Held(ino)
  BY <1>1, <1>4 DEF Sound, QueueUnused, Held
<1>9. \A q \in DOMAIN INodes : q # ino => (Held(q)' <=> Held(q))
  BY <1>7 DEF Held
<1>10. Held(ino)' <=> INodes[ino].m_nlookup # n
  BY <1>1, <1>4, <1>7 DEF Held
<1>11. TypeOK' /\ NoNumberTwice'
       /\ \A q : InQueue(q)' <=> InQueue(q) \/ (q = ino /\ INodes[ino].m_nlookup = n /\ HasNoLinks(ino))
  <2>1. CASE INodes[ino].m_nlookup = n /\ HasNoLinks(ino)
    <3>1. /\ DeletedINodes' = Append(DeletedINodes, ino)
          /\ m_reclaimingINodes' = (m_reclaimingINodes \/ Len(DeletedINodes) + 1 > Threshold)
      BY <1>2, <2>1 DEF FuseForget
    <3>2. /\ DeletedINodes' \in Seq(DOMAIN INodes)
          /\ Len(DeletedINodes) \in Nat
          /\ Len(DeletedINodes') = Len(DeletedINodes) + 1
          /\ \A i \in 1 .. Len(DeletedINodes) : DeletedINodes'[i] = DeletedINodes[i]
          /\ DeletedINodes'[Len(DeletedINodes) + 1] = ino
      BY <1>1, <3>1, Table DEF Sound
    <3>3. m_reclaimingINodes' \in BOOLEAN
      BY <3>1
    <3>4. TypeOK'
      BY <1>6, <1>7, <3>2, <3>3, FieldTyped DEF Sound
    <3>5. \A q : InQueue(q)' <=> InQueue(q) \/ q = ino
      BY <3>2 DEF InQueue
    <3>6. NoNumberTwice'
      BY <1>8, <3>2 DEF Sound, NoNumberTwice, InQueue
    <3> QED BY <2>1, <3>4, <3>5, <3>6
  <2>2. CASE ~(INodes[ino].m_nlookup = n /\ HasNoLinks(ino))
    <3>1. DeletedINodes' = DeletedINodes /\ m_reclaimingINodes' = m_reclaimingINodes
      BY <1>2, <2>2 DEF FuseForget
    <3>2. TypeOK'
      BY <1>6, <1>7, <3>1, FieldTyped, Table DEF Sound, TypeOK
    <3>3. \A q : InQueue(q)' <=> InQueue(q)
      BY <3>1 DEF InQueue
    <3>4. NoNumberTwice'
      BY <3>1 DEF Sound, NoNumberTwice
    <3> QED BY <2>2, <3>2, <3>3, <3>4
  <2> QED BY <2>1, <2>2
<1>12. Forgotten(ino, n)
  BY <1>1, <1>7, <1>8, <1>9, <1>10, <1>11 DEF Forgotten
<1> QED BY <1>11, <1>12

LEMMA ForgetKeeps == ASSUME IInv, LinksFit, Forget PROVE IInv'
<1>1. PICK ino, n : Forgotten(ino, n)
  BY ExactIsSound, ForgetEffect
<1>2. TypeOK' /\ NoNumberTwice'
  BY ExactIsSound, ForgetEffect
<1>3. EntriesExist' /\ NoHiddenEntries' /\ OneNameEach' /\ Hangs' /\ LinkCountsExact' /\ DeletedHaveNoName'
  BY <1>1, ShapeInvariants DEF IInv, Forgotten
<1>4. \A q : Named(q)' <=> Named(q)
  BY <1>1, ShapeKept DEF IInv, Forgotten
<1>5. HasNoLinks(ino) <=> ~Named(ino)
  BY <1>1, NoLinksNoName DEF IInv, Forgotten
<1>6. QueueUnused'
  BY <1>1, <1>4, <1>5 DEF IInv, QueueExact, QueueUnused, SameShape, Forgotten
<1>7. NoINodeLost'
  BY <1>1, <1>4, <1>5 DEF IInv, QueueExact, NoINodeLost, SameShape, Forgotten
<1>8. FirstTwo'
  BY <1>1, Table DEF IInv, FirstTwo, IsDirectory, SameShape, Forgotten
<1> QED BY <1>2, <1>3, <1>6, <1>7, <1>8 DEF IInv, QueueExact
-----------------------------------------------------------------------------
(* The number RegisterINode gives out is new, or was in the queue. *)
LEMMA NextINodeUnused ==
    ASSUME Sound, RoomForINode
    PROVE  /\ NextINode \in Nat \ {Special, Root} /\ NextINode # NoChild
           /\ ~Named(NextINode)
           /\ NextINode \in DOMAIN INodes => ~Held(NextINode) /\ Reclaiming
           /\ NextINode \notin DOMAIN INodes => ~Reclaiming
           /\ \E n \in 2 .. MaxINodes \cup {2} : DOMAIN INodes \cup {NextINode} = 0 .. n - 1
<1>1. CASE Reclaiming
  <2>1. NextINode = Head(DeletedINodes) /\ DeletedINodes # <<>> /\ DeletedINodes \in Seq(DOMAIN INodes)
    BY <1>1, Table DEF NextINode, Reclaiming, Sound
  <2>2. /\ NextINode = DeletedINodes[1] /\ NextINode \in DOMAIN INodes
        /\ 1 \in 1 .. Len(DeletedINodes)
    BY <2>1
  <2>3. InQueue(NextINode)
    BY <2>2 DEF InQueue
  <2>4. ~Named(NextINode) /\ ~Held(NextINode)
    BY <2>2, <2>3 DEF Sound, QueueUnused
  <2>5. NextINode # Special /\ NextINode # Root
    BY <2>3, <2>4 DEF Sound, FirstTwo, Named
  <2>6. DOMAIN INodes \cup {NextINode} = DOMAIN INodes
    BY <2>2
  <2> QED BY <1>1, <2>2, <2>4, <2>5, <2>6, Table DEF Sound, TypeOK
<1>2. CASE ~Reclaiming
  <2> DEFINE size == Cardinality(DOMAIN INodes)
  <2>1. NextINode = size /\ size < MaxINodes
    BY <1>2 DEF NextINode, RoomForINode
  <2>2. size \in Nat /\ size >= 2 /\ DOMAIN INodes = 0 .. size - 1
    BY TableSize DEF Sound
  <2> HIDE DEF size
  <2>3. /\ NextINode \in Nat \ {Special, Root} /\ NextINode # NoChild
        /\ NextINode \notin DOMAIN INodes
    BY <2>1, <2>2 DEF Special, Root, NoChild
  <2>4. ~Named(NextINode)
    BY <2>3 DEF Sound, EntriesExist, Named, NamesOf, Kid
  <2>5. /\ DOMAIN INodes \cup {NextINode} = 0 .. (size + 1) - 1
        /\ size + 1 \in 2 .. MaxINodes
    BY <2>1, <2>2, NamespaceAssumption
  <2> QED BY <1>2, <2>3, <2>4, <2>5
<1> QED BY <1>1, <1>2

NewLinks(type) == IF type = "DIRECTORY" THEN 2 ELSE 1

(* All handlers that make an inode leave this table. *)
MadeTable(dir, name, type) ==
    [q \in DOMAIN INodes \cup {NextINode} |->
        IF q = NextINode THEN [NewINode(type, NewLinks(type)) EXCEPT !.m_nlookup = 1]
        ELSE IF q = dir
        THEN [INodes[q] EXCEPT
                 !.st_nlink = IF type = "DIRECTORY" THEN (@ + 1) % LinkModulus ELSE @,
                 !.m_children = [@ EXCEPT ![name] = NextINode]]
        ELSE INodes[q]]

Made(dir, name, type) ==
    /\ Usable(dir) /\ Kid(dir, name) = NoChild
    /\ RoomForINode
    /\ INodes' = MadeTable(dir, name, type)
    /\ RegisterINode

LEMMA LookupNew ==
    ASSUME NEW t, NEW x \in DOMAIN t, NEW type, NEW links, t[x] = NewINode(type, links)
    PROVE  Lookup(t, x) = [t EXCEPT ![x] = [NewINode(type, links) EXCEPT !.m_nlookup = 1]]
<1>1. NewINode(type, links).m_nlookup + 1 = 1
  BY DEF NewINode
<1>2. [t[x] EXCEPT !.m_nlookup = @ + 1] = [NewINode(type, links) EXCEPT !.m_nlookup = 1]
  BY <1>1
<1> QED BY <1>2 DEF Lookup

(* A number that is not of the directory gets its inode and then its name. *)
LEMMA MadeInSteps ==
    ASSUME NEW dir \in DOMAIN INodes, NEW name \in Names, NEW type \in Types, dir # NextINode,
           INodes[dir] \in INodeRecords(DOMAIN INodes), INodes = [q \in DOMAIN INodes |-> INodes[q]]
    PROVE  LET x     == NextINode
               links == NewLinks(type)
               named == UpdateChild(Registered(INodes, type, links), dir, name, x)
           IN  /\ type # "DIRECTORY" => Lookup(named, x) = MadeTable(dir, name, type)
               /\ type = "DIRECTORY" =>
                     /\ Lookup(AddHardLink(named, dir), x) = MadeTable(dir, name, type)
                     /\ Lookup(UpdateChild(Registered(AddHardLink(INodes, dir), type, links), dir, name, x), x)
                           = MadeTable(dir, name, type)
<1> DEFINE x == NextINode
           links == NewLinks(type)
           new == NewINode(type, links)
           node == [new EXCEPT !.m_nlookup = 1]
           kid == [INodes[dir] EXCEPT !.m_children = [@ EXCEPT ![name] = x]]
           link == [INodes[dir] EXCEPT !.st_nlink = (@ + 1) % LinkModulus]
           both == [INodes[dir] EXCEPT !.st_nlink = (@ + 1) % LinkModulus,
                                       !.m_children = [@ EXCEPT ![name] = x]]
           table(r, q0) == [q \in DOMAIN INodes \cup {x} |->
                              IF q = x THEN r ELSE IF q = dir THEN q0 ELSE INodes[q]]
<1>1. both = [kid EXCEPT !.st_nlink = (@ + 1) % LinkModulus]
  BY DEF INodeRecords
<1>2. both = [link EXCEPT !.m_children = [@ EXCEPT ![name] = x]]
  BY DEF INodeRecords
<1> HIDE DEF x, new, node, both
<1>3. UpdateChild(Registered(INodes, type, links), dir, name, x) = table(new, kid)
  BY DEF UpdateChild, Registered, x, new
<1>4. AddHardLink(table(new, kid), dir) = table(new, both)
  BY <1>1 DEF AddHardLink, x
<1>5. UpdateChild(Registered(AddHardLink(INodes, dir), type, links), dir, name, x) = table(new, both)
  <2>1. Registered(AddHardLink(INodes, dir), type, links) = table(new, link)
    BY DEF Registered, AddHardLink, x, new
  <2>2. UpdateChild(table(new, link), dir, name, x) = table(new, both)
    BY <1>2 DEF UpdateChild, x
  <2> QED BY <2>1, <2>2
<1>6. ASSUME NEW q0 PROVE Lookup(table(new, q0), x) = table(node, q0)
  <2>1. Lookup(table(new, q0), x) = [table(new, q0) EXCEPT ![x] = node]
    <3>1. table(new, q0)[x] = NewINode(type, links) /\ x \in DOMAIN table(new, q0)
      BY DEF new
    <3> HIDE DEF table, links
    <3> QED BY <3>1, LookupNew DEF new, node
  <2> QED BY <2>1
<1>7. type # "DIRECTORY" => MadeTable(dir, name, type) = table(node, kid)
  BY DEF MadeTable, x, node, new, INodeRecords
<1>8. type = "DIRECTORY" => MadeTable(dir, name, type) = table(node, both)
  BY DEF MadeTable, x, node, new, both
<1> HIDE DEF table
<1> QED BY <1>3, <1>4, <1>5, <1>6, <1>7, <1>8 DEF x

LEMMA MakeEffect ==
    ASSUME Sound, Make
    PROVE  \E dir \in DOMAIN INodes \ {NextINode}, name \in Names, type \in Types \ {"SPECIAL"} :
              Made(dir, name, type)
<1>1. PICK dir \in DOMAIN INodes, name \in Names :
         /\ KernelMakes(dir, name)
         /\ RoomForINode
         /\ \/ \E type \in {"DIRECTORY", "REGULAR_FILE"} : FuseMknod(dir, name, type)
            \/ FuseMkdir(dir, name)
            \/ FuseSymlink(dir, name)
            \/ FuseCreate(dir, name)
  BY DEF Make
<1>2. dir # NextINode /\ Usable(dir) /\ Kid(dir, name) = NoChild
  BY <1>1, NextINodeUnused DEF KernelMakes, Usable, Free, Kid, ChildINodeNumberWithName
<1>3. INodes[dir] \in INodeRecords(DOMAIN INodes) /\ INodes = [q \in DOMAIN INodes |-> INodes[q]]
  BY <1>1, Table DEF Sound
<1>4. ASSUME FuseSymlink(dir, name) PROVE Made(dir, name, "SYMBOLIC_LINK")
  BY <1>1, <1>2, <1>3, <1>4, MadeInSteps DEF Made, FuseSymlink, NewLinks, Types
<1>5. ASSUME FuseCreate(dir, name) PROVE Made(dir, name, "REGULAR_FILE")
  BY <1>1, <1>2, <1>3, <1>5, MadeInSteps DEF Made, FuseCreate, NewLinks, Types
<1>6. ASSUME FuseMkdir(dir, name) PROVE Made(dir, name, "DIRECTORY")
  BY <1>1, <1>2, <1>3, <1>6, MadeInSteps DEF Made, FuseMkdir, NewLinks, Types
<1>7. ASSUME FuseMknod(dir, name, "DIRECTORY") PROVE Made(dir, name, "DIRECTORY")
  BY <1>1, <1>2, <1>3, <1>7, MadeInSteps DEF Made, FuseMknod, NewLinks, Types
<1>8. ASSUME FuseMknod(dir, name, "REGULAR_FILE") PROVE Made(dir, name, "REGULAR_FILE")
  BY <1>1, <1>2, <1>3, <1>8, MadeInSteps DEF Made, FuseMknod, NewLinks, Types
<1> QED BY <1>1, <1>2, <1>4, <1>5, <1>6, <1>7, <1>8 DEF Types
-----------------------------------------------------------------------------
(* An entry is added, of an inode that is new or of a file. *)
EntryAdded(dir, name, ino) ==
    /\ dir \in DOMAIN INodes /\ name \in Names /\ Usable(dir) /\ Kid(dir, name) = NoChild
    /\ ino \in Nat \ {Special, Root, dir}
    /\ DOMAIN INodes' = DOMAIN INodes \cup {ino}
    /\ \A q \in DOMAIN INodes', n \in Names :
          Kid(q, n)' = IF q = dir /\ n = name THEN ino
                       ELSE IF q \in DOMAIN INodes THEN Kid(q, n) ELSE NoChild
    /\ \A q \in DOMAIN INodes : q # ino \/ Named(q) => INodes'[q].type = INodes[q].type
    /\ Named(ino) => ino \in DOMAIN INodes /\ ~IsDirectory(ino)

LEMMA NamesAfterAdd ==
    ASSUME IInv, NEW dir, NEW name, NEW ino, EntryAdded(dir, name, ino)
    PROVE  /\ \A q \in Nat : NamesOf(q)' = IF q = ino THEN NamesOf(q) \cup {<<dir, name>>} ELSE NamesOf(q)
           /\ <<dir, name>> \notin NamesOf(ino)
           /\ \A q \in Nat : Named(q)' <=> Named(q) \/ q = ino
           /\ \A q \in DOMAIN INodes : q # ino \/ Named(q) => (IsDirectory(q)' <=> IsDirectory(q))
<1>1. ino # NoChild /\ \A q \in Nat : q # NoChild
  BY DEF EntryAdded, NoChild
<1>2. ASSUME NEW q \in Nat, NEW entry
      PROVE entry \in NamesOf(q)' <=> entry \in NamesOf(q) \/ (q = ino /\ entry = <<dir, name>>)
  <2>1. ASSUME entry \in NamesOf(q)' PROVE entry \in NamesOf(q) \/ (q = ino /\ entry = <<dir, name>>)
    <3>1. /\ entry = <<entry[1], entry[2]>> /\ entry[1] \in DOMAIN INodes' /\ entry[2] \in Names
          /\ Kid(entry[1], entry[2])' = q
      BY <2>1 DEF NamesOf, Kid
    <3> QED BY <1>1, <3>1 DEF EntryAdded, NamesOf, Kid
  <2>2. ASSUME entry \in NamesOf(q) PROVE entry \in NamesOf(q)'
    <3>1. /\ entry = <<entry[1], entry[2]>> /\ entry[1] \in DOMAIN INodes /\ entry[2] \in Names
          /\ Kid(entry[1], entry[2]) = q
      BY <2>2 DEF NamesOf, Kid
    <3>2. Kid(entry[1], entry[2])' = q /\ entry[1] \in DOMAIN INodes'
      BY <1>1, <3>1 DEF EntryAdded
    <3> QED BY <3>1, <3>2 DEF NamesOf, Kid
  <2>3. <<dir, name>> \in NamesOf(ino)'
    <3>1. Kid(dir, name)' = ino /\ dir \in DOMAIN INodes' /\ name \in Names
      BY DEF EntryAdded
    <3> QED BY <3>1 DEF NamesOf, Kid
  <2> QED BY <2>1, <2>2, <2>3
<1>3. \A q \in Nat : NamesOf(q)' = IF q = ino THEN NamesOf(q) \cup {<<dir, name>>} ELSE NamesOf(q)
  BY <1>2
<1>4. <<dir, name>> \notin NamesOf(ino)
  BY <1>1 DEF EntryAdded, NamesOf, Kid
<1>5. \A q \in Nat : Named(q)' <=> Named(q) \/ q = ino
  BY <1>3 DEF Named
<1>6. \A q \in DOMAIN INodes : q # ino \/ Named(q) => (IsDirectory(q)' <=> IsDirectory(q))
  BY DEF EntryAdded, IsDirectory
<1> QED BY <1>3, <1>4, <1>5, <1>6

LEMMA SubdirectoriesAfterAdd ==
    ASSUME IInv, NEW dir, NEW name, NEW ino, EntryAdded(dir, name, ino)
    PROVE  /\ \A q \in DOMAIN INodes \ {ino} :
                 Subdirectories(q)' = IF q = dir /\ IsDirectory(ino)' THEN Subdirectories(q) \cup {name}
                                      ELSE Subdirectories(q)
           /\ name \notin Subdirectories(dir)
           /\ IsDirectory(ino)' => Subdirectories(ino)' = {}
<1>1. \A q \in DOMAIN INodes : q # ino \/ Named(q) => (IsDirectory(q)' <=> IsDirectory(q))
  BY NamesAfterAdd
<1>2. ASSUME NEW q \in DOMAIN INodes, NEW n \in Names, Kid(q, n) # NoChild
      PROVE  /\ Kid(q, n) \in DOMAIN INodes
             /\ INodes'[Kid(q, n)].type = INodes[Kid(q, n)].type
  <2>1. Kid(q, n) \in DOMAIN INodes
    BY <1>2 DEF IInv, EntriesExist
  <2>2. Named(Kid(q, n))
    BY NameIsEntry DEF Entry, Named
  <2> QED BY <2>1, <2>2 DEF EntryAdded
<1>3. ASSUME NEW q \in DOMAIN INodes \ {ino}, NEW n \in Names
      PROVE  n \in Subdirectories(q)' <=> n \in Subdirectories(q) \/ (q = dir /\ n = name /\ IsDirectory(ino)')
  <2>1. q \in DOMAIN INodes' /\ ino # NoChild
    BY DEF EntryAdded, NoChild
  <2>2. n \in Subdirectories(q) <=> Kid(q, n) # NoChild /\ IsDirectory(Kid(q, n))
    BY DEF Subdirectories, Free, ChildINodeNumberWithName, Kid
  <2>3. n \in Subdirectories(q)' <=> Kid(q, n)' # NoChild /\ INodes'[Kid(q, n)'].type = "DIRECTORY"
    BY DEF Subdirectories, Free, ChildINodeNumberWithName, Kid, IsDirectory
  <2>4. CASE q = dir /\ n = name
    BY <2>1, <2>2, <2>3, <2>4 DEF EntryAdded, IsDirectory
  <2>5. CASE ~(q = dir /\ n = name)
    <3>1. Kid(q, n)' = Kid(q, n)
      BY <2>1, <2>5 DEF EntryAdded
    <3> QED BY <1>2, <2>2, <2>3, <2>5, <3>1 DEF IsDirectory
  <2> QED BY <2>4, <2>5
<1>4. \A q \in DOMAIN INodes \ {ino} :
         Subdirectories(q)' = IF q = dir /\ IsDirectory(ino)' THEN Subdirectories(q) \cup {name}
                              ELSE Subdirectories(q)
  <2>1. \A q : Subdirectories(q) \subseteq Names /\ Subdirectories(q)' \subseteq Names
    BY DEF Subdirectories
  <2>2. name \in Names
    BY DEF EntryAdded
  <2> QED BY <1>3, <2>1, <2>2
<1>5. name \notin Subdirectories(dir)
  BY DEF EntryAdded, Subdirectories, Free, ChildINodeNumberWithName, Kid
<1>6. IsDirectory(ino)' => Subdirectories(ino)' = {}
  <2>1. SUFFICES ASSUME IsDirectory(ino)', NEW n \in Names PROVE Kid(ino, n)' = NoChild
    BY DEF Subdirectories, Free, ChildINodeNumberWithName, Kid
  <2>2. ~Named(ino)
    BY <1>1, <2>1 DEF EntryAdded
  <2>3. ino \in DOMAIN INodes => Kid(ino, n) = NoChild
    BY <2>2 DEF IInv, NoHiddenEntries
  <2> QED BY <2>3 DEF EntryAdded
<1> QED BY <1>4, <1>5, <1>6

LEMMA TreeAfterAdd ==
    ASSUME IInv, NEW dir, NEW name, NEW ino, EntryAdded(dir, name, ino)
    PROVE  EntriesExist' /\ NoHiddenEntries' /\ OneNameEach' /\ Hangs'
<1>1. \A q \in Nat : NamesOf(q)' = IF q = ino THEN NamesOf(q) \cup {<<dir, name>>} ELSE NamesOf(q)
  BY NamesAfterAdd
<1>2. \A q \in Nat : Named(q)' <=> Named(q) \/ q = ino
  BY NamesAfterAdd
<1>3. \A q \in DOMAIN INodes : q # ino \/ Named(q) => (IsDirectory(q)' <=> IsDirectory(q))
  BY NamesAfterAdd
<1>4. \A q \in DOMAIN INodes' : q \in Nat
  BY Table DEF IInv, EntryAdded
<1>5. EntriesExist'
  <2>1. SUFFICES ASSUME NEW q \in DOMAIN INodes', NEW n \in Names, Kid(q, n)' # NoChild
                 PROVE  Kid(q, n)' \in DOMAIN INodes' \ {Special, Root}
    BY DEF EntriesExist
  <2> QED BY <2>1 DEF EntryAdded, IInv, EntriesExist
<1>6. NoHiddenEntries'
  <2>1. SUFFICES ASSUME NEW q \in DOMAIN INodes', ~(IsDirectory(q)') \/ ~(Named(q)'), NEW n \in Names
                 PROVE  Kid(q, n)' = NoChild
    BY DEF NoHiddenEntries
  <2>2. CASE q = ino
    <3>1. ~Named(ino) \/ ~IsDirectory(ino)
      BY DEF EntryAdded
    <3> QED BY <2>2, <3>1 DEF EntryAdded, IInv, NoHiddenEntries
  <2>3. CASE q # ino
    <3>1. q \in DOMAIN INodes /\ (~IsDirectory(q) \/ ~Named(q))
      BY <1>2, <1>3, <1>4, <2>1, <2>3 DEF EntryAdded
    <3>2. q # dir
      BY <3>1 DEF EntryAdded, Usable
    <3> QED BY <3>1, <3>2 DEF EntryAdded, IInv, NoHiddenEntries
  <2> QED BY <2>2, <2>3
<1>7. OneNameEach'
  <2>1. SUFFICES ASSUME NEW q \in DOMAIN INodes', IsDirectory(q)', NEW entry \in NamesOf(q)', NEW other \in NamesOf(q)'
                 PROVE  entry = other
    BY DEF OneNameEach
  <2>2. CASE q = ino
    <3>1. ~Named(ino)
      BY <1>3, <2>1, <2>2 DEF EntryAdded
    <3>2. NamesOf(ino) = {}
      BY <3>1 DEF Named
    <3> QED BY <1>1, <1>4, <2>1, <2>2, <3>2
  <2>3. CASE q # ino
    <3>1. q \in DOMAIN INodes /\ IsDirectory(q)
      BY <1>3, <2>1, <2>3 DEF EntryAdded
    <3> QED BY <1>1, <1>4, <2>1, <2>3, <3>1 DEF IInv, OneNameEach
  <2> QED BY <2>2, <2>3
<1>8. Hangs'
  <2>1. SUFFICES ASSUME NEW S \in SUBSET DOMAIN INodes', Closed(S)', NEW q \in S, Named(q)'
                 PROVE  Root \in S
    BY DEF Hangs
  <2> DEFINE Old == S \cap DOMAIN INodes
  <2>2. Closed(Old)
    <3>1. SUFFICES ASSUME NEW d \in DOMAIN INodes, NEW n \in Names, Kid(d, n) \in Old PROVE d \in S
      BY DEF Closed
    <3>2. NoChild \notin DOMAIN INodes
      BY Table DEF IInv
    <3>3. Kid(d, n)' = Kid(d, n) /\ d \in DOMAIN INodes'
      BY <3>1, <3>2 DEF EntryAdded
    <3> QED BY <2>1, <3>1, <3>3 DEF Closed
  <2>3. CASE q = ino
    <3>1. dir \in Old /\ Named(dir)
      BY <2>1, <2>3 DEF EntryAdded, Closed, Usable
    <3> QED BY <2>2, <3>1 DEF IInv, Hangs
  <2>4. CASE q # ino
    <3>1. q \in Old /\ Named(q)
      BY <1>2, <1>4, <2>1, <2>4 DEF EntryAdded
    <3> QED BY <2>2, <3>1 DEF IInv, Hangs
  <2> QED BY <2>3, <2>4
<1> QED BY <1>5, <1>6, <1>7, <1>8
-----------------------------------------------------------------------------
(* A new inode, field by field. *)
MadeFields(dir, name, x, type) ==
    /\ DOMAIN INodes' = DOMAIN INodes \cup {x}
    /\ INodes' = [q \in DOMAIN INodes' |-> INodes'[q]]
    /\ INodes'[x] = [NewINode(type, NewLinks(type)) EXCEPT !.m_nlookup = 1]
    /\ \A q \in DOMAIN INodes \ {x} :
          /\ INodes'[q] \in INodeRecords(DOMAIN INodes \cup {x})
          /\ INodes'[q].type = INodes[q].type
          /\ INodes'[q].m_nlookup = INodes[q].m_nlookup
          /\ INodes'[q].markedForDeletion = INodes[q].markedForDeletion
          /\ INodes'[q].st_nlink = IF q = dir /\ type = "DIRECTORY"
                                   THEN (INodes[q].st_nlink + 1) % LinkModulus ELSE INodes[q].st_nlink
          /\ INodes'[q].m_children = IF q = dir THEN [INodes[q].m_children EXCEPT ![name] = x]
                                     ELSE INodes[q].m_children

LEMMA MadeHasFields ==
    ASSUME TypeOK, NEW x, x = NextINode, NEW dir \in DOMAIN INodes \ {x}, NEW name \in Names,
           NEW type \in Types \ {"SPECIAL"}, Made(dir, name, type)
    PROVE  MadeFields(dir, name, x, type)
<1>1. INodes' = MadeTable(dir, name, type)
  BY DEF Made
<1>2. DOMAIN INodes' = DOMAIN INodes \cup {x} /\ INodes' = [q \in DOMAIN INodes' |-> INodes'[q]]
  BY <1>1 DEF MadeTable
<1>3. INodes'[x] = [NewINode(type, NewLinks(type)) EXCEPT !.m_nlookup = 1]
  BY <1>1 DEF MadeTable
<1>4. ASSUME NEW q \in DOMAIN INodes \ {x, dir}
      PROVE  INodes'[q] = INodes[q]
  BY <1>1 DEF MadeTable
<1>5. ASSUME NEW q \in DOMAIN INodes
      PROVE  INodes[q] \in INodeRecords(DOMAIN INodes \cup {x})
  <2>1. INodes[q] \in INodeRecords(DOMAIN INodes)
    BY Table
  <2> QED BY <2>1 DEF INodeRecords
<1> DEFINE links == IF type = "DIRECTORY" THEN (INodes[dir].st_nlink + 1) % LinkModulus ELSE INodes[dir].st_nlink
<1>6. INodes'[dir] = [INodes[dir] EXCEPT !.st_nlink = links,
                                         !.m_children = [@ EXCEPT ![name] = x]]
  BY <1>1 DEF MadeTable
<1>7. links \in 0 .. LinkModulus - 1
  BY INodeType, NamespaceAssumption
<1> HIDE DEF links
<1>8. /\ INodes'[dir] \in INodeRecords(DOMAIN INodes \cup {x})
      /\ INodes'[dir].type = INodes[dir].type
      /\ INodes'[dir].m_nlookup = INodes[dir].m_nlookup
      /\ INodes'[dir].markedForDeletion = INodes[dir].markedForDeletion
      /\ INodes'[dir].st_nlink = links
      /\ INodes'[dir].m_children = [INodes[dir].m_children EXCEPT ![name] = x]
  <2>1. INodes[dir].m_children \in [Names -> DOMAIN INodes \cup {NoChild}]
    BY INodeType
  <2> DEFINE children == [INodes[dir].m_children EXCEPT ![name] = x]
  <2>2. children \in [Names -> (DOMAIN INodes \cup {x}) \cup {NoChild}]
    BY <2>1
  <2> HIDE DEF children
  <2>3. INodes'[dir] = [INodes[dir] EXCEPT !.st_nlink = links, !.m_children = children]
    BY <1>6 DEF children
  <2>4. /\ INodes'[dir] \in INodeRecords(DOMAIN INodes \cup {x})
        /\ INodes'[dir].type = INodes[dir].type
        /\ INodes'[dir].m_nlookup = INodes[dir].m_nlookup
        /\ INodes'[dir].markedForDeletion = INodes[dir].markedForDeletion
        /\ INodes'[dir].st_nlink = links
        /\ INodes'[dir].m_children = children
    BY <1>5, <1>7, <2>2, <2>3 DEF INodeRecords
  <2> QED BY <2>4 DEF children
<1> QED BY <1>2, <1>3, <1>4, <1>5, <1>8 DEF MadeFields, links

(* The table that is left is as TypeOK has it. *)
LEMMA MadeIsTyped ==
    ASSUME Sound, MaxLookups > 0, NEW x, x = NextINode, NEW dir \in DOMAIN INodes \ {x}, NEW name \in Names,
           NEW type \in Types \ {"SPECIAL"}, Made(dir, name, type), MadeFields(dir, name, x, type)
    PROVE  TypeOK'
<1>1. INodes'[x] \in INodeRecords(DOMAIN INodes \cup {x})
  <2>1. NewLinks(type) \in 0 .. LinkModulus - 1
    BY NamespaceAssumption DEF NewLinks
  <2>2. 1 \in 0 .. MaxLookups
    BY NamespaceAssumption
  <2> DEFINE none == [n \in Names |-> NoChild]
             all == DOMAIN INodes \cup {x}
  <2>3. none \in [Names -> all \cup {NoChild}]
    OBVIOUS
  <2> HIDE DEF none, all
  <2>4. INodes'[x] = [type |-> type, st_nlink |-> NewLinks(type), m_nlookup |-> 1,
                      markedForDeletion |-> FALSE, m_children |-> none]
    BY DEF MadeFields, NewINode, none
  <2>5. INodes'[x] \in INodeRecords(all)
    BY <2>1, <2>2, <2>3, <2>4 DEF INodeRecords
  <2> QED BY <2>5 DEF all
<1>2. INodes' \in [DOMAIN INodes' -> INodeRecords(DOMAIN INodes')]
  BY <1>1 DEF MadeFields
<1>3. DeletedINodes' \in Seq(DOMAIN INodes')
  <2>1. DeletedINodes \in Seq(DOMAIN INodes')
    <3>1. DeletedINodes \in Seq(DOMAIN INodes) /\ DOMAIN INodes \subseteq DOMAIN INodes'
      BY Table DEF MadeFields, Sound
    <3> QED BY <3>1
  <2>2. CASE Reclaiming
    <3>1. DeletedINodes # <<>> /\ DeletedINodes' = Tail(DeletedINodes)
      BY <2>2 DEF Made, RegisterINode, Reclaiming
    <3> QED BY <2>1, <3>1
  <2>3. CASE ~Reclaiming
    BY <2>1, <2>3 DEF Made, RegisterINode
  <2> QED BY <2>2, <2>3
<1>4. m_reclaimingINodes' \in BOOLEAN
  BY DEF Made, RegisterINode, Reclaiming, Sound, TypeOK
<1>5. \E n \in 2 .. MaxINodes \cup {2} : DOMAIN INodes' = 0 .. n - 1
  BY NextINodeUnused DEF Made, MadeFields
<1> QED BY <1>2, <1>3, <1>4, <1>5 DEF TypeOK

(* The number that was given out is in the queue no more. *)
LEMMA QueueAfterMake ==
    ASSUME Sound, NEW x, x = NextINode, NEW dir, NEW name, NEW type, Made(dir, name, type)
    PROVE  NoNumberTwice' /\ \A q : InQueue(q)' => InQueue(q) /\ q # x
<1>1. CASE Reclaiming
  <2>1. DeletedINodes # <<>> /\ DeletedINodes' = Tail(DeletedINodes) /\ x = Head(DeletedINodes)
    BY <1>1 DEF Made, RegisterINode, Reclaiming, NextINode
  <2>2. /\ Len(DeletedINodes) \in Nat /\ Len(DeletedINodes) >= 1
        /\ Len(DeletedINodes') = Len(DeletedINodes) - 1 /\ x = DeletedINodes[1]
        /\ \A i \in 1 .. Len(DeletedINodes') : DeletedINodes'[i] = DeletedINodes[i + 1]
    BY <2>1, Table DEF Sound
  <2>3. \A i \in 1 .. Len(DeletedINodes') : i + 1 \in 1 .. Len(DeletedINodes) /\ i + 1 # 1
    BY <2>2
  <2>4. 1 \in 1 .. Len(DeletedINodes)
    BY <2>2
  <2>5. NoNumberTwice'
    BY <2>2, <2>3 DEF Sound, NoNumberTwice
  <2>6. \A q : InQueue(q)' => InQueue(q) /\ q # x
    BY <2>2, <2>3, <2>4 DEF Sound, NoNumberTwice, InQueue
  <2> QED BY <2>5, <2>6
<1>2. CASE ~Reclaiming
  <2>1. DeletedINodes' = DeletedINodes /\ x \notin DOMAIN INodes
    BY <1>2, NextINodeUnused DEF Made, RegisterINode
  <2>2. \A i \in 1 .. Len(DeletedINodes) : DeletedINodes[i] \in DOMAIN INodes
    BY Table DEF Sound
  <2> QED BY <2>1, <2>2 DEF Sound, NoNumberTwice, InQueue
<1> QED BY <1>1, <1>2

LEMMA MakeKeeps == ASSUME IInv, Careful, Make PROVE IInv'
<1>1. PICK x : x = NextINode
  OBVIOUS
<1>2. PICK dir \in DOMAIN INodes \ {x}, name \in Names, type \in Types \ {"SPECIAL"} : Made(dir, name, type)
  BY <1>1, ExactIsSound, MakeEffect
<1>3. /\ x \in Nat \ {Special, Root} /\ x # NoChild /\ ~Named(x)
      /\ x \in DOMAIN INodes => ~Held(x) /\ Reclaiming
      /\ x \notin DOMAIN INodes => ~Reclaiming
      /\ \E n \in 2 .. MaxINodes \cup {2} : DOMAIN INodes \cup {x} = 0 .. n - 1
  BY <1>1, <1>2, ExactIsSound, NextINodeUnused DEF Made
<1>4. MadeFields(dir, name, x, type)
  BY <1>1, <1>2, MadeHasFields DEF IInv
<1>5. /\ INodes'[x].type = type /\ INodes'[x].st_nlink = NewLinks(type) /\ INodes'[x].m_nlookup = 1
      /\ INodes'[x].markedForDeletion = FALSE /\ \A n \in Names : Kid(x, n)' = NoChild
  BY <1>4 DEF MadeFields, NewINode, Kid
<1>6. EntryAdded(dir, name, x)
  <2>1. ASSUME NEW q \in DOMAIN INodes', NEW n \in Names
        PROVE Kid(q, n)' = IF q = dir /\ n = name THEN x
                           ELSE IF q \in DOMAIN INodes THEN Kid(q, n) ELSE NoChild
    <3>1. CASE q = x
      BY <1>2, <1>3, <1>5, <3>1 DEF IInv, NoHiddenEntries
    <3>2. CASE q # x
      <4>1. q \in DOMAIN INodes \ {x} /\ INodes[q].m_children \in [Names -> DOMAIN INodes \cup {NoChild}]
        BY <1>4, <3>2, INodeType DEF MadeFields, IInv
      <4> QED BY <1>2, <1>4, <4>1 DEF MadeFields, Kid
    <3> QED BY <3>1, <3>2
  <2>2. \A q \in DOMAIN INodes : q # x \/ Named(q) => INodes'[q].type = INodes[q].type
    BY <1>3, <1>4 DEF MadeFields
  <2> QED BY <1>2, <1>3, <1>4, <2>1, <2>2 DEF EntryAdded, MadeFields, Made
<1>7. EntriesExist' /\ NoHiddenEntries' /\ OneNameEach' /\ Hangs'
  BY <1>6, TreeAfterAdd
<1>8. \A q \in Nat : Named(q)' <=> Named(q) \/ q = x
  BY <1>6, NamesAfterAdd
<1>9. \A q \in DOMAIN INodes : q \in Nat
  BY Table DEF IInv
<1>10. TypeOK'
  BY <1>1, <1>2, <1>4, ExactIsSound, MadeIsTyped DEF Careful
<1>11. \A q \in DOMAIN INodes \ {x} : IsDirectory(q)' <=> IsDirectory(q)
  BY <1>4 DEF MadeFields, IsDirectory
<1>12. LinkCountsExact'
  <2>1. SUFFICES ASSUME NEW q \in DOMAIN INodes' \ {Special} PROVE INodes'[q].st_nlink = LinkCount(q)'
    BY DEF LinkCountsExact
  <2>2. NamesOf(q)' = IF q = x THEN NamesOf(q) \cup {<<dir, name>>} ELSE NamesOf(q)
    <3>1. q \in Nat
      BY <1>3, <1>4, <1>9 DEF MadeFields
    <3>2. \A r \in Nat : NamesOf(r)' = IF r = x THEN NamesOf(r) \cup {<<dir, name>>} ELSE NamesOf(r)
      BY <1>6, NamesAfterAdd
    <3> QED BY <3>1, <3>2
  <2>3. IsDirectory(x)' <=> type = "DIRECTORY"
    BY <1>5 DEF IsDirectory
  <2>4. CASE q = x
    <3>1. NamesOf(q)' = {<<dir, name>>} /\ Named(q)'
      BY <1>3, <2>2, <2>4 DEF Named
    <3>2. Cardinality({<<dir, name>>}) = 1
      BY FS_Singleton
    <3>3. IsDirectory(x)' => Subdirectories(x)' = {}
      BY <1>6, SubdirectoriesAfterAdd
    <3>4. Cardinality({}) = 0
      BY FS_EmptySet
    <3>5. CASE type = "DIRECTORY"
      <4>1. IsDirectory(q)' /\ Named(q)' /\ Subdirectories(q)' = {} /\ q # Root
        BY <1>3, <2>3, <2>4, <3>1, <3>3, <3>5
      <4>2. LinkCount(q)' = 2 + Cardinality({})
        BY <4>1 DEF LinkCount
      <4>3. INodes'[q].st_nlink = 2
        BY <1>5, <2>4, <3>5 DEF NewLinks
      <4> QED BY <3>4, <4>2, <4>3
    <3>6. CASE type # "DIRECTORY"
      BY <1>5, <2>3, <2>4, <3>1, <3>2, <3>6 DEF LinkCount, NewLinks
    <3> QED BY <3>5, <3>6
  <2>5. CASE q # x
    <3>1. q \in DOMAIN INodes \ {x, Special}
      BY <1>4, <2>1, <2>5 DEF MadeFields
    <3>2. INodes[q].st_nlink = LinkCount(q) /\ (IsDirectory(q)' <=> IsDirectory(q)) /\ (Named(q)' <=> Named(q))
      BY <1>8, <1>9, <1>11, <2>5, <3>1 DEF IInv, LinkCountsExact
    <3>3. Subdirectories(q)' = IF q = dir /\ type = "DIRECTORY" THEN Subdirectories(q) \cup {name}
                               ELSE Subdirectories(q)
      BY <1>6, <2>3, <3>1, SubdirectoriesAfterAdd
    <3>4. IsDirectory(dir) /\ Named(dir)
      BY <1>2 DEF Made, Usable
    <3>5. CASE q = dir /\ type = "DIRECTORY"
      <4>1. name \notin Subdirectories(dir) /\ IsFiniteSet(Subdirectories(dir)) /\ LinksFit
        BY <1>6, SubdirectoriesAfterAdd, SubdirectoriesFinite DEF Careful
      <4>2. Cardinality(Subdirectories(dir) \cup {name}) = Cardinality(Subdirectories(dir)) + 1
        BY <4>1, FS_AddElement
      <4>3. Subdirectories(dir) \cup {name} \in SUBSET Names
        BY DEF Subdirectories
      <4>4. /\ Cardinality(Subdirectories(dir)) \in Nat
            /\ Cardinality(Subdirectories(dir) \cup {name}) + 3 < LinkModulus
        BY <4>1, <4>3, FewNames, SubdirectoriesFinite
      <4>5. INodes'[q].st_nlink = (LinkCount(dir) + 1) % LinkModulus
        BY <1>4, <3>1, <3>2, <3>5 DEF MadeFields
      <4>6. LinkCount(dir) = (IF dir = Root THEN 3 ELSE 2) + Cardinality(Subdirectories(dir))
        BY <3>4 DEF LinkCount
      <4>7. LinkCount(dir)' = (IF dir = Root THEN 3 ELSE 2) + Cardinality(Subdirectories(dir) \cup {name})
        BY <3>2, <3>3, <3>4, <3>5 DEF LinkCount
      <4>8. LinkCount(dir) + 1 \in Nat /\ LinkCount(dir) + 1 < LinkModulus /\ LinkCount(dir)' = LinkCount(dir) + 1
        BY <4>2, <4>4, <4>6, <4>7, NamespaceAssumption
      <4> HIDE DEF LinkCount
      <4>9. (LinkCount(dir) + 1) % LinkModulus = LinkCount(dir) + 1
        BY <4>8, SmallMod
      <4> QED BY <3>5, <4>5, <4>8, <4>9
    <3>6. CASE ~(q = dir /\ type = "DIRECTORY")
      <4>1. INodes'[q].st_nlink = LinkCount(q)
        BY <1>4, <3>1, <3>2, <3>6 DEF MadeFields
      <4>2. LinkCount(q)' = LinkCount(q)
        BY <2>2, <2>5, <3>2, <3>3, <3>6 DEF LinkCount
      <4> QED BY <4>1, <4>2
    <3> QED BY <3>5, <3>6
  <2> QED BY <2>4, <2>5
<1>13. NoNumberTwice' /\ \A q : InQueue(q)' => InQueue(q) /\ q # x
  BY <1>1, <1>2, ExactIsSound, QueueAfterMake
<1>14. \A q : InQueue(q) /\ q # x => InQueue(q)'
  <2>1. CASE Reclaiming
    <3>1. DeletedINodes # <<>> /\ DeletedINodes' = Tail(DeletedINodes) /\ x = Head(DeletedINodes)
      BY <1>1, <1>2, <2>1 DEF Made, RegisterINode, Reclaiming, NextINode
    <3>2. /\ Len(DeletedINodes) \in Nat
          /\ Len(DeletedINodes') = Len(DeletedINodes) - 1 /\ x = DeletedINodes[1]
          /\ \A i \in 1 .. Len(DeletedINodes') : DeletedINodes'[i] = DeletedINodes[i + 1]
      BY <3>1, Table DEF IInv
    <3>3. \A i \in 1 .. Len(DeletedINodes) : i # 1 => i - 1 \in 1 .. Len(DeletedINodes') /\ (i - 1) + 1 = i
      BY <3>2
    <3>4. SUFFICES ASSUME NEW q, NEW i \in 1 .. Len(DeletedINodes), DeletedINodes[i] = q, q # x
                   PROVE  InQueue(q)'
      BY DEF InQueue
    <3>5. i - 1 \in 1 .. Len(DeletedINodes') /\ DeletedINodes'[i - 1] = q
      <4>1. i - 1 \in 1 .. Len(DeletedINodes') /\ (i - 1) + 1 = i
        BY <3>2, <3>3, <3>4
      <4>2. DeletedINodes'[i - 1] = DeletedINodes[(i - 1) + 1]
        BY <3>2, <4>1
      <4> QED BY <3>4, <4>1, <4>2
    <3> QED BY <3>5 DEF InQueue
  <2>2. CASE ~Reclaiming
    BY <1>2, <2>2 DEF Made, RegisterINode, InQueue
  <2> QED BY <2>1, <2>2
<1>15. QueueUnused'
  <2>1. SUFFICES ASSUME NEW q \in DOMAIN INodes', InQueue(q)' PROVE ~(Named(q)') /\ ~(Held(q)')
    BY DEF QueueUnused
  <2>2. q \in DOMAIN INodes \ {x} /\ InQueue(q)
    BY <1>4, <1>13, <2>1 DEF MadeFields
  <2>3. ~Named(q) /\ ~Held(q)
    BY <2>2 DEF IInv, QueueExact, QueueUnused
  <2> QED BY <1>4, <1>8, <1>9, <2>2, <2>3 DEF MadeFields, Held
<1>16. NoINodeLost'
  <2>1. SUFFICES ASSUME NEW q \in DOMAIN INodes' \ {Special}, ~(Named(q)'), ~(Held(q)') PROVE InQueue(q)'
    BY DEF NoINodeLost
  <2>2. Held(x)'
    BY <1>5 DEF Held
  <2>3. q \in DOMAIN INodes \ {x, Special} /\ ~Named(q) /\ ~Held(q)
    BY <1>4, <1>8, <1>9, <2>1, <2>2 DEF MadeFields, Held
  <2> QED BY <1>14, <2>3 DEF IInv, QueueExact, NoINodeLost
<1>17. FirstTwo'
  BY <1>3, <1>4, <1>13, Table DEF IInv, FirstTwo, IsDirectory, MadeFields
<1>18. DeletedHaveNoName'
  BY <1>4, <1>5, <1>8, <1>9 DEF IInv, DeletedHaveNoName, MadeFields
<1> QED BY <1>7, <1>10, <1>12, <1>13, <1>15, <1>16, <1>17, <1>18 DEF IInv, QueueExact
-----------------------------------------------------------------------------
(* A hard link: the file gets an entry, a link and a reference. *)
LEMMA LinkHasFields ==
    ASSUME TypeOK, NEW ino \in DOMAIN INodes, NEW dir \in DOMAIN INodes \ {ino}, NEW name \in Names,
           FuseLink(ino, dir, name)
    PROVE  /\ INodes' \in [DOMAIN INodes -> INodeRecords(DOMAIN INodes)]
           /\ \A q \in DOMAIN INodes :
                 /\ INodes'[q].type = INodes[q].type
                 /\ INodes'[q].markedForDeletion = INodes[q].markedForDeletion
                 /\ INodes'[q].m_nlookup = IF q = ino THEN INodes[q].m_nlookup + 1 ELSE INodes[q].m_nlookup
                 /\ INodes'[q].st_nlink = IF q = ino THEN (INodes[q].st_nlink + 1) % LinkModulus
                                          ELSE INodes[q].st_nlink
                 /\ INodes'[q].m_children = IF q = dir THEN [INodes[q].m_children EXCEPT ![name] = ino]
                                            ELSE INodes[q].m_children
<1> DEFINE children == [INodes[dir].m_children EXCEPT ![name] = ino]
           links == (INodes[ino].st_nlink + 1) % LinkModulus
           held == INodes[ino].m_nlookup + 1
<1>1. INodes \in [DOMAIN INodes -> INodeRecords(DOMAIN INodes)]
  BY Table
<1>2. children \in [Names -> DOMAIN INodes \cup {NoChild}]
  BY INodeType
<1>3. links \in 0 .. LinkModulus - 1
  BY INodeType, NamespaceAssumption
<1>4. held \in 0 .. MaxLookups
  <2>1. INodes[ino].m_nlookup \in 0 .. MaxLookups /\ INodes[ino].m_nlookup < MaxLookups
    BY INodeType DEF FuseLink, RoomForLookup
  <2> QED BY <2>1, NamespaceAssumption
<1> DEFINE t1 == [INodes EXCEPT ![dir] = [INodes[dir] EXCEPT !.m_children = children]]
           t2 == [t1 EXCEPT ![ino] = [INodes[ino] EXCEPT !.st_nlink = links]]
           t3 == [t2 EXCEPT ![ino] = [INodes[ino] EXCEPT !.st_nlink = links, !.m_nlookup = held]]
<1>5. INodes' = t3
  <2>1. UpdateChild(INodes, dir, name, ino) = t1
    BY DEF UpdateChild
  <2> HIDE DEF children
  <2>2. t1[ino] = INodes[ino] /\ ino \in DOMAIN t1
    BY <1>1
  <2> HIDE DEF t1
  <2>3. AddHardLink(t1, ino) = t2
    BY <2>2 DEF AddHardLink
  <2>4. t2[ino] = [INodes[ino] EXCEPT !.st_nlink = links] /\ t2[ino].m_nlookup = INodes[ino].m_nlookup
    <3> HIDE DEF links
    <3> QED BY <1>1, <2>2 DEF INodeRecords
  <2> HIDE DEF t2, links
  <2>5. Lookup(t2, ino) = t3
    BY <2>4 DEF Lookup
  <2> QED BY <2>1, <2>3, <2>5 DEF FuseLink
<1> HIDE DEF children, links, held
<1>6. [INodes[dir] EXCEPT !.m_children = children] \in INodeRecords(DOMAIN INodes)
  BY <1>1, <1>2 DEF INodeRecords
<1>7. [INodes[ino] EXCEPT !.st_nlink = links, !.m_nlookup = held] \in INodeRecords(DOMAIN INodes)
  BY <1>1, <1>3, <1>4 DEF INodeRecords
<1>8. \A q \in DOMAIN INodes : INodes'[q] = IF q = ino THEN [INodes[ino] EXCEPT !.st_nlink = links, !.m_nlookup = held]
                                            ELSE IF q = dir THEN [INodes[dir] EXCEPT !.m_children = children]
                                            ELSE INodes[q]
  BY <1>1, <1>5
<1>9. INodes' = [q \in DOMAIN INodes |-> INodes'[q]]
  BY <1>1, <1>5
<1>10. INodes' \in [DOMAIN INodes -> INodeRecords(DOMAIN INodes)]
  BY <1>1, <1>6, <1>7, <1>8, <1>9
<1>11. ASSUME NEW q \in DOMAIN INodes
       PROVE  /\ INodes'[q].type = INodes[q].type
              /\ INodes'[q].markedForDeletion = INodes[q].markedForDeletion
              /\ INodes'[q].m_nlookup = IF q = ino THEN held ELSE INodes[q].m_nlookup
              /\ INodes'[q].st_nlink = IF q = ino THEN links ELSE INodes[q].st_nlink
              /\ INodes'[q].m_children = IF q = dir THEN children ELSE INodes[q].m_children
  <2>1. INodes[q] \in INodeRecords(DOMAIN INodes)
    BY <1>1
  <2>2. CASE q = ino
    BY <1>8, <2>1, <2>2 DEF INodeRecords
  <2>3. CASE q = dir
    BY <1>8, <2>1, <2>3 DEF INodeRecords
  <2>4. CASE q # ino /\ q # dir
    BY <1>8, <2>4
  <2> QED BY <2>2, <2>3, <2>4
<1> QED BY <1>10, <1>11 DEF children, links, held

LEMMA LinkKeeps == ASSUME IInv, LinksFit, Link PROVE IInv'
<1>1. PICK ino \in DOMAIN INodes, dir \in DOMAIN INodes, name \in Names :
         /\ ~IsDirectory(ino) /\ Held(ino) /\ Named(ino)
         /\ KernelMakes(dir, name)
         /\ FuseLink(ino, dir, name)
  BY DEF Link
<1>2. /\ ino \in Nat \ {Special, Root, dir}
      /\ Usable(dir) /\ Kid(dir, name) = NoChild
  BY <1>1, Table DEF IInv, FirstTwo, Held, KernelMakes, Usable, Free, ChildINodeNumberWithName, Kid
<1>3. /\ INodes' \in [DOMAIN INodes -> INodeRecords(DOMAIN INodes)]
      /\ \A q \in DOMAIN INodes :
            /\ INodes'[q].type = INodes[q].type
            /\ INodes'[q].markedForDeletion = INodes[q].markedForDeletion
            /\ INodes'[q].m_nlookup = IF q = ino THEN INodes[q].m_nlookup + 1 ELSE INodes[q].m_nlookup
            /\ INodes'[q].st_nlink = IF q = ino THEN (INodes[q].st_nlink + 1) % LinkModulus
                                     ELSE INodes[q].st_nlink
            /\ INodes'[q].m_children = IF q = dir THEN [INodes[q].m_children EXCEPT ![name] = ino]
                                       ELSE INodes[q].m_children
  BY <1>1, <1>2, LinkHasFields DEF IInv
<1>4. DOMAIN INodes' = DOMAIN INodes /\ DeletedINodes' = DeletedINodes /\ m_reclaimingINodes' = m_reclaimingINodes
  BY <1>1, <1>3 DEF FuseLink
<1>5. EntryAdded(dir, name, ino)
  <2>1. ASSUME NEW q \in DOMAIN INodes, NEW n \in Names
        PROVE Kid(q, n)' = IF q = dir /\ n = name THEN ino ELSE Kid(q, n)
    <3>1. INodes[q].m_children \in [Names -> DOMAIN INodes \cup {NoChild}]
      BY INodeType DEF IInv
    <3> QED BY <1>3, <3>1 DEF Kid
  <2> QED BY <1>1, <1>2, <1>3, <1>4, <2>1 DEF EntryAdded
<1>6. EntriesExist' /\ NoHiddenEntries' /\ OneNameEach' /\ Hangs'
  BY <1>5, TreeAfterAdd
<1>7. \A q \in DOMAIN INodes : (Named(q)' <=> Named(q)) /\ (IsDirectory(q)' <=> IsDirectory(q)) /\ q \in Nat
  BY <1>1, <1>3, <1>5, NamesAfterAdd, Table DEF IInv, IsDirectory
<1>8. TypeOK'
  BY <1>3, <1>4, Table DEF IInv, TypeOK
<1>9. LinkCountsExact'
  <2>1. SUFFICES ASSUME NEW q \in DOMAIN INodes \ {Special} PROVE INodes'[q].st_nlink = LinkCount(q)'
    BY <1>4 DEF LinkCountsExact
  <2>2. INodes[q].st_nlink = LinkCount(q)
    BY DEF IInv, LinkCountsExact
  <2>3. NamesOf(q)' = IF q = ino THEN NamesOf(q) \cup {<<dir, name>>} ELSE NamesOf(q)
    BY <1>5, <1>7, NamesAfterAdd
  <2>4. Subdirectories(q)' = Subdirectories(q) \/ q = ino
    BY <1>1, <1>5, <1>7, SubdirectoriesAfterAdd
  <2>5. CASE q # ino
    <3>1. LinkCount(q)' = LinkCount(q)
      BY <1>7, <2>3, <2>4, <2>5 DEF LinkCount
    <3> QED BY <1>3, <2>2, <2>5, <3>1
  <2>6. CASE q = ino
    <3>1. LinkCount(q) = Cardinality(NamesOf(ino)) /\ LinkCount(q)' = Cardinality(NamesOf(ino) \cup {<<dir, name>>})
      BY <1>1, <1>7, <2>3, <2>6 DEF LinkCount
    <3>2. /\ <<dir, name>> \notin NamesOf(ino) /\ IsFiniteSet(NamesOf(ino))
          /\ NamesOf(ino) \in SUBSET ((0 .. MaxINodes + 1) \X Names) /\ Cardinality(NamesOf(ino)) \in Nat
      BY <1>5, NamesAfterAdd, NamesFinite DEF IInv
    <3>3. Cardinality(NamesOf(ino) \cup {<<dir, name>>}) = Cardinality(NamesOf(ino)) + 1
      BY <3>2, FS_AddElement
    <3>4. NamesOf(ino) \cup {<<dir, name>>} \in SUBSET ((0 .. MaxINodes + 1) \X Names)
      BY <3>2, Table DEF IInv
    <3>5. Cardinality(NamesOf(ino)) + 1 \in Nat /\ Cardinality(NamesOf(ino)) + 1 < LinkModulus
      BY <3>2, <3>3, <3>4, FewEntries
    <3>6. (Cardinality(NamesOf(ino)) + 1) % LinkModulus = Cardinality(NamesOf(ino)) + 1
      BY <3>5, SmallMod
    <3>7. INodes'[q].st_nlink = (LinkCount(q) + 1) % LinkModulus
      BY <1>3, <2>2, <2>6
    <3> HIDE DEF LinkCount
    <3> QED BY <3>1, <3>3, <3>6, <3>7
  <2> QED BY <2>5, <2>6
<1>10. \A q : InQueue(q)' <=> InQueue(q)
  BY <1>4 DEF InQueue
<1>11. \A q \in DOMAIN INodes : Held(q)' <=> Held(q)
  <2>1. INodes[ino].m_nlookup \in Nat /\ INodes[ino].m_nlookup > 0
    <3>1. INodes[ino].m_nlookup \in 0 .. MaxLookups
      BY INodeType DEF IInv
    <3> QED BY <1>1, <1>2, <3>1, NamespaceAssumption DEF Held
  <2>2. INodes'[ino].m_nlookup > 0
    <3>1. INodes'[ino].m_nlookup = INodes[ino].m_nlookup + 1
      BY <1>3
    <3> QED BY <2>1, <3>1
  <2>3. Held(ino)'
    BY <2>2 DEF Held
  <2>4. \A q \in DOMAIN INodes \ {ino} : Held(q)' <=> Held(q)
    BY <1>3 DEF Held
  <2> QED BY <1>1, <2>3, <2>4
<1>12. QueueExact'
  <2>1. NoNumberTwice'
    BY <1>4 DEF IInv, QueueExact, NoNumberTwice
  <2>2. QueueUnused'
    BY <1>4, <1>7, <1>10, <1>11 DEF IInv, QueueExact, QueueUnused
  <2>3. NoINodeLost'
    BY <1>4, <1>7, <1>10, <1>11 DEF IInv, QueueExact, NoINodeLost
  <2> QED BY <2>1, <2>2, <2>3 DEF QueueExact
<1>13. FirstTwo'
  BY <1>2, <1>3, <1>10, Table DEF IInv, FirstTwo, IsDirectory
<1>14. DeletedHaveNoName'
  BY <1>3, <1>4, <1>7 DEF IInv, DeletedHaveNoName
<1> QED BY <1>6, <1>8, <1>9, <1>12, <1>13, <1>14 DEF IInv
-----------------------------------------------------------------------------
(* An entry is removed, of a file or of an empty directory. *)
EntryRemoved(dir, name, ino) ==
    /\ dir \in DOMAIN INodes /\ name \in Names /\ Kid(dir, name) = ino
    /\ ino \in DOMAIN INodes \ {Special, Root, dir}
    /\ IsDirectory(ino) => \A n \in Names : Kid(ino, n) = NoChild
    /\ DOMAIN INodes' = DOMAIN INodes
    /\ \A q \in DOMAIN INodes, n \in Names :
          Kid(q, n)' = IF q = dir /\ n = name THEN NoChild ELSE Kid(q, n)
    /\ \A q \in DOMAIN INodes : INodes'[q].type = INodes[q].type

LEMMA NamesAfterRemove ==
    ASSUME IInv, NEW dir, NEW name, NEW ino, EntryRemoved(dir, name, ino)
    PROVE  /\ \A q \in DOMAIN INodes :
                 NamesOf(q)' = IF q = ino THEN NamesOf(q) \ {<<dir, name>>} ELSE NamesOf(q)
           /\ <<dir, name>> \in NamesOf(ino)
           /\ \A q \in DOMAIN INodes \ {ino} : Named(q)' <=> Named(q)
           /\ IsDirectory(ino) => ~(Named(ino)')
           /\ \A q \in DOMAIN INodes : IsDirectory(q)' <=> IsDirectory(q)
<1>1. \A q \in DOMAIN INodes : q # NoChild
  BY Table DEF IInv
<1>2. ASSUME NEW q \in DOMAIN INodes, NEW entry
      PROVE entry \in NamesOf(q)' <=> entry \in NamesOf(q) /\ ~(q = ino /\ entry = <<dir, name>>)
  <2>1. ASSUME entry \in NamesOf(q)' PROVE entry \in NamesOf(q) /\ ~(q = ino /\ entry = <<dir, name>>)
    <3>1. /\ entry = <<entry[1], entry[2]>> /\ entry[1] \in DOMAIN INodes /\ entry[2] \in Names
          /\ Kid(entry[1], entry[2])' = q
      BY <2>1 DEF NamesOf, Kid, EntryRemoved
    <3>2. ~(entry[1] = dir /\ entry[2] = name) /\ Kid(entry[1], entry[2]) = q
      BY <1>1, <3>1 DEF EntryRemoved
    <3> QED BY <3>1, <3>2 DEF NamesOf, Kid
  <2>2. ASSUME entry \in NamesOf(q), ~(q = ino /\ entry = <<dir, name>>) PROVE entry \in NamesOf(q)'
    <3>1. /\ entry = <<entry[1], entry[2]>> /\ entry[1] \in DOMAIN INodes /\ entry[2] \in Names
          /\ Kid(entry[1], entry[2]) = q
      BY <2>2 DEF NamesOf, Kid
    <3>2. Kid(entry[1], entry[2])' = q /\ entry[1] \in DOMAIN INodes'
      BY <2>2, <3>1 DEF EntryRemoved
    <3> QED BY <3>1, <3>2 DEF NamesOf, Kid
  <2> QED BY <2>1, <2>2
<1>3. \A q \in DOMAIN INodes :
         NamesOf(q)' = IF q = ino THEN NamesOf(q) \ {<<dir, name>>} ELSE NamesOf(q)
  BY <1>2
<1>4. <<dir, name>> \in NamesOf(ino) /\ ino \in DOMAIN INodes /\ ino # Root
  BY DEF EntryRemoved, NamesOf, Kid
<1>5. \A q \in DOMAIN INodes \ {ino} : Named(q)' <=> Named(q)
  BY <1>3 DEF Named
<1>6. ASSUME IsDirectory(ino) PROVE ~(Named(ino)')
  <2>1. \A entry \in NamesOf(ino) : entry = <<dir, name>>
    BY <1>4, <1>6 DEF IInv, OneNameEach
  <2>2. NamesOf(ino)' = {}
    BY <1>3, <1>4, <2>1
  <2> QED BY <1>4, <2>2 DEF Named
<1>7. \A q \in DOMAIN INodes : IsDirectory(q)' <=> IsDirectory(q)
  BY DEF EntryRemoved, IsDirectory
<1> QED BY <1>3, <1>4, <1>5, <1>6, <1>7

LEMMA SubdirectoriesAfterRemove ==
    ASSUME IInv, NEW dir, NEW name, NEW ino, EntryRemoved(dir, name, ino)
    PROVE  /\ \A q \in DOMAIN INodes :
                 Subdirectories(q)' = IF q = dir /\ IsDirectory(ino) THEN Subdirectories(q) \ {name}
                                      ELSE Subdirectories(q)
           /\ IsDirectory(ino) => name \in Subdirectories(dir)
<1>1. ino # NoChild
  BY Table DEF IInv, EntryRemoved
<1>2. ASSUME NEW q \in DOMAIN INodes, NEW n \in Names
      PROVE  n \in Subdirectories(q)' <=> n \in Subdirectories(q) /\ ~(q = dir /\ n = name)
  <2>1. n \in Subdirectories(q) <=> Kid(q, n) # NoChild /\ INodes[Kid(q, n)].type = "DIRECTORY"
    BY DEF Subdirectories, Free, ChildINodeNumberWithName, Kid, IsDirectory
  <2>2. n \in Subdirectories(q)' <=> Kid(q, n)' # NoChild /\ INodes'[Kid(q, n)'].type = "DIRECTORY"
    BY DEF Subdirectories, Free, ChildINodeNumberWithName, Kid, IsDirectory
  <2>3. CASE q = dir /\ n = name
    BY <2>2, <2>3 DEF EntryRemoved
  <2>4. CASE ~(q = dir /\ n = name)
    <3>1. Kid(q, n)' = Kid(q, n)
      BY <2>4 DEF EntryRemoved
    <3>2. Kid(q, n) # NoChild => INodes'[Kid(q, n)].type = INodes[Kid(q, n)].type
      BY DEF EntryRemoved, IInv, EntriesExist
    <3> QED BY <2>1, <2>2, <2>4, <3>1, <3>2
  <2> QED BY <2>3, <2>4
<1>3. name \in Names /\ (name \in Subdirectories(dir) <=> IsDirectory(ino))
  BY <1>1 DEF EntryRemoved, Subdirectories, Free, ChildINodeNumberWithName, Kid
<1>4. \A q : Subdirectories(q) \subseteq Names /\ Subdirectories(q)' \subseteq Names
  BY DEF Subdirectories
<1>5. \A q \in DOMAIN INodes :
         Subdirectories(q)' = IF q = dir /\ IsDirectory(ino) THEN Subdirectories(q) \ {name}
                              ELSE Subdirectories(q)
  BY <1>2, <1>3, <1>4
<1> QED BY <1>3, <1>5

LEMMA TreeAfterRemove ==
    ASSUME IInv, NEW dir, NEW name, NEW ino, EntryRemoved(dir, name, ino)
    PROVE  EntriesExist' /\ NoHiddenEntries' /\ OneNameEach' /\ Hangs'
<1>1. \A q \in DOMAIN INodes :
         NamesOf(q)' = IF q = ino THEN NamesOf(q) \ {<<dir, name>>} ELSE NamesOf(q)
  BY NamesAfterRemove
<1>2. \A q \in DOMAIN INodes \ {ino} : Named(q)' <=> Named(q)
  BY NamesAfterRemove
<1>3. \A q \in DOMAIN INodes : IsDirectory(q)' <=> IsDirectory(q)
  BY NamesAfterRemove
<1>4. EntriesExist'
  BY DEF EntryRemoved, IInv, EntriesExist
<1>5. NoHiddenEntries'
  <2>1. SUFFICES ASSUME NEW q \in DOMAIN INodes, ~(IsDirectory(q)') \/ ~(Named(q)'), NEW n \in Names
                 PROVE  Kid(q, n)' = NoChild
    BY DEF NoHiddenEntries, EntryRemoved
  <2>2. Kid(q, n) = NoChild
    BY <1>2, <1>3, <2>1 DEF EntryRemoved, IInv, NoHiddenEntries
  <2> QED BY <2>2 DEF EntryRemoved
<1>6. OneNameEach'
  BY <1>1, <1>3 DEF OneNameEach, EntryRemoved, IInv
<1>7. Hangs'
  <2>1. SUFFICES ASSUME NEW S \in SUBSET DOMAIN INodes, Closed(S)', NEW q \in S, Named(q)'
                 PROVE  Root \in S
    BY DEF Hangs, EntryRemoved
  <2> DEFINE Others == S \ {ino}
  <2>2. NoChild \notin DOMAIN INodes /\ \A n \in Names : Kid(ino, n) = NoChild
    BY Table DEF EntryRemoved, IInv, NoHiddenEntries
  <2>3. Closed(Others)
    <3>1. SUFFICES ASSUME NEW d \in DOMAIN INodes, NEW n \in Names, Kid(d, n) \in Others
                   PROVE  d \in Others
      BY DEF Closed
    <3>2. Kid(d, n)' = Kid(d, n) /\ d # ino
      BY <2>2, <3>1 DEF EntryRemoved
    <3> QED BY <2>1, <3>1, <3>2 DEF Closed, EntryRemoved
  <2>4. CASE q = ino
    <3>1. PICK entry \in NamesOf(ino) : entry # <<dir, name>>
      BY <1>1, <2>1, <2>4 DEF Named, EntryRemoved
    <3>2. Entry(entry[1], entry[2], ino) /\ Kid(entry[1], entry[2])' = ino
      BY <3>1, NameHasPlace DEF EntryRemoved, Entry
    <3>3. entry[1] \in S /\ entry[1] # ino /\ Named(entry[1])
      BY <2>1, <2>2, <2>4, <3>2 DEF Closed, Entry, EntryRemoved, IInv, NoHiddenEntries
    <3> QED BY <2>3, <3>3 DEF IInv, Hangs
  <2>5. CASE q # ino
    BY <1>2, <2>1, <2>3, <2>5 DEF IInv, Hangs
  <2> QED BY <2>4, <2>5
<1> QED BY <1>4, <1>5, <1>6, <1>7

(* Steps that keep the queue and the references: what may change its names *)
(* is held.                                                                *)
LEMMA QueueAfterRemove ==
    ASSUME IInv, NEW ino, Held(ino), DOMAIN INodes' = DOMAIN INodes,
           UNCHANGED <<DeletedINodes, m_reclaimingINodes>>,
           \A q \in DOMAIN INodes : INodes'[q].m_nlookup = INodes[q].m_nlookup,
           \A q \in DOMAIN INodes : INodes'[q].type = INodes[q].type,
           \A q \in DOMAIN INodes \ {ino} : Named(q)' <=> Named(q)
    PROVE  QueueExact' /\ FirstTwo'
<1>1. \A q : InQueue(q)' <=> InQueue(q)
  BY DEF InQueue
<1>2. \A q \in DOMAIN INodes : Held(q)' <=> Held(q)
  BY DEF Held
<1>3. NoNumberTwice'
  BY DEF IInv, QueueExact, NoNumberTwice
<1>4. QueueUnused'
  BY <1>1, <1>2 DEF IInv, QueueExact, QueueUnused
<1>5. NoINodeLost'
  BY <1>1, <1>2 DEF IInv, QueueExact, NoINodeLost
<1>6. FirstTwo'
  BY <1>1, Table DEF IInv, FirstTwo, IsDirectory
<1> QED BY <1>3, <1>4, <1>5, <1>6 DEF QueueExact
-----------------------------------------------------------------------------
(* An inode loses links and its directory the entry: what both handlers    *)
(* that remove a name do.  parentLinks and parentMarked are those that the *)
(* directory is left with.                                                 *)
RemovedFields(dir, name, ino, links, marked, parentLinks, parentMarked) ==
    /\ INodes' \in [DOMAIN INodes -> INodeRecords(DOMAIN INodes)]
    /\ \A q \in DOMAIN INodes :
          /\ INodes'[q].type = INodes[q].type
          /\ INodes'[q].m_nlookup = INodes[q].m_nlookup
          /\ INodes'[q].markedForDeletion = IF q = ino THEN marked
                                            ELSE IF q = dir THEN parentMarked ELSE INodes[q].markedForDeletion
          /\ INodes'[q].st_nlink = IF q = ino THEN links
                                   ELSE IF q = dir THEN parentLinks ELSE INodes[q].st_nlink
          /\ INodes'[q].m_children = IF q = dir THEN [INodes[q].m_children EXCEPT ![name] = NoChild]
                                     ELSE INodes[q].m_children

LEMMA RemovedHasFields ==
    ASSUME TypeOK, NEW ino \in DOMAIN INodes, NEW dir \in DOMAIN INodes \ {ino}, NEW name \in Names,
           NEW links \in 0 .. LinkModulus - 1, NEW marked \in BOOLEAN,
           NEW parentLinks \in 0 .. LinkModulus - 1, NEW parentMarked \in BOOLEAN,
           INodes' = [INodes EXCEPT
              ![ino] = [INodes[ino] EXCEPT !.st_nlink = links, !.markedForDeletion = marked],
              ![dir] = [INodes[dir] EXCEPT !.st_nlink = parentLinks, !.markedForDeletion = parentMarked,
                                           !.m_children = [INodes[dir].m_children EXCEPT ![name] = NoChild]]]
    PROVE  RemovedFields(dir, name, ino, links, marked, parentLinks, parentMarked)
<1> DEFINE children == [INodes[dir].m_children EXCEPT ![name] = NoChild]
           newIno == [INodes[ino] EXCEPT !.st_nlink = links, !.markedForDeletion = marked]
           newDir == [INodes[dir] EXCEPT !.st_nlink = parentLinks, !.markedForDeletion = parentMarked,
                                         !.m_children = children]
<1>1. INodes \in [DOMAIN INodes -> INodeRecords(DOMAIN INodes)]
  BY Table
<1>2. children \in [Names -> DOMAIN INodes \cup {NoChild}]
  BY INodeType
<1>3. INodes' = [INodes EXCEPT ![ino] = newIno, ![dir] = newDir]
  OBVIOUS
<1> HIDE DEF children
<1>4. newIno \in INodeRecords(DOMAIN INodes) /\ newDir \in INodeRecords(DOMAIN INodes)
  BY <1>1, <1>2 DEF INodeRecords
<1>5. /\ newIno.type = INodes[ino].type /\ newIno.m_nlookup = INodes[ino].m_nlookup
      /\ newIno.markedForDeletion = marked /\ newIno.st_nlink = links
      /\ newIno.m_children = INodes[ino].m_children
  BY <1>1 DEF INodeRecords
<1>6. /\ newDir.type = INodes[dir].type /\ newDir.m_nlookup = INodes[dir].m_nlookup
      /\ newDir.markedForDeletion = parentMarked /\ newDir.st_nlink = parentLinks
      /\ newDir.m_children = children
  BY <1>1 DEF INodeRecords
<1> HIDE DEF newIno, newDir
<1>7. /\ INodes' \in [DOMAIN INodes -> INodeRecords(DOMAIN INodes)]
      /\ INodes'[ino] = newIno /\ INodes'[dir] = newDir
      /\ \A q \in DOMAIN INodes \ {ino, dir} : INodes'[q] = INodes[q]
  BY <1>1, <1>3, <1>4
<1> QED BY <1>5, <1>6, <1>7 DEF RemovedFields, children

(* What follows for the entries. *)
LEMMA RemovedIsEntryRemoved ==
    ASSUME IInv, NEW dir \in DOMAIN INodes, NEW name \in Names, NEW ino \in DOMAIN INodes \ {dir},
           Kid(dir, name) = ino, IsDirectory(ino) => ~HasChildren(ino),
           NEW links, NEW marked, NEW parentLinks, NEW parentMarked,
           RemovedFields(dir, name, ino, links, marked, parentLinks, parentMarked)
    PROVE  EntryRemoved(dir, name, ino)
<1>1. ASSUME NEW q \in DOMAIN INodes, NEW n \in Names
      PROVE  Kid(q, n)' = IF q = dir /\ n = name THEN NoChild ELSE Kid(q, n)
  <2>1. INodes[q].m_children \in [Names -> DOMAIN INodes \cup {NoChild}]
    BY INodeType DEF IInv
  <2> QED BY <2>1 DEF RemovedFields, Kid
<1>2. ino \in DOMAIN INodes \ {Special, Root}
  BY Table DEF IInv, EntriesExist
<1>3. IsDirectory(ino) => \A n \in Names : Kid(ino, n) = NoChild
  BY DEF HasChildren, Kid
<1>4. DOMAIN INodes' = DOMAIN INodes /\ \A q \in DOMAIN INodes : INodes'[q].type = INodes[q].type
  BY DEF RemovedFields
<1> QED BY <1>1, <1>2, <1>3, <1>4 DEF EntryRemoved

(* The links and the flag that the inode of a removed name is left with. *)
LeftLinks(ino) == (INodes[ino].st_nlink - 1) % LinkModulus
LeftMarked(ino) == INodes[ino].markedForDeletion \/ LeftLinks(ino) = 0

LEMMA UnlinkEffect ==
    ASSUME Sound, NEW dir \in DOMAIN INodes, NEW ino \in DOMAIN INodes, NEW name \in Names,
           Usable(dir), Found(dir, name, ino), ~IsDirectory(ino), FuseUnlink(dir, name)
    PROVE  /\ Kid(dir, name) = ino /\ ino # dir /\ ino # Special /\ ino # Root
           /\ UNCHANGED <<DeletedINodes, m_reclaimingINodes>>
           /\ RemovedFields(dir, name, ino, LeftLinks(ino), LeftMarked(ino),
                            INodes[dir].st_nlink, INodes[dir].markedForDeletion)
<1> DEFINE left == (INodes[ino].st_nlink - 1) % LinkModulus
           marked == INodes[ino].markedForDeletion \/ left = 0
<1>1. Kid(dir, name) = ino /\ ino # dir /\ ino # Special /\ ino # Root
  BY DEF Found, ChildINodeNumberWithName, Kid, Usable, Sound, FirstTwo, EntriesExist, Free
<1>2. left \in 0 .. LinkModulus - 1 /\ marked \in BOOLEAN
  BY INodeType, NamespaceAssumption DEF Sound
<1>3. INodes \in [DOMAIN INodes -> INodeRecords(DOMAIN INodes)]
  BY Table DEF Sound
<1>4. INodes' = DeleteChild(RemoveHardLink(INodes, ino), dir, name) /\ UNCHANGED <<DeletedINodes, m_reclaimingINodes>>
  BY <1>1 DEF FuseUnlink, ChildINodeNumberWithName, Kid
<1>5. RemoveHardLink(INodes, ino)
         = [INodes EXCEPT ![ino] = [INodes[ino] EXCEPT !.st_nlink = left, !.markedForDeletion = marked]]
  BY <1>3 DEF RemoveHardLink, INodeRecords
<1> DEFINE children == [INodes[dir].m_children EXCEPT ![name] = NoChild]
           newIno == [INodes[ino] EXCEPT !.st_nlink = left, !.markedForDeletion = marked]
<1> HIDE DEF left, marked
<1>6. [INodes[dir] EXCEPT !.m_children = children]
         = [INodes[dir] EXCEPT !.st_nlink = INodes[dir].st_nlink,
                               !.markedForDeletion = INodes[dir].markedForDeletion,
                               !.m_children = children]
  <2> HIDE DEF children
  <2> QED BY <1>3 DEF INodeRecords
<1>7. INodes' = [INodes EXCEPT ![ino] = newIno, ![dir] = [INodes[dir] EXCEPT !.m_children = children]]
  <2> HIDE DEF newIno
  <2> QED BY <1>1, <1>3, <1>4, <1>5 DEF DeleteChild, newIno
<1>8. RemovedFields(dir, name, ino, left, marked, INodes[dir].st_nlink, INodes[dir].markedForDeletion)
  <2>1. INodes[dir].st_nlink \in 0 .. LinkModulus - 1 /\ INodes[dir].markedForDeletion \in BOOLEAN
    BY INodeType DEF Sound
  <2>2. INodes' = [INodes EXCEPT
           ![ino] = [INodes[ino] EXCEPT !.st_nlink = left, !.markedForDeletion = marked],
           ![dir] = [INodes[dir] EXCEPT !.st_nlink = INodes[dir].st_nlink,
                                        !.markedForDeletion = INodes[dir].markedForDeletion,
                                        !.m_children = [INodes[dir].m_children EXCEPT ![name] = NoChild]]]
    BY <1>6, <1>7
  <2> QED BY <1>1, <1>2, <2>1, <2>2, RemovedHasFields DEF Sound
<1> QED BY <1>1, <1>4, <1>8 DEF left, marked, LeftLinks, LeftMarked

LEMMA UnlinkKeeps ==
    ASSUME IInv, LinksFit, NEW dir \in DOMAIN INodes, NEW ino \in DOMAIN INodes, NEW name \in Names,
           Usable(dir), Found(dir, name, ino), ~IsDirectory(ino), FuseUnlink(dir, name)
    PROVE  IInv'
<1> DEFINE left == LeftLinks(ino)
           marked == LeftMarked(ino)
<1>1. Kid(dir, name) = ino /\ ino # dir /\ ino # Special /\ ino # Root
  BY ExactIsSound, UnlinkEffect
<1>2. UNCHANGED <<DeletedINodes, m_reclaimingINodes>>
  BY ExactIsSound, UnlinkEffect
<1>3. RemovedFields(dir, name, ino, left, marked, INodes[dir].st_nlink, INodes[dir].markedForDeletion)
  BY ExactIsSound, UnlinkEffect
<1> HIDE DEF left, marked
<1>4. EntryRemoved(dir, name, ino)
  BY <1>1, <1>3, RemovedIsEntryRemoved
<1>5. /\ \A q \in DOMAIN INodes :
           NamesOf(q)' = IF q = ino THEN NamesOf(q) \ {<<dir, name>>} ELSE NamesOf(q)
      /\ <<dir, name>> \in NamesOf(ino)
      /\ \A q \in DOMAIN INodes \ {ino} : Named(q)' <=> Named(q)
      /\ \A q \in DOMAIN INodes : IsDirectory(q)' <=> IsDirectory(q)
  BY <1>4, NamesAfterRemove
<1>6. EntriesExist' /\ NoHiddenEntries' /\ OneNameEach' /\ Hangs'
  BY <1>4, TreeAfterRemove
<1>7. DOMAIN INodes' = DOMAIN INodes
  BY <1>3 DEF RemovedFields
<1>8. TypeOK'
  BY <1>2, <1>3, <1>7, Table DEF IInv, TypeOK, RemovedFields
<1>9. QueueExact' /\ FirstTwo'
  BY <1>2, <1>3, <1>5, <1>7, QueueAfterRemove DEF RemovedFields, Found
<1>10. /\ INodes[ino].st_nlink = Cardinality(NamesOf(ino))
       /\ left = Cardinality(NamesOf(ino)')
  <2>1. INodes[ino].st_nlink = Cardinality(NamesOf(ino))
    BY <1>1 DEF IInv, LinkCountsExact, LinkCount
  <2>2. IsFiniteSet(NamesOf(ino)) /\ Cardinality(NamesOf(ino)) \in Nat /\ Cardinality(NamesOf(ino)) < LinkModulus
    BY NamesFinite DEF IInv
  <2>3. NamesOf(ino)' = NamesOf(ino) \ {<<dir, name>>}
    BY <1>5
  <2>4. /\ IsFiniteSet(NamesOf(ino)')
        /\ Cardinality(NamesOf(ino)') = Cardinality(NamesOf(ino)) - 1
    <3>1. <<dir, name>> \in NamesOf(ino)
      BY <1>5
    <3>2. /\ IsFiniteSet(NamesOf(ino) \ {<<dir, name>>})
          /\ Cardinality(NamesOf(ino) \ {<<dir, name>>}) = Cardinality(NamesOf(ino)) - 1
      BY <2>2, <3>1, FS_RemoveElement
    <3> QED BY <2>3, <3>2
  <2>5. Cardinality(NamesOf(ino)') \in Nat
    BY <2>4, FS_CardinalityType
  <2>6. Cardinality(NamesOf(ino)) - 1 \in Nat /\ Cardinality(NamesOf(ino)) - 1 < LinkModulus
    BY <2>2, <2>4, <2>5, NamespaceAssumption
  <2>7. (Cardinality(NamesOf(ino)) - 1) % LinkModulus = Cardinality(NamesOf(ino)) - 1
    BY <2>6, SmallMod
  <2> QED BY <2>1, <2>4, <2>7 DEF left, LeftLinks
<1>11. LinkCountsExact'
  <2>1. SUFFICES ASSUME NEW q \in DOMAIN INodes \ {Special} PROVE INodes'[q].st_nlink = LinkCount(q)'
    BY <1>7 DEF LinkCountsExact
  <2>2. CASE q = ino
    <3>1. LinkCount(q)' = Cardinality(NamesOf(ino)')
      BY <1>5, <2>2 DEF LinkCount
    <3> QED BY <1>3, <1>10, <2>2, <3>1 DEF RemovedFields
  <2>3. CASE q # ino
    <3>1. Subdirectories(q)' = Subdirectories(q)
      BY <1>4, SubdirectoriesAfterRemove
    <3>2. LinkCount(q)' = LinkCount(q)
      BY <1>5, <2>3, <3>1 DEF LinkCount
    <3>3. INodes'[q].st_nlink = INodes[q].st_nlink
      BY <1>3, <2>3 DEF RemovedFields
    <3> QED BY <3>2, <3>3 DEF IInv, LinkCountsExact
  <2> QED BY <2>2, <2>3
<1>12. DeletedHaveNoName'
  <2>1. SUFFICES ASSUME NEW q \in DOMAIN INodes, INodes'[q].markedForDeletion PROVE ~(Named(q)')
    BY <1>7 DEF DeletedHaveNoName
  <2>2. CASE q = ino
    <3>1. Named(ino)
      BY <1>5 DEF Named
    <3>2. left = 0
      BY <1>3, <2>1, <2>2, <3>1 DEF RemovedFields, left, marked, LeftMarked, IInv, DeletedHaveNoName
    <3>3. IsFiniteSet(NamesOf(ino)')
      BY <1>5, NamesFinite, FS_RemoveElement DEF IInv
    <3>4. NamesOf(ino)' = {}
      BY <1>10, <3>2, <3>3, FS_EmptySet
    <3> QED BY <1>1, <2>2, <3>4 DEF Named
  <2>3. CASE q # ino
    <3>1. INodes[q].markedForDeletion
      BY <1>3, <2>1, <2>3 DEF RemovedFields
    <3> QED BY <1>5, <2>3, <3>1 DEF IInv, DeletedHaveNoName
  <2> QED BY <2>2, <2>3
<1> QED BY <1>6, <1>8, <1>9, <1>11, <1>12 DEF IInv

(* Those of a removed directory, which has none left. *)
AllMarked(ino) == INodes[ino].markedForDeletion \/ INodes[ino].st_nlink # 0

LEMMA RmdirEffect ==
    ASSUME Sound, NEW dir \in DOMAIN INodes, NEW ino \in DOMAIN INodes, NEW name \in Names,
           Usable(dir), Found(dir, name, ino), FuseRmdir(dir, name)
    PROVE  /\ Kid(dir, name) = ino /\ ino # dir /\ ino # NoChild /\ ino # Special /\ ino # Root
           /\ IsDirectory(ino) /\ ~HasChildren(ino)
           /\ UNCHANGED <<DeletedINodes, m_reclaimingINodes>>
           /\ RemovedFields(dir, name, ino, 0, AllMarked(ino), LeftLinks(dir), LeftMarked(dir))
<1> DEFINE left == (INodes[dir].st_nlink - 1) % LinkModulus
           parentMarked == INodes[dir].markedForDeletion \/ left = 0
           marked == INodes[ino].markedForDeletion \/ INodes[ino].st_nlink # 0
<1>1. /\ Kid(dir, name) = ino /\ ino # NoChild /\ ino # Special /\ ino # Root
      /\ IsDirectory(ino) /\ ~HasChildren(ino)
  BY DEF Found, ChildINodeNumberWithName, Kid, Sound, EntriesExist, Free, FuseRmdir
<1>2. ino # dir
  BY <1>1 DEF HasChildren, Kid
<1>3. INodes \in [DOMAIN INodes -> INodeRecords(DOMAIN INodes)]
  BY Table DEF Sound
<1>4. /\ INodes' = DeleteChild(RemoveAllHardLinks(RemoveHardLink(INodes, dir), ino), dir, name)
      /\ UNCHANGED <<DeletedINodes, m_reclaimingINodes>>
  BY <1>1 DEF FuseRmdir, ChildINodeNumberWithName, Kid
<1>5. left \in 0 .. LinkModulus - 1 /\ parentMarked \in BOOLEAN /\ marked \in BOOLEAN
  BY INodeType, NamespaceAssumption DEF Sound
<1> DEFINE children == [INodes[dir].m_children EXCEPT ![name] = NoChild]
           newIno == [INodes[ino] EXCEPT !.st_nlink = 0, !.markedForDeletion = marked]
           oneLess == [INodes[dir] EXCEPT !.st_nlink = left, !.markedForDeletion = parentMarked]
           newDir == [INodes[dir] EXCEPT !.st_nlink = left, !.markedForDeletion = parentMarked,
                                         !.m_children = children]
<1>6. RemoveHardLink(INodes, dir) = [INodes EXCEPT ![dir] = oneLess]
  BY <1>3 DEF RemoveHardLink, INodeRecords
<1>7. [[INodes[ino] EXCEPT !.markedForDeletion = marked] EXCEPT !.st_nlink = 0] = newIno
  <2> HIDE DEF marked
  <2> QED BY <1>3 DEF INodeRecords
<1>8. [oneLess EXCEPT !.m_children = [@ EXCEPT ![name] = NoChild]] = newDir
  <2> HIDE DEF left, parentMarked
  <2>1. oneLess.m_children = INodes[dir].m_children
    BY <1>3 DEF INodeRecords
  <2> QED BY <1>3, <2>1 DEF INodeRecords
<1> HIDE DEF oneLess, newIno, newDir, left, parentMarked, marked
<1>9. INodes' = [INodes EXCEPT ![ino] = newIno, ![dir] = newDir]
  <2> DEFINE t1 == [INodes EXCEPT ![dir] = oneLess]
             t2 == [t1 EXCEPT ![ino] = newIno]
  <2>1. RemoveAllHardLinks(t1, ino) = t2
    <3>1. t1[ino] = INodes[ino]
      BY <1>2, <1>3
    <3> HIDE DEF t1
    <3>2. RemoveAllHardLinks(t1, ino)
             = [t1 EXCEPT ![ino] = [[INodes[ino] EXCEPT !.markedForDeletion = marked] EXCEPT !.st_nlink = 0]]
      BY <3>1 DEF RemoveAllHardLinks, marked
    <3> QED BY <1>7, <3>2
  <2>2. DeleteChild(t2, dir, name) = [t2 EXCEPT ![dir] = newDir]
    <3>1. t2[dir] = oneLess
      BY <1>2, <1>3
    <3> HIDE DEF t2
    <3> QED BY <1>8, <3>1 DEF DeleteChild
  <2>3. [t2 EXCEPT ![dir] = newDir] = [INodes EXCEPT ![ino] = newIno, ![dir] = newDir]
    BY <1>2, <1>3
  <2> QED BY <1>4, <1>6, <2>1, <2>2, <2>3
<1>10. RemovedFields(dir, name, ino, 0, marked, left, parentMarked)
  <2>1. 0 \in 0 .. LinkModulus - 1
    BY NamespaceAssumption
  <2> QED BY <1>2, <1>5, <1>9, <2>1, RemovedHasFields DEF Sound, newIno, newDir
<1> QED BY <1>1, <1>2, <1>4, <1>10 DEF left, parentMarked, marked, LeftLinks, LeftMarked, AllMarked

LEMMA RmdirKeeps ==
    ASSUME IInv, LinksFit, NEW dir \in DOMAIN INodes, NEW ino \in DOMAIN INodes, NEW name \in Names,
           Usable(dir), Found(dir, name, ino), FuseRmdir(dir, name)
    PROVE  IInv'
<1> DEFINE left == LeftLinks(dir)
           parentMarked == LeftMarked(dir)
           marked == AllMarked(ino)
<1>1. /\ Kid(dir, name) = ino /\ ino # NoChild /\ ino # Special /\ ino # Root
      /\ IsDirectory(ino) /\ ~HasChildren(ino)
  BY ExactIsSound, RmdirEffect
<1>2. ino # dir
  BY ExactIsSound, RmdirEffect
<1>3. UNCHANGED <<DeletedINodes, m_reclaimingINodes>>
  BY ExactIsSound, RmdirEffect
<1>4. RemovedFields(dir, name, ino, 0, marked, left, parentMarked)
  BY ExactIsSound, RmdirEffect
<1> HIDE DEF left, parentMarked, marked
<1>5. EntryRemoved(dir, name, ino)
  BY <1>1, <1>2, <1>4, RemovedIsEntryRemoved
<1>6. /\ \A q \in DOMAIN INodes :
           NamesOf(q)' = IF q = ino THEN NamesOf(q) \ {<<dir, name>>} ELSE NamesOf(q)
      /\ \A q \in DOMAIN INodes \ {ino} : Named(q)' <=> Named(q)
      /\ \A q \in DOMAIN INodes : IsDirectory(q)' <=> IsDirectory(q)
      /\ ~(Named(ino)')
  BY <1>1, <1>5, NamesAfterRemove
<1>7. EntriesExist' /\ NoHiddenEntries' /\ OneNameEach' /\ Hangs'
  BY <1>5, TreeAfterRemove
<1>8. DOMAIN INodes' = DOMAIN INodes
  BY <1>4 DEF RemovedFields
<1>9. TypeOK'
  BY <1>3, <1>4, <1>8, Table DEF IInv, TypeOK, RemovedFields
<1>10. QueueExact' /\ FirstTwo'
  BY <1>3, <1>4, <1>6, <1>8, QueueAfterRemove DEF RemovedFields, Found
<1>11. left = LinkCount(dir)' /\ left # 0
  <2>1. IsDirectory(dir) /\ Named(dir)
    BY DEF Usable
  <2>2. dir # Special
    BY <2>1 DEF IInv, FirstTwo
  <2>3. /\ name \in Subdirectories(dir)
        /\ Subdirectories(dir)' = Subdirectories(dir) \ {name}
    BY <1>1, <1>5, SubdirectoriesAfterRemove
  <2>4. /\ IsFiniteSet(Subdirectories(dir)) /\ Cardinality(Subdirectories(dir)) \in Nat
        /\ Cardinality(Subdirectories(dir)) + 3 < LinkModulus
    BY SubdirectoriesFinite
  <2>5. /\ Cardinality(Subdirectories(dir) \ {name}) = Cardinality(Subdirectories(dir)) - 1
        /\ IsFiniteSet(Subdirectories(dir) \ {name})
    BY <2>3, <2>4, FS_RemoveElement
  <2>6. Cardinality(Subdirectories(dir) \ {name}) \in Nat
    BY <2>5, FS_CardinalityType
  <2>7. LinkCount(dir) = (IF dir = Root THEN 3 ELSE 2) + Cardinality(Subdirectories(dir))
    BY <2>1 DEF LinkCount
  <2>8. LinkCount(dir)' = (IF dir = Root THEN 3 ELSE 2) + Cardinality(Subdirectories(dir) \ {name})
    BY <1>2, <1>6, <2>1, <2>3 DEF LinkCount
  <2>9. INodes[dir].st_nlink = LinkCount(dir)
    BY <2>2 DEF IInv, LinkCountsExact
  <2> HIDE DEF LinkCount
  <2>10. /\ LinkCount(dir) - 1 \in Nat /\ LinkCount(dir) - 1 < LinkModulus /\ LinkCount(dir) - 1 # 0
         /\ LinkCount(dir)' = LinkCount(dir) - 1
    BY <2>4, <2>5, <2>6, <2>7, <2>8, NamespaceAssumption
  <2>11. (LinkCount(dir) - 1) % LinkModulus = LinkCount(dir) - 1
    BY <2>10, SmallMod
  <2> QED BY <2>9, <2>10, <2>11 DEF left, LeftLinks
<1>12. LinkCountsExact'
  <2>1. SUFFICES ASSUME NEW q \in DOMAIN INodes \ {Special} PROVE INodes'[q].st_nlink = LinkCount(q)'
    BY <1>8 DEF LinkCountsExact
  <2>2. CASE q = ino
    <3>1. LinkCount(ino)' = 0
      BY <1>1, <1>6 DEF LinkCount
    <3> QED BY <1>4, <2>2, <3>1 DEF RemovedFields
  <2>3. CASE q = dir
    BY <1>2, <1>4, <1>11, <2>3 DEF RemovedFields
  <2>4. CASE q # ino /\ q # dir
    <3>1. Subdirectories(q)' = Subdirectories(q)
      BY <1>5, <2>4, SubdirectoriesAfterRemove
    <3>2. LinkCount(q)' = LinkCount(q)
      BY <1>6, <2>4, <3>1 DEF LinkCount
    <3>3. INodes'[q].st_nlink = INodes[q].st_nlink
      BY <1>4, <2>4 DEF RemovedFields
    <3> QED BY <3>2, <3>3 DEF IInv, LinkCountsExact
  <2> QED BY <2>2, <2>3, <2>4
<1>13. DeletedHaveNoName'
  <2>1. SUFFICES ASSUME NEW q \in DOMAIN INodes, q # ino, INodes'[q].markedForDeletion PROVE ~(Named(q)')
    BY <1>6, <1>8 DEF DeletedHaveNoName
  <2>2. INodes[q].markedForDeletion
    BY <1>4, <1>11, <2>1 DEF RemovedFields, left, parentMarked, LeftMarked
  <2> QED BY <1>6, <2>1, <2>2 DEF IInv, DeletedHaveNoName
<1> QED BY <1>7, <1>9, <1>10, <1>12, <1>13 DEF IInv

LEMMA RemoveKeeps == ASSUME IInv, LinksFit, Remove PROVE IInv'
<1>1. PICK dir \in DOMAIN INodes, ino \in DOMAIN INodes, name \in Names :
         /\ Usable(dir) /\ Found(dir, name, ino)
         /\ IF IsDirectory(ino) THEN FuseRmdir(dir, name) ELSE FuseUnlink(dir, name)
  BY DEF Remove
<1> QED BY <1>1, RmdirKeeps, UnlinkKeeps
-----------------------------------------------------------------------------
(* An entry is moved to a free name; that of a directory stays where it is. *)
EntryMoved(dir, name, newdir, newname, ino) ==
    /\ dir \in DOMAIN INodes /\ name \in Names /\ Kid(dir, name) = ino
    /\ newdir \in DOMAIN INodes /\ newname \in Names /\ Kid(newdir, newname) = NoChild
    /\ Usable(newdir)
    /\ ino \in DOMAIN INodes \ {Special, Root}
    /\ IsDirectory(ino) => dir = newdir
    /\ INodes' \in [DOMAIN INodes -> INodeRecords(DOMAIN INodes)]
    /\ \A q \in DOMAIN INodes :
          /\ INodes'[q].type = INodes[q].type
          /\ INodes'[q].st_nlink = INodes[q].st_nlink
          /\ INodes'[q].m_nlookup = INodes[q].m_nlookup
          /\ INodes'[q].markedForDeletion = INodes[q].markedForDeletion
    /\ \A q \in DOMAIN INodes, n \in Names :
          Kid(q, n)' = IF q = dir /\ n = name THEN NoChild
                       ELSE IF q = newdir /\ n = newname THEN ino ELSE Kid(q, n)
    /\ UNCHANGED <<DeletedINodes, m_reclaimingINodes>>

(* What a rename makes of the entries of the table t. *)
LEMMA EntryMovedIn ==
    ASSUME NEW t \in [DOMAIN INodes -> INodeRecords(DOMAIN INodes)],
           NEW dir \in DOMAIN INodes, NEW newdir \in DOMAIN INodes, NEW name \in Names, NEW newname \in Names,
           NEW ino \in DOMAIN INodes,
           INodes' = DeleteChild(UpdateChild(t, newdir, newname, ino), dir, name)
    PROVE  /\ INodes' \in [DOMAIN INodes -> INodeRecords(DOMAIN INodes)]
           /\ \A q \in DOMAIN INodes :
                 /\ INodes'[q].type = t[q].type
                 /\ INodes'[q].st_nlink = t[q].st_nlink
                 /\ INodes'[q].m_nlookup = t[q].m_nlookup
                 /\ INodes'[q].markedForDeletion = t[q].markedForDeletion
           /\ \A q \in DOMAIN INodes, n \in Names :
                 Kid(q, n)' = IF q = dir /\ n = name THEN NoChild
                              ELSE IF q = newdir /\ n = newname THEN ino ELSE t[q].m_children[n]
<1> DEFINE named == [t[newdir].m_children EXCEPT ![newname] = ino]
           t1 == [t EXCEPT ![newdir] = [t[newdir] EXCEPT !.m_children = named]]
           removed == [t1[dir].m_children EXCEPT ![name] = NoChild]
           t2 == [t1 EXCEPT ![dir] = [t1[dir] EXCEPT !.m_children = removed]]
<1>1. INodes' = t2
  <2>1. UpdateChild(t, newdir, newname, ino) = t1
    BY DEF UpdateChild
  <2> HIDE DEF t1
  <2>2. DeleteChild(t1, dir, name) = t2
    BY DEF DeleteChild
  <2> QED BY <2>1, <2>2
<1>2. \A q \in DOMAIN INodes : t[q].m_children \in [Names -> DOMAIN INodes \cup {NoChild}]
  BY DEF INodeRecords
<1>3. named \in [Names -> DOMAIN INodes \cup {NoChild}]
  BY <1>2
<1>4. /\ t1 \in [DOMAIN INodes -> INodeRecords(DOMAIN INodes)]
      /\ t1[newdir].m_children = named
      /\ \A q \in DOMAIN INodes :
            /\ t1[q].type = t[q].type
            /\ t1[q].st_nlink = t[q].st_nlink
            /\ t1[q].m_nlookup = t[q].m_nlookup
            /\ t1[q].markedForDeletion = t[q].markedForDeletion
            /\ q # newdir => t1[q].m_children = t[q].m_children
  <2> HIDE DEF named
  <2> QED BY <1>3 DEF INodeRecords
<1> HIDE DEF t1
<1>5. removed \in [Names -> DOMAIN INodes \cup {NoChild}]
  <2>1. t1[dir].m_children \in [Names -> DOMAIN INodes \cup {NoChild}]
    BY <1>4 DEF INodeRecords
  <2> QED BY <2>1
<1>6. /\ t2 \in [DOMAIN INodes -> INodeRecords(DOMAIN INodes)]
      /\ t2[dir].m_children = removed
      /\ \A q \in DOMAIN INodes :
            /\ t2[q].type = t1[q].type
            /\ t2[q].st_nlink = t1[q].st_nlink
            /\ t2[q].m_nlookup = t1[q].m_nlookup
            /\ t2[q].markedForDeletion = t1[q].markedForDeletion
            /\ q # dir => t2[q].m_children = t1[q].m_children
  <2>1. t1 \in [DOMAIN INodes -> INodeRecords(DOMAIN INodes)]
    BY <1>4
  <2> HIDE DEF removed
  <2>2. [t1[dir] EXCEPT !.m_children = removed] \in INodeRecords(DOMAIN INodes)
    BY <1>5, <2>1 DEF INodeRecords
  <2>3. [t1[dir] EXCEPT !.m_children = removed].m_children = removed
    BY <2>1 DEF INodeRecords
  <2> QED BY <2>1, <2>2, <2>3 DEF INodeRecords
<1>7. ASSUME NEW q \in DOMAIN INodes, NEW n \in Names
      PROVE  Kid(q, n)' = IF q = dir /\ n = name THEN NoChild
                          ELSE IF q = newdir /\ n = newname THEN ino ELSE t[q].m_children[n]
  <2>1. t1[q].m_children[n] = IF q = newdir /\ n = newname THEN ino ELSE t[q].m_children[n]
    BY <1>2, <1>4
  <2>2. t2[q].m_children[n] = IF q = dir /\ n = name THEN NoChild ELSE t1[q].m_children[n]
    <3>1. t1[q].m_children \in [Names -> DOMAIN INodes \cup {NoChild}]
      BY <1>4 DEF INodeRecords
    <3> HIDE DEF t2
    <3> QED BY <1>6, <3>1
  <2> HIDE DEF t2
  <2> QED BY <1>1, <2>1, <2>2 DEF Kid
<1> HIDE DEF t2
<1> QED BY <1>1, <1>4, <1>6, <1>7

LEMMA RenameEffect ==
    ASSUME IInv, PlainRenames, Rename
    PROVE  \E dir, newdir, name, newname, ino : EntryMoved(dir, name, newdir, newname, ino)
<1>1. PICK dir \in DOMAIN INodes, newdir \in DOMAIN INodes, name \in Names, newname \in Names :
         KernelRenames(dir, name, newdir, newname) /\ FuseRename(dir, name, newdir, newname)
  BY DEF Rename
<1>2. PICK ino : ino = Kid(dir, name)
  OBVIOUS
<1>3. /\ Usable(newdir) /\ Kid(newdir, newname) = NoChild /\ ino # NoChild
      /\ IsDirectory(ino) => dir = newdir
  <2>1. RenameKind(dir, ino, newdir, newname) = "rename" /\ Usable(newdir) /\ ~Free(dir, name)
    BY <1>1, <1>2 DEF KernelRenames, PlainRenames, ChildINodeNumberWithName, Kid, FuseRename
  <2> QED BY <1>2, <2>1 DEF RenameKind, Free, ChildINodeNumberWithName, Kid
<1>4. ino \in DOMAIN INodes \ {Special, Root}
  BY <1>2, <1>3 DEF IInv, EntriesExist
<1>5. /\ INodes' = DeleteChild(UpdateChild(INodes, newdir, newname, ino), dir, name)
      /\ UNCHANGED <<DeletedINodes, m_reclaimingINodes>>
  <2>1. ~(ChildINodeNumberWithName(newdir, newname) > 0)
    BY <1>3 DEF ChildINodeNumberWithName, Kid, NoChild
  <2> QED BY <1>1, <1>2, <2>1 DEF FuseRename, ChildINodeNumberWithName, Kid
<1>6. INodes \in [DOMAIN INodes -> INodeRecords(DOMAIN INodes)]
  BY Table DEF IInv
<1>7. /\ INodes' \in [DOMAIN INodes -> INodeRecords(DOMAIN INodes)]
      /\ \A q \in DOMAIN INodes :
            /\ INodes'[q].type = INodes[q].type
            /\ INodes'[q].st_nlink = INodes[q].st_nlink
            /\ INodes'[q].m_nlookup = INodes[q].m_nlookup
            /\ INodes'[q].markedForDeletion = INodes[q].markedForDeletion
      /\ \A q \in DOMAIN INodes, n \in Names :
            Kid(q, n)' = IF q = dir /\ n = name THEN NoChild
                         ELSE IF q = newdir /\ n = newname THEN ino ELSE INodes[q].m_children[n]
  BY <1>4, <1>5, <1>6, EntryMovedIn
<1>8. EntryMoved(dir, name, newdir, newname, ino)
  BY <1>2, <1>3, <1>4, <1>5, <1>7 DEF EntryMoved, Kid
<1> QED BY <1>8

LEMMA RenameKeeps == ASSUME IInv, Careful, Rename PROVE IInv'
<1>1. PICK dir, newdir, name, newname, ino : EntryMoved(dir, name, newdir, newname, ino)
  BY RenameEffect DEF Careful
<1>2. DOMAIN INodes' = DOMAIN INodes /\ \A q \in DOMAIN INodes : q # NoChild
  BY <1>1, Table DEF EntryMoved, IInv
<1>3. ASSUME NEW q \in DOMAIN INodes, NEW entry
      PROVE  entry \in NamesOf(q)' <=>
                IF q = ino THEN entry = <<newdir, newname>> \/ (entry \in NamesOf(q) /\ entry # <<dir, name>>)
                ELSE entry \in NamesOf(q)
  <2>1. entry \in NamesOf(q)' <=> /\ entry = <<entry[1], entry[2]>> /\ entry[1] \in DOMAIN INodes
                                  /\ entry[2] \in Names /\ Kid(entry[1], entry[2])' = q
    BY <1>2 DEF NamesOf, Kid
  <2>2. entry \in NamesOf(q) <=> /\ entry = <<entry[1], entry[2]>> /\ entry[1] \in DOMAIN INodes
                                 /\ entry[2] \in Names /\ Kid(entry[1], entry[2]) = q
    BY DEF NamesOf, Kid
  <2>3. /\ entry[1] \in DOMAIN INodes /\ entry[2] \in Names =>
              Kid(entry[1], entry[2])' = IF entry[1] = dir /\ entry[2] = name THEN NoChild
                                         ELSE IF entry[1] = newdir /\ entry[2] = newname THEN ino
                                         ELSE Kid(entry[1], entry[2])
        /\ Kid(dir, name) = ino /\ Kid(newdir, newname) = NoChild
        /\ newdir \in DOMAIN INodes /\ newname \in Names
        /\ ino # NoChild /\ q # NoChild
    BY <1>1, <1>2 DEF EntryMoved
  <2> QED BY <2>1, <2>2, <2>3
<1>4. <<dir, name>> \in NamesOf(ino) /\ <<newdir, newname>> \notin NamesOf(ino) /\ ino \in DOMAIN INodes
  BY <1>1, <1>2 DEF EntryMoved, NamesOf, Kid
<1>5. /\ \A q \in DOMAIN INodes \ {ino} : NamesOf(q)' = NamesOf(q)
      /\ NamesOf(ino)' = (NamesOf(ino) \ {<<dir, name>>}) \cup {<<newdir, newname>>}
  <2>1. \A q \in DOMAIN INodes \ {ino} : NamesOf(q)' = NamesOf(q)
    BY <1>3
  <2> QED BY <1>3, <1>4, <2>1
<1>6. \A q \in DOMAIN INodes : Named(q)' <=> Named(q)
  BY <1>4, <1>5 DEF Named
<1>7. \A q \in DOMAIN INodes : IsDirectory(q)' <=> IsDirectory(q)
  BY <1>1 DEF EntryMoved, IsDirectory
<1>8. EntriesExist'
  BY <1>1, <1>2 DEF EntryMoved, IInv, EntriesExist
<1>9. NoHiddenEntries'
  <2>1. SUFFICES ASSUME NEW q \in DOMAIN INodes, ~IsDirectory(q) \/ ~Named(q), NEW n \in Names
                 PROVE  Kid(q, n)' = NoChild
    BY <1>2, <1>6, <1>7 DEF NoHiddenEntries
  <2>2. Kid(q, n) = NoChild /\ q # newdir
    BY <1>1, <2>1 DEF EntryMoved, Usable, IInv, NoHiddenEntries
  <2> QED BY <1>1, <2>2 DEF EntryMoved
<1>10. OneNameEach'
  <2>1. SUFFICES ASSUME NEW q \in DOMAIN INodes, IsDirectory(q),
                        NEW entry \in NamesOf(q)', NEW other \in NamesOf(q)'
                 PROVE  entry = other
    BY <1>2, <1>7 DEF OneNameEach
  <2> QED BY <1>3, <1>4, <2>1 DEF IInv, OneNameEach
<1>11. Cardinality(NamesOf(ino)') = Cardinality(NamesOf(ino))
  <2> DEFINE rest == NamesOf(ino) \ {<<dir, name>>}
  <2>1. IsFiniteSet(NamesOf(ino)) /\ Cardinality(NamesOf(ino)) \in Nat
    BY NamesFinite DEF IInv, Careful
  <2>2. IsFiniteSet(rest) /\ Cardinality(rest) = Cardinality(NamesOf(ino)) - 1
    BY <1>4, <2>1, FS_RemoveElement
  <2>3. <<newdir, newname>> \notin rest
    BY <1>4
  <2> HIDE DEF rest
  <2>4. Cardinality(rest \cup {<<newdir, newname>>}) = Cardinality(rest) + 1
    BY <2>2, <2>3, FS_AddElement
  <2>5. NamesOf(ino)' = rest \cup {<<newdir, newname>>}
    BY <1>5 DEF rest
  <2> QED BY <2>1, <2>2, <2>4, <2>5
<1>12. ASSUME NEW q \in DOMAIN INodes
       PROVE  Cardinality(Subdirectories(q)') = Cardinality(Subdirectories(q))
  <2>1. ASSUME NEW n \in Names
        PROVE  n \in Subdirectories(q)' <=>
                  IF q = dir /\ n = name THEN FALSE
                  ELSE IF q = newdir /\ n = newname THEN IsDirectory(ino)
                  ELSE n \in Subdirectories(q)
    <3>1. n \in Subdirectories(q) <=> Kid(q, n) # NoChild /\ INodes[Kid(q, n)].type = "DIRECTORY"
      BY DEF Subdirectories, Free, ChildINodeNumberWithName, Kid, IsDirectory
    <3>2. n \in Subdirectories(q)' <=> Kid(q, n)' # NoChild /\ INodes'[Kid(q, n)'].type = "DIRECTORY"
      BY DEF Subdirectories, Free, ChildINodeNumberWithName, Kid, IsDirectory
    <3>3. Kid(q, n) # NoChild => INodes'[Kid(q, n)].type = INodes[Kid(q, n)].type
      BY <1>1 DEF EntryMoved, IInv, EntriesExist
    <3>4. INodes'[ino].type = INodes[ino].type /\ ino # NoChild
      BY <1>1, <1>2, <1>4 DEF EntryMoved
    <3>5. Kid(q, n)' = IF q = dir /\ n = name THEN NoChild
                       ELSE IF q = newdir /\ n = newname THEN ino ELSE Kid(q, n)
      BY <1>1 DEF EntryMoved
    <3> QED BY <3>1, <3>2, <3>3, <3>4, <3>5 DEF IsDirectory
  <2>2. Subdirectories(q) \subseteq Names /\ Subdirectories(q)' \subseteq Names
    BY DEF Subdirectories
  <2>3. /\ newname \notin Subdirectories(newdir)
        /\ name \in Subdirectories(dir) <=> IsDirectory(ino)
        /\ name \in Names /\ newname \in Names
    BY <1>1, <1>2 DEF EntryMoved, Subdirectories, Free, ChildINodeNumberWithName, Kid
  <2>4. CASE ~IsDirectory(ino)
    <3>1. Subdirectories(q)' = Subdirectories(q)
      BY <2>1, <2>2, <2>3, <2>4
    <3> QED BY <3>1
  <2>5. CASE IsDirectory(ino)
    <3>1. dir = newdir
      BY <1>1, <2>5 DEF EntryMoved
    <3>2. CASE q # dir
      <4>1. Subdirectories(q)' = Subdirectories(q)
        BY <2>1, <2>2, <3>1, <3>2
      <4> QED BY <4>1
    <3>3. CASE q = dir
      <4> DEFINE rest == Subdirectories(q) \ {name}
      <4>1. Subdirectories(q)' = rest \cup {newname}
        BY <2>1, <2>2, <2>3, <2>5, <3>1, <3>3
      <4>2. IsFiniteSet(Subdirectories(q)) /\ Cardinality(Subdirectories(q)) \in Nat
        BY SubdirectoriesFinite DEF Careful
      <4>3. IsFiniteSet(rest) /\ Cardinality(rest) = Cardinality(Subdirectories(q)) - 1
        BY <2>3, <2>5, <3>3, <4>2, FS_RemoveElement
      <4>4. newname \notin rest
        BY <2>3, <3>1, <3>3
      <4> HIDE DEF rest
      <4>5. Cardinality(rest \cup {newname}) = Cardinality(rest) + 1
        BY <4>3, <4>4, FS_AddElement
      <4> QED BY <4>1, <4>2, <4>3, <4>5
    <3> QED BY <3>2, <3>3
  <2> QED BY <2>4, <2>5
<1>13. LinkCountsExact'
  <2>1. SUFFICES ASSUME NEW q \in DOMAIN INodes \ {Special} PROVE INodes'[q].st_nlink = LinkCount(q)'
    BY <1>2 DEF LinkCountsExact
  <2>2. Cardinality(NamesOf(q)') = Cardinality(NamesOf(q))
    BY <1>5, <1>11
  <2>3. LinkCount(q)' = LinkCount(q)
    BY <1>6, <1>7, <1>12, <2>2 DEF LinkCount
  <2> QED BY <1>1, <2>3 DEF EntryMoved, IInv, LinkCountsExact
<1>14. \A q : InQueue(q)' <=> InQueue(q)
  BY <1>1 DEF EntryMoved, InQueue
<1>15. \A q \in DOMAIN INodes : Held(q)' <=> Held(q)
  BY <1>1 DEF EntryMoved, Held
<1>16. QueueExact'
  <2>1. NoNumberTwice'
    BY <1>1 DEF EntryMoved, IInv, QueueExact, NoNumberTwice
  <2>2. QueueUnused'
    BY <1>2, <1>6, <1>14, <1>15 DEF IInv, QueueExact, QueueUnused
  <2>3. NoINodeLost'
    BY <1>2, <1>6, <1>14, <1>15 DEF IInv, QueueExact, NoINodeLost
  <2> QED BY <2>1, <2>2, <2>3 DEF QueueExact
<1>17. FirstTwo'
  BY <1>1, <1>14, Table DEF EntryMoved, IInv, FirstTwo, IsDirectory
<1>18. DeletedHaveNoName'
  BY <1>1, <1>2, <1>6 DEF EntryMoved, IInv, DeletedHaveNoName
<1>19. TypeOK'
  BY <1>1, <1>2, Table DEF EntryMoved, IInv, TypeOK
<1>20. Hangs'
  <2>1. SUFFICES ASSUME NEW S \in SUBSET DOMAIN INodes, Closed(S)', NEW q \in S, Named(q)'
                 PROVE  Root \in S
    BY <1>2 DEF Hangs
  <2>2. Named(q) /\ Named(newdir) /\ IsDirectory(newdir)
    BY <1>1, <1>6, <2>1 DEF EntryMoved, Usable
  <2>3. Kid(newdir, newname)' = ino
    BY <1>1, <1>2 DEF EntryMoved
  <2>4. CASE IsDirectory(ino)
    <3>1. Closed(S)
      <4>1. SUFFICES ASSUME NEW d \in DOMAIN INodes, NEW n \in Names, Kid(d, n) \in S PROVE d \in S
        BY DEF Closed
      <4>2. CASE d = dir
        <5>1. CASE n = name
          BY <1>1, <2>1, <2>3, <2>4, <4>1, <4>2, <5>1, <1>2 DEF EntryMoved, Closed
        <5>2. CASE n # name
          BY <1>1, <1>2, <2>1, <4>1, <5>2 DEF EntryMoved, Closed
        <5> QED BY <5>1, <5>2
      <4>3. CASE d # dir
        BY <1>1, <1>2, <2>1, <4>1, <4>3 DEF EntryMoved, Closed
      <4> QED BY <4>2, <4>3
    <3> QED BY <2>2, <3>1 DEF IInv, Hangs
  <2>5. CASE ~IsDirectory(ino)
    <3> DEFINE Others == S \ {ino}
    <3>1. \A n \in Names : Kid(ino, n) = NoChild
      BY <1>1, <2>5 DEF EntryMoved, IInv, NoHiddenEntries
    <3>2. Closed(Others)
      <4>1. SUFFICES ASSUME NEW d \in DOMAIN INodes, NEW n \in Names, Kid(d, n) \in Others
                     PROVE  d \in Others
        BY DEF Closed
      <4>2. Kid(d, n)' = Kid(d, n) /\ d # ino
        BY <1>1, <1>2, <3>1, <4>1 DEF EntryMoved
      <4> QED BY <1>2, <2>1, <4>1, <4>2 DEF Closed
    <3>3. CASE q = ino
      <4>1. newdir \in Others
        BY <1>1, <1>2, <2>1, <2>2, <2>3, <2>5, <3>3 DEF EntryMoved, Closed
      <4> QED BY <2>2, <3>2, <4>1 DEF IInv, Hangs
    <3>4. CASE q # ino
      BY <2>1, <2>2, <3>2, <3>4 DEF IInv, Hangs
    <3> QED BY <3>3, <3>4
  <2> QED BY <2>4, <2>5
<1> QED BY <1>8, <1>9, <1>10, <1>13, <1>16, <1>17, <1>18, <1>19, <1>20 DEF IInv
-----------------------------------------------------------------------------
LEMMA StutterKeeps == ASSUME IInv, UNCHANGED vars PROVE IInv'
<1>1. INodes' = INodes /\ DeletedINodes' = DeletedINodes /\ m_reclaimingINodes' = m_reclaimingINodes
  BY DEF vars
<1>2. SameShape
  BY <1>1 DEF SameShape
<1>3. EntriesExist' /\ NoHiddenEntries' /\ OneNameEach' /\ Hangs' /\ LinkCountsExact' /\ DeletedHaveNoName'
  BY <1>1, <1>2, ShapeInvariants DEF IInv
<1>4. TypeOK'
  BY <1>1 DEF IInv, TypeOK
<1>5. FirstTwo'
  BY <1>1 DEF IInv, FirstTwo, IsDirectory, InQueue
<1>6. QueueExact'
  BY <1>1 DEF IInv, QueueExact, NoNumberTwice, QueueUnused, NoINodeLost, InQueue, Held, Named, NamesOf
<1> QED BY <1>3, <1>4, <1>5, <1>6 DEF IInv

LEMMA InitEstablishes == ASSUME Init PROVE IInv
<1>1. /\ DOMAIN INodes = {Special, Root} /\ DeletedINodes = <<>> /\ m_reclaimingINodes = FALSE
      /\ INodes = [ino \in {Special, Root} |-> INodes[ino]]
      /\ INodes[Special] = NewINode("SPECIAL", 0) /\ INodes[Root] = NewINode("DIRECTORY", 3)
  BY DEF Init, Special, Root
<1> DEFINE none == [name \in Names |-> NoChild]
<1>2. none \in [Names -> DOMAIN INodes \cup {NoChild}]
  OBVIOUS
<1>3. \A q \in DOMAIN INodes : /\ INodes[q].m_children = none /\ INodes[q].m_nlookup = 0
                               /\ INodes[q].markedForDeletion = FALSE
  BY <1>1 DEF NewINode
<1>4. /\ INodes[Special].type = "SPECIAL" /\ INodes[Special].st_nlink = 0
      /\ INodes[Root].type = "DIRECTORY" /\ INodes[Root].st_nlink = 3
  BY <1>1 DEF NewINode
<1>5. \A q \in DOMAIN INodes, name \in Names : Kid(q, name) = NoChild
  BY <1>3 DEF Kid
<1>6. \A q \in DOMAIN INodes : NamesOf(q) = {}
  BY <1>1, <1>5 DEF NamesOf, Kid, NoChild, Special, Root
<1>7. Subdirectories(Root) = {}
  BY <1>1, <1>5 DEF Subdirectories, Free, ChildINodeNumberWithName, Kid
<1>8. Cardinality({}) = 0
  BY FS_EmptySet
<1>9. TypeOK
  <2>1. 2 \in 2 .. MaxINodes \cup {2} /\ DOMAIN INodes = 0 .. 2 - 1
    BY <1>1 DEF Special, Root
  <2>2. \A q \in DOMAIN INodes : INodes[q] \in INodeRecords(DOMAIN INodes)
    <3>1. 0 \in 0 .. LinkModulus - 1 /\ 3 \in 0 .. LinkModulus - 1 /\ 0 \in 0 .. MaxLookups
      BY NamespaceAssumption
    <3> HIDE DEF none
    <3>2. /\ INodes[Special] = [type |-> "SPECIAL", st_nlink |-> 0, m_nlookup |-> 0,
                                markedForDeletion |-> FALSE, m_children |-> none]
          /\ INodes[Root] = [type |-> "DIRECTORY", st_nlink |-> 3, m_nlookup |-> 0,
                             markedForDeletion |-> FALSE, m_children |-> none]
      BY <1>1 DEF NewINode, none
    <3>3. INodes[Special] \in INodeRecords(DOMAIN INodes)
      BY <1>2, <3>1, <3>2 DEF INodeRecords, Types
    <3>4. INodes[Root] \in INodeRecords(DOMAIN INodes)
      BY <1>2, <3>1, <3>2 DEF INodeRecords, Types
    <3> QED BY <1>1, <3>3, <3>4
  <2>3. INodes \in [DOMAIN INodes -> INodeRecords(DOMAIN INodes)]
    BY <1>1, <2>2
  <2>4. DeletedINodes \in Seq(DOMAIN INodes)
    BY <1>1
  <2>5. m_reclaimingINodes \in BOOLEAN
    BY <1>1
  <2> QED BY <2>1, <2>3, <2>4, <2>5 DEF TypeOK
<1>10. ~IsDirectory(Special) /\ IsDirectory(Root)
  BY <1>4 DEF IsDirectory
<1>11. \A q : ~InQueue(q)
  BY <1>1 DEF InQueue
<1>12. EntriesExist /\ NoHiddenEntries
  BY <1>5 DEF EntriesExist, NoHiddenEntries
<1>13. FirstTwo
  BY <1>1, <1>3, <1>10, <1>11 DEF FirstTwo
<1>14. OneNameEach
  BY <1>6 DEF OneNameEach
<1>15. LinkCountsExact
  <2>1. \A q \in DOMAIN INodes \ {Special} : q = Root
    BY <1>1
  <2>2. LinkCount(Root) = 3
    BY <1>7, <1>8, <1>10 DEF LinkCount, Named
  <2> QED BY <1>4, <2>1, <2>2 DEF LinkCountsExact
<1>16. QueueExact
  <2>1. NoNumberTwice
    BY <1>1 DEF NoNumberTwice
  <2>2. QueueUnused
    BY <1>11 DEF QueueUnused
  <2>3. NoINodeLost
    BY <1>1 DEF NoINodeLost, Named
  <2> QED BY <2>1, <2>2, <2>3 DEF QueueExact
<1>17. DeletedHaveNoName
  BY <1>3 DEF DeletedHaveNoName
<1>18. Hangs
  <2>1. \A q \in DOMAIN INodes : Named(q) => q = Root
    BY <1>6 DEF Named
  <2> QED BY <2>1 DEF Hangs
<1> QED BY <1>9, <1>12, <1>13, <1>14, <1>15, <1>16, <1>17, <1>18 DEF IInv

LEMMA NextKeeps == ASSUME IInv, Careful, [Next]_vars PROVE IInv'
<1>1. LinksFit
  BY DEF Careful
<1>2. CASE Make
  BY <1>2, MakeKeeps
<1>3. CASE LookUp
  BY <1>3, LookUpKeeps
<1>4. CASE Forget
  BY <1>1, <1>4, ForgetKeeps
<1>5. CASE Link
  BY <1>1, <1>5, LinkKeeps
<1>6. CASE Remove
  BY <1>1, <1>6, RemoveKeeps
<1>7. CASE Rename
  BY <1>7, RenameKeeps
<1>8. CASE UNCHANGED vars
  BY <1>8, StutterKeeps
<1> QED BY <1>2, <1>3, <1>4, <1>5, <1>6, <1>7, <1>8 DEF Next

(* Reached by the handlers, kept by each: the whole inductive invariant.   *)
THEOREM Invariance == ASSUME Careful PROVE Spec => []IInv
<1>1. Init => IInv
  BY InitEstablishes
<1>2. IInv /\ [Next]_vars => IInv'
  BY NextKeeps
<1> QED BY <1>1, <1>2, PTL DEF Spec

(* FuseInit and every handler leave a table without holes, inodes of the   *)
(* right shape, and entries that are numbers of the table.                 *)
THEOREM TypeCorrect == ASSUME Careful PROVE Spec => []TypeOK
<1>1. IInv => TypeOK
  BY DEF IInv
<1> QED BY <1>1, Invariance, PTL

(* Through makes, links, removals and renames st_nlink is the number of    *)
(* names, never one that RemoveHardLink or AddHardLink got wrong.          *)
THEOREM LinksExact == ASSUME Careful PROVE Spec => []LinkCountsExact
<1>1. IInv => LinkCountsExact
  BY DEF IInv
<1> QED BY <1>1, Invariance, PTL

(* FuseForget puts into DeletedINodes, and RegisterINode takes from it,    *)
(* exactly the numbers nobody uses, each once.                             *)
THEOREM QueueIsExact == ASSUME Careful PROVE Spec => []QueueExact
<1>1. IInv => QueueExact
  BY DEF IInv
<1> QED BY <1>1, Invariance, PTL

(* FuseAccess never refuses an inode that still has a name.                *)
THEOREM NoNameMarked == ASSUME Careful PROVE Spec => []DeletedHaveNoName
<1>1. IInv => DeletedHaveNoName
  BY DEF IInv
<1> QED BY <1>1, Invariance, PTL

(* Who climbs from an inode with a name by all of its names gets to the    *)
(* root, which is to say that it lies in the tree.                         *)
LEMMA HangsWithin ==
    ASSUME Hangs, NEW ino \in DOMAIN INodes, Named(ino)
    PROVE  Within(Root, ino)
<1>1. SUFFICES ASSUME NEW S \in SUBSET DOMAIN INodes, ino \in S,
                      \A q \in S : \A entry \in NamesOf(q) : entry[1] \in S
               PROVE  Root \in S
  BY DEF Within
<1>2. Closed(S)
  <2>1. SUFFICES ASSUME NEW dir \in DOMAIN INodes, NEW name \in Names, Kid(dir, name) \in S
                 PROVE  dir \in S
    BY DEF Closed
  <2>2. <<dir, name>> \in NamesOf(Kid(dir, name))
    BY NameIsEntry DEF Entry
  <2> QED BY <1>1, <2>1, <2>2
<1> QED BY <1>1, <1>2 DEF Hangs

(* No handler gives a directory a second name or cuts a branch off: what   *)
(* FuseRmdir removes is empty, and what FuseRename moves stays in its      *)
(* directory if it is a directory.                                         *)
THEOREM DirectoriesFormATree == ASSUME Careful PROVE Spec => []Tree
<1>1. ASSUME IInv PROVE Tree
  <2>1. ASSUME NEW ino \in DOMAIN INodes, IsDirectory(ino)
        PROVE  Cardinality(NamesOf(ino)) <= 1
    <3>1. CASE NamesOf(ino) = {}
      BY <3>1, FS_EmptySet
    <3>2. CASE NamesOf(ino) # {}
      <4>1. PICK entry \in NamesOf(ino) : NamesOf(ino) = {entry}
        BY <1>1, <2>1, <3>2 DEF IInv, OneNameEach
      <4> QED BY <4>1, FS_Singleton
    <3> QED BY <3>1, <3>2
  <2>2. ASSUME NEW ino \in DOMAIN INodes, Named(ino) PROVE Within(Root, ino)
    BY <1>1, <2>2, HangsWithin DEF IInv
  <2> QED BY <2>1, <2>2 DEF Tree
<1> QED BY <1>1, Invariance, PTL

LEMMA HeadIsUnused ==
    ASSUME Sound, Sound'
    PROVE  Len(DeletedINodes') < Len(DeletedINodes) =>
              LET ino == Head(DeletedINodes) IN ~Named(ino) /\ ~Held(ino)
<1>1. SUFFICES ASSUME Len(DeletedINodes') < Len(DeletedINodes)
               PROVE  ~Named(Head(DeletedINodes)) /\ ~Held(Head(DeletedINodes))
  OBVIOUS
<1>2. DeletedINodes \in Seq(DOMAIN INodes) /\ Len(DeletedINodes') \in Nat
  BY Table DEF Sound, TypeOK
<1>3. /\ 1 \in 1 .. Len(DeletedINodes) /\ Head(DeletedINodes) = DeletedINodes[1]
      /\ DeletedINodes[1] \in DOMAIN INodes
  BY <1>1, <1>2
<1>4. InQueue(Head(DeletedINodes)) /\ Head(DeletedINodes) \in DOMAIN INodes
  BY <1>3 DEF InQueue
<1> QED BY <1>4 DEF Sound, QueueUnused

(* What RegisterINode takes off the queue had no user. *)
THEOREM ReuseSafe == ASSUME Careful PROVE Spec => ReusedWereUnused
<1>1. IInv /\ IInv' => (Len(DeletedINodes') < Len(DeletedINodes) =>
                           LET ino == Head(DeletedINodes) IN ~Named(ino) /\ ~Held(ino))
  <2>1. IInv => Sound
    BY ExactIsSound
  <2>2. IInv' => Sound'
    BY DEF IInv, QueueExact, Sound
  <2> QED BY <2>1, <2>2, HeadIsUnused
<1> QED BY <1>1, Invariance, PTL DEF ReusedWereUnused
-----------------------------------------------------------------------------
(* Renames over names in use as well: what is replaced keeps its links, so *)
(* that counts are exact no more and a replaced directory keeps entries,   *)
(* but no inode has fewer links than names.                                *)

(* No count is at the largest that an unsigned integer holds.              *)
NoCountFull == \A ino \in DOMAIN INodes : INodes[ino].st_nlink + 1 < LinkModulus

(* The step adds no entry but the one of ino, changes no other type, and   *)
(* leaves that of an inode with a name.                                    *)
Gains(dir, name, ino) ==
    /\ DOMAIN INodes \subseteq DOMAIN INodes' /\ DOMAIN INodes' \subseteq DOMAIN INodes \cup {ino}
    /\ \A q \in DOMAIN INodes', n \in Names :
          \/ Kid(q, n)' = NoChild
          \/ q = dir /\ n = name /\ Kid(q, n)' = ino
          \/ q \in DOMAIN INodes /\ Kid(q, n)' = Kid(q, n)
    /\ \A q \in DOMAIN INodes : q # ino \/ Named(q) => INodes'[q].type = INodes[q].type

LEMMA NamesAfterGain ==
    ASSUME NEW dir, NEW name, NEW ino, Gains(dir, name, ino), NEW q, q # NoChild
    PROVE  /\ NamesOf(q)' \subseteq NamesOf(q) \cup {<<dir, name>>}
           /\ q # ino => NamesOf(q)' \subseteq NamesOf(q)
           /\ Named(q)' => Named(q) \/ q = ino
<1>1. ASSUME NEW entry \in NamesOf(q)'
      PROVE  entry \in NamesOf(q) \/ (q = ino /\ entry = <<dir, name>>)
  <2>1. /\ entry = <<entry[1], entry[2]>> /\ entry[1] \in DOMAIN INodes' /\ entry[2] \in Names
        /\ Kid(entry[1], entry[2])' = q
    BY DEF NamesOf, Kid
  <2>2. \/ entry[1] = dir /\ entry[2] = name /\ q = ino
        \/ entry[1] \in DOMAIN INodes /\ Kid(entry[1], entry[2]) = q
    BY <2>1 DEF Gains
  <2> QED BY <2>1, <2>2 DEF NamesOf, Kid
<1>2. /\ NamesOf(q)' \subseteq NamesOf(q) \cup {<<dir, name>>}
      /\ q # ino => NamesOf(q)' \subseteq NamesOf(q)
  BY <1>1
<1> QED BY <1>2 DEF Named

LEMMA SubdirectoriesAfterGain ==
    ASSUME EntriesExist, NEW dir, NEW name, NEW ino, Gains(dir, name, ino), NEW q \in DOMAIN INodes,
           NEW n \in Subdirectories(q)'
    PROVE  /\ n \in Names /\ Kid(q, n)' # NoChild
           /\ n \in Subdirectories(q) \/ (q = dir /\ n = name /\ IsDirectory(ino)')
<1>1. n \in Names /\ Kid(q, n)' # NoChild /\ INodes'[Kid(q, n)'].type = "DIRECTORY"
  BY DEF Subdirectories, Free, ChildINodeNumberWithName, Kid, IsDirectory
<1>2. q \in DOMAIN INodes'
  BY DEF Gains
<1>3. CASE q = dir /\ n = name /\ Kid(q, n)' = ino
  BY <1>1, <1>3 DEF IsDirectory
<1>4. CASE Kid(q, n)' = Kid(q, n)
  <2>1. Kid(q, n) \in DOMAIN INodes /\ Named(Kid(q, n))
    BY <1>1, <1>4, NameIsEntry DEF EntriesExist, Entry, Named
  <2>2. INodes[Kid(q, n)].type = "DIRECTORY"
    BY <1>1, <1>4, <2>1 DEF Gains
  <2> QED BY <1>1, <1>4, <2>2 DEF Subdirectories, Free, ChildINodeNumberWithName, Kid, IsDirectory
<1> QED BY <1>1, <1>2, <1>3, <1>4 DEF Gains

(* Entries stay those of inodes that are there, and directories keep one   *)
(* name at most.                                                           *)
LEMMA TreeAfterGain ==
    ASSUME Sound, NEW dir, NEW name, NEW ino, Gains(dir, name, ino),
           ino # NoChild => ino \in DOMAIN INodes' \ {Special, Root},
           \A q \in DOMAIN INodes' : q # NoChild,
           ino # NoChild /\ IsDirectory(ino)' => NamesOf(ino)' \subseteq {<<dir, name>>}
    PROVE  EntriesExist' /\ OneNameEach'
<1>1. EntriesExist'
  <2>1. SUFFICES ASSUME NEW q \in DOMAIN INodes', NEW n \in Names, Kid(q, n)' # NoChild
                 PROVE  Kid(q, n)' \in DOMAIN INodes' \ {Special, Root}
    BY DEF EntriesExist
  <2> QED BY <2>1 DEF Gains, Sound, EntriesExist
<1>2. OneNameEach'
  <2>1. SUFFICES ASSUME NEW q \in DOMAIN INodes', IsDirectory(q)', NEW entry \in NamesOf(q)', NEW other \in NamesOf(q)'
                 PROVE  entry = other
    BY DEF OneNameEach
  <2>2. CASE q = ino
    BY <2>1, <2>2
  <2>3. CASE q # ino
    <3>1. q \in DOMAIN INodes /\ IsDirectory(q)
      BY <2>1, <2>3 DEF Gains, IsDirectory
    <3>2. entry \in NamesOf(q) /\ other \in NamesOf(q)
      BY <2>1, <2>3, NamesAfterGain
    <3> QED BY <3>1, <3>2 DEF Sound, OneNameEach
  <2> QED BY <2>2, <2>3
<1> QED BY <1>1, <1>2

(* A step that leaves the queue alone gives no name or reference to what   *)
(* had neither.                                                            *)
LEMMA QueueAfterGain ==
    ASSUME Sound, NEW dir, NEW name, NEW ino, Gains(dir, name, ino), DOMAIN INodes' = DOMAIN INodes,
           ino = NoChild \/ Named(ino), ino \notin {Special, Root}, UNCHANGED DeletedINodes,
           \A q \in DOMAIN INodes : ~Named(q) => INodes'[q].m_nlookup = INodes[q].m_nlookup,
           INodes'[Special].m_nlookup = INodes[Special].m_nlookup
    PROVE  NoNumberTwice' /\ QueueUnused' /\ FirstTwo'
<1>1. \A q : InQueue(q)' <=> InQueue(q)
  BY DEF InQueue
<1>2. NoNumberTwice'
  BY DEF Sound, NoNumberTwice
<1>3. QueueUnused'
  <2>1. SUFFICES ASSUME NEW q \in DOMAIN INodes, InQueue(q) PROVE ~(Named(q)') /\ ~(Held(q)')
    BY <1>1 DEF QueueUnused
  <2>2. ~Named(q) /\ ~Held(q) /\ q # NoChild
    BY <2>1, Table DEF Sound, QueueUnused
  <2>3. ~(Named(q)')
    BY <2>2, NamesAfterGain
  <2> QED BY <2>2, <2>3 DEF Held
<1>4. FirstTwo'
  BY <1>1, Table DEF Sound, FirstTwo, IsDirectory, Gains
<1> QED BY <1>2, <1>3, <1>4
-----------------------------------------------------------------------------
(* How far a count may go, given what an inode has left. *)

LEMMA OneMore ==
    ASSUME NEW S, IsFiniteSet(S), NEW e
    PROVE  /\ IsFiniteSet(S \cup {e}) /\ Cardinality(S \cup {e}) \in Nat
           /\ Cardinality(S \cup {e}) <= Cardinality(S) + 1
<1>1. Cardinality(S) \in Nat
  BY FS_CardinalityType
<1>2. CASE e \in S
  <2>1. S \cup {e} = S
    BY <1>2
  <2>2. IsFiniteSet(S \cup {e}) /\ Cardinality(S \cup {e}) = Cardinality(S)
    BY <2>1, Zenon
  <2> QED BY <1>1, <2>2
<1>3. CASE e \notin S
  <2>1. IsFiniteSet(S \cup {e}) /\ Cardinality(S \cup {e}) = Cardinality(S) + 1
    BY <1>3, FS_AddElement
  <2> QED BY <1>1, <2>1
<1> QED BY <1>2, <1>3

LEMMA FileCount ==
    ASSUME NEW q, ~(IsDirectory(q)'), NEW some, IsFiniteSet(some), NamesOf(q)' \subseteq some
    PROVE  LinkCount(q)' \in Nat /\ LinkCount(q)' <= Cardinality(some)
<1>1. IsFiniteSet(NamesOf(q)') /\ Cardinality(NamesOf(q)') <= Cardinality(some)
  BY FS_Subset
<1>2. Cardinality(NamesOf(q)') \in Nat
  BY <1>1, FS_CardinalityType
<1> QED BY <1>1, <1>2 DEF LinkCount

LEMMA DirectoryCount ==
    ASSUME NEW q, IsDirectory(q)', NEW some, IsFiniteSet(some), Subdirectories(q)' \subseteq some
    PROVE  /\ LinkCount(q)' \in Nat
           /\ LinkCount(q)' <= (IF q = Root THEN 3 ELSE 2) + Cardinality(some)
           /\ ~(Named(q)') => LinkCount(q)' = 0
<1>1. IsFiniteSet(Subdirectories(q)') /\ Cardinality(Subdirectories(q)') <= Cardinality(some)
  BY FS_Subset
<1>2. Cardinality(Subdirectories(q)') \in Nat /\ Cardinality(some) \in Nat
  BY <1>1, FS_CardinalityType
<1>3. LinkCount(q)' = IF Named(q)' THEN (IF q = Root THEN 3 ELSE 2) + Cardinality(Subdirectories(q)') ELSE 0
  BY DEF LinkCount
<1> HIDE DEF LinkCount
<1> QED BY <1>1, <1>2, <1>3

(* The counts before the step, as far as names are finite. *)
LEMMA FiniteNames ==
    ASSUME TypeOK, IsFiniteSet(Names), NEW q
    PROVE  /\ IsFiniteSet(NamesOf(q)) /\ Cardinality(NamesOf(q)) \in Nat
           /\ IsFiniteSet(Subdirectories(q)) /\ Cardinality(Subdirectories(q)) \in Nat
           /\ LinkCount(q) \in Nat
           /\ ~IsDirectory(q) => LinkCount(q) = Cardinality(NamesOf(q))
           /\ IsDirectory(q) /\ Named(q) =>
                 LinkCount(q) = (IF q = Root THEN 3 ELSE 2) + Cardinality(Subdirectories(q))
<1>1. IsFiniteSet(0 .. MaxINodes + 1)
  BY NamespaceAssumption, FS_Interval
<1>2. IsFiniteSet((0 .. MaxINodes + 1) \X Names)
  BY <1>1, FS_Product
<1>3. NamesOf(q) \subseteq (0 .. MaxINodes + 1) \X Names /\ Subdirectories(q) \subseteq Names
  BY Table DEF NamesOf, Subdirectories
<1>4. IsFiniteSet(NamesOf(q)) /\ IsFiniteSet(Subdirectories(q))
  BY <1>2, <1>3, FS_Subset
<1>5. Cardinality(NamesOf(q)) \in Nat /\ Cardinality(Subdirectories(q)) \in Nat
  BY <1>4, FS_CardinalityType
<1> QED BY <1>4, <1>5 DEF LinkCount

(* What gains nothing counts no more than before. *)
LEMMA CountAfterGain ==
    ASSUME Sound, IsFiniteSet(Names), NEW dir, NEW name, NEW ino, Gains(dir, name, ino),
           NEW q \in DOMAIN INodes \ {ino}, ~(q = dir /\ ino # NoChild /\ IsDirectory(ino)')
    PROVE  LinkCount(q)' \in Nat /\ LinkCount(q)' <= LinkCount(q)
<1>1. q # NoChild /\ TypeOK
  BY Table DEF Sound
<1>2. IsDirectory(q)' <=> IsDirectory(q)
  BY DEF Gains, IsDirectory
<1>3. NamesOf(q)' \subseteq NamesOf(q) /\ (Named(q)' => Named(q))
  BY <1>1, NamesAfterGain
<1>4. /\ IsFiniteSet(NamesOf(q)) /\ Cardinality(NamesOf(q)) \in Nat
      /\ IsFiniteSet(Subdirectories(q)) /\ Cardinality(Subdirectories(q)) \in Nat
      /\ LinkCount(q) \in Nat
      /\ ~IsDirectory(q) => LinkCount(q) = Cardinality(NamesOf(q))
      /\ IsDirectory(q) /\ Named(q) =>
            LinkCount(q) = (IF q = Root THEN 3 ELSE 2) + Cardinality(Subdirectories(q))
  BY <1>1, FiniteNames
<1>5. CASE ~IsDirectory(q)
  BY <1>2, <1>3, <1>4, <1>5, FileCount
<1>6. CASE IsDirectory(q)
  <2>1. Subdirectories(q)' \subseteq Subdirectories(q)
    <3>1. SUFFICES ASSUME NEW n \in Subdirectories(q)' PROVE n \in Subdirectories(q)
      OBVIOUS
    <3>2. Kid(q, n)' # NoChild /\ (n \in Subdirectories(q) \/ (q = dir /\ n = name /\ IsDirectory(ino)'))
      BY SubdirectoriesAfterGain DEF Sound
    <3>3. ASSUME q = dir, n = name, ino = NoChild PROVE n \in Subdirectories(q)
      <4>1. Kid(q, n)' = Kid(q, n) /\ n \in Names
        BY <3>2, <3>3, SubdirectoriesAfterGain DEF Gains, Sound
      <4>2. INodes'[Kid(q, n)'].type = "DIRECTORY"
        BY <3>1 DEF Subdirectories, Free, ChildINodeNumberWithName, Kid, IsDirectory
      <4>3. INodes[Kid(q, n)].type = "DIRECTORY"
        BY <3>2, <3>3, <4>1, <4>2 DEF Sound, EntriesExist, Gains
      <4> QED BY <3>2, <4>1, <4>3 DEF Subdirectories, Free, ChildINodeNumberWithName, Kid, IsDirectory
    <3> QED BY <3>2, <3>3
  <2>2. /\ LinkCount(q)' \in Nat
        /\ LinkCount(q)' <= (IF q = Root THEN 3 ELSE 2) + Cardinality(Subdirectories(q))
        /\ ~(Named(q)') => LinkCount(q)' = 0
    BY <1>2, <1>4, <1>6, <2>1, DirectoryCount
  <2> QED BY <1>3, <1>4, <1>6, <2>2
<1> QED BY <1>5, <1>6
-----------------------------------------------------------------------------
(* Each action. *)

LEMMA ShapeKeepsSound ==
    ASSUME Sound, LinksNeverShort, SameShape, TypeOK', NoNumberTwice',
           \A q \in DOMAIN INodes : INodes'[q].st_nlink = INodes[q].st_nlink,
           INodes'[Special].m_nlookup = INodes[Special].m_nlookup,
           \A q \in DOMAIN INodes : InQueue(q)' => ~Named(q) /\ ~(Held(q)') /\ q # Special
    PROVE  Sound' /\ LinksNeverShort'
<1>1. /\ \A q : NamesOf(q)' = NamesOf(q)
      /\ \A q : Named(q)' <=> Named(q)
      /\ \A q \in DOMAIN INodes : IsDirectory(q)' <=> IsDirectory(q)
      /\ \A q \in DOMAIN INodes : LinkCount(q)' = LinkCount(q)
  BY ShapeKept DEF Sound
<1>2. DOMAIN INodes' = DOMAIN INodes
  BY DEF SameShape
<1>3. EntriesExist'
  BY DEF SameShape, Sound, EntriesExist, Kid
<1>4. OneNameEach'
  BY <1>1, <1>2 DEF Sound, OneNameEach
<1>5. FirstTwo'
  BY <1>1, <1>2, Table DEF Sound, FirstTwo
<1>6. QueueUnused'
  BY <1>1, <1>2 DEF QueueUnused
<1>7. LinksNeverShort'
  BY <1>1, <1>2 DEF LinksNeverShort
<1> QED BY <1>3, <1>4, <1>5, <1>6, <1>7 DEF Sound

LEMMA LookUpKeepsSound == ASSUME Sound, LinksNeverShort, LookUp PROVE Sound' /\ LinksNeverShort'
<1>1. PICK ino : LookedUp(ino)
  BY LookUpEffect
<1>2. TypeOK' /\ NoNumberTwice'
  BY <1>1, LookUpEffect DEF LookedUp, Sound, NoNumberTwice
<1>3. ASSUME NEW q \in DOMAIN INodes, InQueue(q)' PROVE ~Named(q) /\ ~(Held(q)') /\ q # Special
  <2>1. InQueue(q)
    BY <1>1, <1>3 DEF LookedUp, InQueue
  <2>2. ~Named(q) /\ ~Held(q) /\ q # Special
    BY <2>1 DEF Sound, QueueUnused, FirstTwo
  <2> QED BY <1>1, <2>2 DEF LookedUp, Held
<1>4. INodes'[Special].m_nlookup = INodes[Special].m_nlookup
  BY <1>1, Table DEF LookedUp, Sound
<1> QED BY <1>1, <1>2, <1>3, <1>4, ShapeKeepsSound DEF LookedUp

(* What has no link has no name: the only use that is made of a count.     *)
LEMMA ForgetKeepsSound ==
    ASSUME Sound, LinksNeverShort, IsFiniteSet(Names), Forget
    PROVE  Sound' /\ LinksNeverShort'
<1>1. PICK ino, n : Forgotten(ino, n)
  BY ForgetEffect
<1>2. TypeOK' /\ NoNumberTwice'
  BY ForgetEffect
<1>3. ASSUME HasNoLinks(ino) PROVE ~Named(ino)
  <2>1. ino \in DOMAIN INodes \ {Special, Root}
    BY <1>1 DEF Forgotten
  <2>2. LinkCount(ino) \in Nat /\ LinkCount(ino) <= 0
    BY <1>3, <2>1, FiniteNames DEF LinksNeverShort, HasNoLinks, Sound
  <2>3. LinkCount(ino) = 0
    BY <2>2
  <2>4. CASE IsDirectory(ino)
    <3>1. Cardinality(Subdirectories(ino)) \in Nat
      BY FiniteNames DEF Sound
    <3>2. Named(ino) => LinkCount(ino) = 2 + Cardinality(Subdirectories(ino))
      BY <2>1, <2>4, FiniteNames DEF Sound
    <3> QED BY <2>3, <3>1, <3>2
  <2>5. CASE ~IsDirectory(ino)
    <3>1. IsFiniteSet(NamesOf(ino)) /\ Cardinality(NamesOf(ino)) = 0
      BY <2>3, <2>5, FiniteNames DEF Sound
    <3>2. NamesOf(ino) = {}
      BY <3>1, FS_EmptySet
    <3> QED BY <2>1, <3>2 DEF Named
  <2> QED BY <2>4, <2>5
<1>4. ASSUME NEW q \in DOMAIN INodes, InQueue(q)' PROVE ~Named(q) /\ ~(Held(q)') /\ q # Special
  <2>1. CASE q = ino
    BY <1>1, <1>3, <1>4, <2>1 DEF Forgotten
  <2>2. CASE q # ino
    <3>1. InQueue(q)
      BY <1>1, <1>4, <2>2 DEF Forgotten
    <3> QED BY <1>1, <2>2, <3>1 DEF Forgotten, Sound, QueueUnused, FirstTwo
  <2> QED BY <2>1, <2>2
<1>5. INodes'[Special].m_nlookup = INodes[Special].m_nlookup
  BY <1>1, Table DEF Forgotten, Sound
<1> QED BY <1>1, <1>2, <1>4, <1>5, ShapeKeepsSound DEF Forgotten

LEMMA MakeKeepsSound ==
    ASSUME Sound, LinksNeverShort, NoCountFull, IsFiniteSet(Names), MaxLookups > 0, Make
    PROVE  Sound' /\ LinksNeverShort'
<1>1. PICK x : x = NextINode
  OBVIOUS
<1>2. PICK dir \in DOMAIN INodes \ {x}, name \in Names, type \in Types \ {"SPECIAL"} : Made(dir, name, type)
  BY <1>1, MakeEffect
<1>3. x \in Nat \ {Special, Root} /\ x # NoChild /\ ~Named(x)
  BY <1>1, <1>2, NextINodeUnused DEF Made
<1>4. MadeFields(dir, name, x, type)
  BY <1>1, <1>2, MadeHasFields DEF Sound
<1>5. /\ INodes'[x].type = type /\ INodes'[x].st_nlink = NewLinks(type)
      /\ \A n \in Names : Kid(x, n)' = NoChild
  BY <1>4 DEF MadeFields, NewINode, Kid
<1>6. TypeOK'
  BY <1>1, <1>2, <1>4, MadeIsTyped
<1>7. NoNumberTwice' /\ \A q : InQueue(q)' => InQueue(q) /\ q # x
  BY <1>1, <1>2, QueueAfterMake
<1>8. Gains(dir, name, x)
  <2>1. ASSUME NEW q \in DOMAIN INodes', NEW n \in Names
        PROVE  \/ Kid(q, n)' = NoChild
               \/ q = dir /\ n = name /\ Kid(q, n)' = x
               \/ q \in DOMAIN INodes /\ Kid(q, n)' = Kid(q, n)
    <3>1. CASE q = x
      BY <1>5, <3>1
    <3>2. CASE q # x
      <4>1. q \in DOMAIN INodes \ {x} /\ INodes[q].m_children \in [Names -> DOMAIN INodes \cup {NoChild}]
        BY <1>4, <3>2, INodeType DEF MadeFields, Sound
      <4> QED BY <1>2, <1>4, <4>1 DEF MadeFields, Kid
    <3> QED BY <3>1, <3>2
  <2> QED BY <1>3, <1>4, <2>1 DEF Gains, MadeFields
<1>9. \A q \in DOMAIN INodes' : q # NoChild
  BY <1>3, <1>4, Table DEF MadeFields, Sound
<1>10. NamesOf(x)' \subseteq {<<dir, name>>}
  BY <1>3, <1>8, NamesAfterGain DEF Named
<1>11. EntriesExist' /\ OneNameEach'
  BY <1>3, <1>4, <1>8, <1>9, <1>10, TreeAfterGain DEF MadeFields
<1>12. FirstTwo'
  BY <1>3, <1>4, <1>7, Table DEF Sound, FirstTwo, IsDirectory, MadeFields
<1>13. QueueUnused'
  <2>1. SUFFICES ASSUME NEW q \in DOMAIN INodes', InQueue(q)' PROVE ~(Named(q)') /\ ~(Held(q)')
    BY DEF QueueUnused
  <2>2. q \in DOMAIN INodes \ {x} /\ InQueue(q) /\ q # NoChild
    BY <1>4, <1>7, <1>9, <2>1 DEF MadeFields
  <2>3. ~Named(q) /\ ~Held(q)
    BY <2>2 DEF Sound, QueueUnused
  <2>4. ~(Named(q)')
    BY <1>8, <2>2, <2>3, NamesAfterGain
  <2> QED BY <1>4, <2>2, <2>3, <2>4 DEF MadeFields, Held
<1>14. LinksNeverShort'
  <2>1. SUFFICES ASSUME NEW q \in DOMAIN INodes' \ {Special} PROVE INodes'[q].st_nlink >= LinkCount(q)'
    BY DEF LinksNeverShort
  <2>2. IsDirectory(x)' <=> type = "DIRECTORY"
    BY <1>5 DEF IsDirectory
  <2>3. CASE q = x /\ type # "DIRECTORY"
    <3>1. IsFiniteSet({<<dir, name>>}) /\ Cardinality({<<dir, name>>}) = 1
      BY FS_Singleton
    <3>2. LinkCount(q)' \in Nat /\ LinkCount(q)' <= 1
      BY <1>10, <2>2, <2>3, <3>1, FileCount
    <3> QED BY <1>5, <2>3, <3>2 DEF NewLinks
  <2>4. CASE q = x /\ type = "DIRECTORY"
    <3>1. Subdirectories(x)' \subseteq {}
      BY <1>5 DEF Subdirectories, Free, ChildINodeNumberWithName, Kid
    <3>2. IsFiniteSet({}) /\ Cardinality({}) = 0
      BY FS_EmptySet
    <3>3. /\ LinkCount(x)' \in Nat
          /\ LinkCount(x)' <= (IF x = Root THEN 3 ELSE 2) + Cardinality({})
      BY <2>2, <2>4, <3>1, <3>2, DirectoryCount
    <3> QED BY <1>3, <1>5, <2>4, <3>2, <3>3 DEF NewLinks
  <2>5. CASE q # x
    <3>1. q \in DOMAIN INodes \ {x, Special}
      BY <1>4, <2>5 DEF MadeFields
    <3>2. /\ INodes[q].st_nlink \in Nat /\ INodes[q].st_nlink + 1 < LinkModulus
          /\ INodes[q].st_nlink >= LinkCount(q)
      BY <3>1, INodeType, NamespaceAssumption DEF NoCountFull, LinksNeverShort, Sound
    <3>3. LinkCount(q) \in Nat
      BY FiniteNames DEF Sound
    <3>4. CASE ~(q = dir /\ type = "DIRECTORY")
      <4>1. LinkCount(q)' \in Nat /\ LinkCount(q)' <= LinkCount(q)
        BY <1>8, <2>2, <3>1, <3>4, CountAfterGain
      <4>2. INodes'[q].st_nlink = INodes[q].st_nlink
        BY <1>4, <3>1, <3>4 DEF MadeFields
      <4> QED BY <3>2, <3>3, <4>1, <4>2
    <3>5. CASE q = dir /\ type = "DIRECTORY"
      <4>1. INodes'[q].st_nlink = INodes[q].st_nlink + 1
        <5>1. INodes'[q].st_nlink = (INodes[q].st_nlink + 1) % LinkModulus
          BY <1>4, <3>1, <3>5 DEF MadeFields
        <5>2. (INodes[q].st_nlink + 1) % LinkModulus = INodes[q].st_nlink + 1
          BY <3>2, SmallMod
        <5> QED BY <5>1, <5>2
      <4>2. IsDirectory(q) /\ Named(q) /\ IsDirectory(q)'
        BY <1>2, <1>8, <3>1, <3>5 DEF Made, Usable, Gains, IsDirectory
      <4>3. Subdirectories(q)' \subseteq Subdirectories(q) \cup {name}
        BY <1>8, <3>1, SubdirectoriesAfterGain DEF Sound
      <4>4. IsFiniteSet(Subdirectories(q)) /\ Cardinality(Subdirectories(q)) \in Nat
        BY FiniteNames DEF Sound
      <4>5. /\ IsFiniteSet(Subdirectories(q) \cup {name})
            /\ Cardinality(Subdirectories(q) \cup {name}) <= Cardinality(Subdirectories(q)) + 1
            /\ Cardinality(Subdirectories(q) \cup {name}) \in Nat
        BY <4>4, OneMore
      <4>6. /\ LinkCount(q)' \in Nat
            /\ LinkCount(q)' <= (IF q = Root THEN 3 ELSE 2) + Cardinality(Subdirectories(q) \cup {name})
        BY <4>2, <4>3, <4>5, DirectoryCount
      <4>7. LinkCount(q) = (IF q = Root THEN 3 ELSE 2) + Cardinality(Subdirectories(q))
        BY <4>2, FiniteNames DEF Sound
      <4> QED BY <3>2, <4>1, <4>4, <4>5, <4>6, <4>7
    <3> QED BY <3>4, <3>5
  <2> QED BY <2>3, <2>4, <2>5
<1> QED BY <1>6, <1>7, <1>11, <1>12, <1>13, <1>14 DEF Sound

(* A link more, and a name more. *)
LEMMA LinkKeepsSound ==
    ASSUME Sound, LinksNeverShort, NoCountFull, IsFiniteSet(Names), Link
    PROVE  Sound' /\ LinksNeverShort'
<1>1. PICK ino \in DOMAIN INodes, dir \in DOMAIN INodes, name \in Names :
         /\ ~IsDirectory(ino) /\ Held(ino) /\ Named(ino)
         /\ KernelMakes(dir, name)
         /\ FuseLink(ino, dir, name)
  BY DEF Link
<1>2. ino \in Nat \ {Special, Root, dir} /\ ino # NoChild
  BY <1>1, Table DEF Sound, FirstTwo, Held, KernelMakes, Usable
<1>3. /\ INodes' \in [DOMAIN INodes -> INodeRecords(DOMAIN INodes)]
      /\ \A q \in DOMAIN INodes :
            /\ INodes'[q].type = INodes[q].type
            /\ INodes'[q].markedForDeletion = INodes[q].markedForDeletion
            /\ INodes'[q].m_nlookup = IF q = ino THEN INodes[q].m_nlookup + 1 ELSE INodes[q].m_nlookup
            /\ INodes'[q].st_nlink = IF q = ino THEN (INodes[q].st_nlink + 1) % LinkModulus
                                     ELSE INodes[q].st_nlink
            /\ INodes'[q].m_children = IF q = dir THEN [INodes[q].m_children EXCEPT ![name] = ino]
                                       ELSE INodes[q].m_children
  BY <1>1, <1>2, LinkHasFields DEF Sound
<1>4. DOMAIN INodes' = DOMAIN INodes /\ DeletedINodes' = DeletedINodes /\ m_reclaimingINodes' = m_reclaimingINodes
  BY <1>1, <1>3 DEF FuseLink
<1>5. Gains(dir, name, ino)
  <2>1. ASSUME NEW q \in DOMAIN INodes, NEW n \in Names
        PROVE  \/ q = dir /\ n = name /\ Kid(q, n)' = ino
               \/ Kid(q, n)' = Kid(q, n)
    <3>1. INodes[q].m_children \in [Names -> DOMAIN INodes \cup {NoChild}]
      BY INodeType DEF Sound
    <3> QED BY <1>3, <3>1 DEF Kid
  <2> QED BY <1>3, <1>4, <2>1 DEF Gains
<1>6. TypeOK'
  BY <1>3, <1>4, Table DEF Sound, TypeOK
<1>7. ~(IsDirectory(ino)')
  BY <1>1, <1>3 DEF IsDirectory
<1>8. \A q \in DOMAIN INodes' : q # NoChild
  BY <1>4, Table DEF Sound
<1>9. EntriesExist' /\ OneNameEach'
  BY <1>1, <1>2, <1>4, <1>5, <1>7, <1>8, TreeAfterGain
<1>10. NoNumberTwice' /\ QueueUnused' /\ FirstTwo'
  BY <1>1, <1>2, <1>3, <1>4, <1>5, QueueAfterGain, Table DEF Sound
<1>11. LinksNeverShort'
  <2>1. SUFFICES ASSUME NEW q \in DOMAIN INodes \ {Special} PROVE INodes'[q].st_nlink >= LinkCount(q)'
    BY <1>4 DEF LinksNeverShort
  <2>2. /\ INodes[q].st_nlink \in Nat /\ INodes[q].st_nlink + 1 < LinkModulus
        /\ INodes[q].st_nlink >= LinkCount(q)
    BY INodeType, NamespaceAssumption DEF NoCountFull, LinksNeverShort, Sound
  <2>3. LinkCount(q) \in Nat
    BY FiniteNames DEF Sound
  <2>4. CASE q # ino
    <3>1. LinkCount(q)' \in Nat /\ LinkCount(q)' <= LinkCount(q)
      BY <1>5, <1>7, <2>4, CountAfterGain
    <3>2. INodes'[q].st_nlink = INodes[q].st_nlink
      BY <1>3, <2>4
    <3> QED BY <2>2, <2>3, <3>1, <3>2
  <2>5. CASE q = ino
    <3>1. LinkCount(ino) = Cardinality(NamesOf(ino)) /\ IsFiniteSet(NamesOf(ino))
      BY <1>1, FiniteNames DEF Sound
    <3>2. /\ IsFiniteSet(NamesOf(ino) \cup {<<dir, name>>})
          /\ Cardinality(NamesOf(ino) \cup {<<dir, name>>}) \in Nat
          /\ Cardinality(NamesOf(ino) \cup {<<dir, name>>}) <= Cardinality(NamesOf(ino)) + 1
      BY <3>1, OneMore
    <3>3. NamesOf(ino)' \subseteq NamesOf(ino) \cup {<<dir, name>>}
      BY <1>2, <1>5, NamesAfterGain
    <3>4. LinkCount(ino)' \in Nat /\ LinkCount(ino)' <= Cardinality(NamesOf(ino) \cup {<<dir, name>>})
      BY <1>7, <3>2, <3>3, FileCount
    <3>5. LinkCount(ino)' <= LinkCount(ino) + 1
      <4>1. Cardinality(NamesOf(ino)) \in Nat
        BY <3>1, FS_CardinalityType
      <4> QED BY <3>1, <3>2, <3>4, <4>1
    <3>6. INodes'[q].st_nlink = INodes[q].st_nlink + 1
      <4>1. INodes'[q].st_nlink = (INodes[q].st_nlink + 1) % LinkModulus
        BY <1>3, <2>5
      <4>2. (INodes[q].st_nlink + 1) % LinkModulus = INodes[q].st_nlink + 1
        BY <2>2, SmallMod
      <4> QED BY <4>1, <4>2
    <3> QED BY <2>2, <2>3, <2>5, <3>4, <3>5, <3>6
  <2> QED BY <2>4, <2>5
<1> QED BY <1>6, <1>9, <1>10, <1>11 DEF Sound

(* What is common to the two handlers that remove a name. *)
LEMMA RemovedIsSound ==
    ASSUME Sound, NEW dir \in DOMAIN INodes, NEW name \in Names, NEW ino \in DOMAIN INodes \ {dir},
           Kid(dir, name) = ino, UNCHANGED <<DeletedINodes, m_reclaimingINodes>>,
           NEW links, NEW marked, NEW parentLinks, NEW parentMarked,
           RemovedFields(dir, name, ino, links, marked, parentLinks, parentMarked)
    PROVE  /\ Sound' /\ DOMAIN INodes' = DOMAIN INodes
           /\ Gains(dir, name, NoChild)
           /\ Kid(dir, name)' = NoChild
<1>1. DOMAIN INodes' = DOMAIN INodes
  BY DEF RemovedFields
<1>2. ASSUME NEW q \in DOMAIN INodes, NEW n \in Names
      PROVE  Kid(q, n)' = IF q = dir /\ n = name THEN NoChild ELSE Kid(q, n)
  <2>1. INodes[q].m_children \in [Names -> DOMAIN INodes \cup {NoChild}]
    BY INodeType DEF Sound
  <2> QED BY <2>1 DEF RemovedFields, Kid
<1>3. Gains(dir, name, NoChild)
  BY <1>1, <1>2 DEF RemovedFields, Gains
<1>4. TypeOK'
  BY <1>1, Table DEF Sound, TypeOK, RemovedFields
<1>5. \A q \in DOMAIN INodes' : q # NoChild
  BY <1>1, Table DEF Sound
<1>6. EntriesExist' /\ OneNameEach'
  BY <1>3, <1>5, TreeAfterGain
<1>7. NoNumberTwice' /\ QueueUnused' /\ FirstTwo'
  <2>1. NoChild \notin {Special, Root}
    BY DEF NoChild, Special, Root
  <2> QED BY <1>1, <1>3, <2>1, QueueAfterGain, Table DEF Sound, RemovedFields
<1> QED BY <1>1, <1>2, <1>3, <1>4, <1>6, <1>7 DEF Sound

LEMMA UnlinkKeepsSound ==
    ASSUME Sound, LinksNeverShort, IsFiniteSet(Names),
           NEW dir \in DOMAIN INodes, NEW ino \in DOMAIN INodes, NEW name \in Names,
           Usable(dir), Found(dir, name, ino), ~IsDirectory(ino), FuseUnlink(dir, name)
    PROVE  Sound' /\ LinksNeverShort'
<1> DEFINE left == LeftLinks(ino)
           marked == LeftMarked(ino)
<1>1. /\ Kid(dir, name) = ino /\ ino # dir /\ ino # Special /\ ino # Root
      /\ UNCHANGED <<DeletedINodes, m_reclaimingINodes>>
      /\ RemovedFields(dir, name, ino, left, marked, INodes[dir].st_nlink, INodes[dir].markedForDeletion)
  BY UnlinkEffect
<1> HIDE DEF left, marked
<1>2. /\ Sound' /\ DOMAIN INodes' = DOMAIN INodes
      /\ Gains(dir, name, NoChild)
      /\ Kid(dir, name)' = NoChild
  BY <1>1, RemovedIsSound
<1>3. LinksNeverShort'
  <2>1. SUFFICES ASSUME NEW q \in DOMAIN INodes \ {Special} PROVE INodes'[q].st_nlink >= LinkCount(q)'
    BY <1>2 DEF LinksNeverShort
  <2>2. INodes[q].st_nlink \in Nat /\ INodes[q].st_nlink < LinkModulus /\ INodes[q].st_nlink >= LinkCount(q)
    BY INodeType, NamespaceAssumption DEF LinksNeverShort, Sound
  <2>3. LinkCount(q) \in Nat /\ q # NoChild
    BY FiniteNames, Table DEF Sound
  <2>4. CASE q # ino
    <3>1. LinkCount(q)' \in Nat /\ LinkCount(q)' <= LinkCount(q)
      BY <1>2, <2>3, CountAfterGain
    <3>2. INodes'[q].st_nlink = INodes[q].st_nlink
      BY <1>1, <2>4 DEF RemovedFields
    <3> QED BY <2>2, <2>3, <3>1, <3>2
  <2>5. CASE q = ino
    <3>1. /\ LinkCount(ino) = Cardinality(NamesOf(ino)) /\ IsFiniteSet(NamesOf(ino))
          /\ Cardinality(NamesOf(ino)) \in Nat
      BY FiniteNames DEF Sound
    <3>2. <<dir, name>> \in NamesOf(ino)
      BY <1>1, NameIsEntry DEF Entry
    <3>3. /\ IsFiniteSet(NamesOf(ino) \ {<<dir, name>>})
          /\ Cardinality(NamesOf(ino) \ {<<dir, name>>}) = Cardinality(NamesOf(ino)) - 1
      BY <3>1, <3>2, FS_RemoveElement
    <3>4. NamesOf(ino)' \subseteq NamesOf(ino) \ {<<dir, name>>}
      <4>1. NamesOf(ino)' \subseteq NamesOf(ino)
        BY <1>2, <2>3, <2>5, NamesAfterGain
      <4>2. <<dir, name>> \notin NamesOf(ino)'
        BY <1>2, <2>3, <2>5 DEF NamesOf, Kid
      <4> QED BY <4>1, <4>2
    <3>5. ~(IsDirectory(ino)')
      BY <1>1 DEF RemovedFields, IsDirectory
    <3>6. LinkCount(ino)' \in Nat /\ LinkCount(ino)' <= Cardinality(NamesOf(ino) \ {<<dir, name>>})
      BY <3>3, <3>4, <3>5, FileCount
    <3>7. Cardinality(NamesOf(ino) \ {<<dir, name>>}) \in Nat
      BY <3>3, FS_CardinalityType
    <3>8. INodes[ino].st_nlink - 1 \in Nat /\ INodes[ino].st_nlink - 1 < LinkModulus
      BY <2>2, <2>5, <3>1, <3>3, <3>7, NamespaceAssumption
    <3>9. INodes'[ino].st_nlink = INodes[ino].st_nlink - 1
      <4>1. INodes'[ino].st_nlink = (INodes[ino].st_nlink - 1) % LinkModulus
        BY <1>1 DEF RemovedFields, left, LeftLinks
      <4>2. (INodes[ino].st_nlink - 1) % LinkModulus = INodes[ino].st_nlink - 1
        BY <3>8, SmallMod
      <4> QED BY <4>1, <4>2
    <3> QED BY <2>2, <2>5, <3>1, <3>3, <3>6, <3>9
  <2> QED BY <2>4, <2>5
<1> QED BY <1>2, <1>3

LEMMA RmdirKeepsSound ==
    ASSUME Sound, LinksNeverShort, IsFiniteSet(Names),
           NEW dir \in DOMAIN INodes, NEW ino \in DOMAIN INodes, NEW name \in Names,
           Usable(dir), Found(dir, name, ino), FuseRmdir(dir, name)
    PROVE  Sound' /\ LinksNeverShort'
<1> DEFINE left == LeftLinks(dir)
           parentMarked == LeftMarked(dir)
           marked == AllMarked(ino)
<1>1. /\ Kid(dir, name) = ino /\ ino # dir /\ ino # NoChild /\ ino # Special /\ ino # Root
      /\ IsDirectory(ino)
      /\ UNCHANGED <<DeletedINodes, m_reclaimingINodes>>
      /\ RemovedFields(dir, name, ino, 0, marked, left, parentMarked)
  BY RmdirEffect
<1> HIDE DEF left, parentMarked, marked
<1>2. /\ Sound' /\ DOMAIN INodes' = DOMAIN INodes
      /\ Gains(dir, name, NoChild)
      /\ Kid(dir, name)' = NoChild
  BY <1>1, RemovedIsSound
<1>3. LinksNeverShort'
  <2>1. SUFFICES ASSUME NEW q \in DOMAIN INodes \ {Special} PROVE INodes'[q].st_nlink >= LinkCount(q)'
    BY <1>2 DEF LinksNeverShort
  <2>2. INodes[q].st_nlink \in Nat /\ INodes[q].st_nlink < LinkModulus /\ INodes[q].st_nlink >= LinkCount(q)
    BY INodeType, NamespaceAssumption DEF LinksNeverShort, Sound
  <2>3. LinkCount(q) \in Nat /\ q # NoChild
    BY FiniteNames, Table DEF Sound
  <2>4. IsDirectory(q)' <=> IsDirectory(q)
    BY <1>1 DEF RemovedFields, IsDirectory
  <2>5. CASE q = ino
    <3>1. ~(Named(ino)')
      <4>1. NamesOf(ino)' \subseteq NamesOf(ino)
        BY <1>2, <2>3, <2>5, NamesAfterGain
      <4>2. <<dir, name>> \notin NamesOf(ino)'
        BY <1>1, <1>2 DEF NamesOf, Kid
      <4>3. <<dir, name>> \in NamesOf(ino)
        BY <1>1, NameIsEntry DEF Entry
      <4>4. NamesOf(ino)' = {}
        BY <1>1, <4>1, <4>2, <4>3 DEF Sound, OneNameEach
      <4> QED BY <1>1, <4>4 DEF Named
    <3>2. LinkCount(ino)' = 0
      BY <1>1, <2>4, <2>5, <3>1 DEF LinkCount
    <3>3. INodes'[ino].st_nlink = 0
      BY <1>1 DEF RemovedFields
    <3> QED BY <2>5, <3>2, <3>3
  <2>6. CASE q = dir
    <3>1. IsDirectory(q) /\ Named(q) /\ IsDirectory(q)'
      BY <2>4, <2>6 DEF Usable
    <3>2. /\ IsFiniteSet(Subdirectories(q)) /\ Cardinality(Subdirectories(q)) \in Nat
          /\ LinkCount(q) = (IF q = Root THEN 3 ELSE 2) + Cardinality(Subdirectories(q))
      BY <3>1, FiniteNames DEF Sound
    <3>3. name \in Subdirectories(q)
      BY <1>1, <2>6 DEF Subdirectories, Free, ChildINodeNumberWithName, Kid
    <3>4. /\ IsFiniteSet(Subdirectories(q) \ {name})
          /\ Cardinality(Subdirectories(q) \ {name}) = Cardinality(Subdirectories(q)) - 1
      BY <3>2, <3>3, FS_RemoveElement
    <3>5. Subdirectories(q)' \subseteq Subdirectories(q) \ {name}
      <4>1. SUFFICES ASSUME NEW n \in Subdirectories(q)' PROVE n \in Subdirectories(q) /\ n # name
        OBVIOUS
      <4>2. n \in Names /\ Kid(q, n)' # NoChild
        BY <1>2, SubdirectoriesAfterGain DEF Sound
      <4>3. n # name
        BY <1>2, <2>6, <4>2
      <4>4. n \in Subdirectories(q) \/ n = name
        BY <1>2, SubdirectoriesAfterGain DEF Sound
      <4> QED BY <4>3, <4>4
    <3>6. /\ LinkCount(q)' \in Nat
          /\ LinkCount(q)' <= (IF q = Root THEN 3 ELSE 2) + Cardinality(Subdirectories(q) \ {name})
      BY <3>1, <3>4, <3>5, DirectoryCount
    <3>7. INodes[q].st_nlink - 1 \in Nat /\ INodes[q].st_nlink - 1 < LinkModulus
      BY <2>2, <3>2, NamespaceAssumption
    <3>8. INodes'[q].st_nlink = INodes[q].st_nlink - 1
      <4>1. INodes'[q].st_nlink = (INodes[q].st_nlink - 1) % LinkModulus
        BY <1>1, <2>6 DEF RemovedFields, left, LeftLinks
      <4>2. (INodes[q].st_nlink - 1) % LinkModulus = INodes[q].st_nlink - 1
        BY <3>7, SmallMod
      <4> QED BY <4>1, <4>2
    <3> QED BY <2>2, <3>2, <3>4, <3>6, <3>8
  <2>7. CASE q # ino /\ q # dir
    <3>1. LinkCount(q)' \in Nat /\ LinkCount(q)' <= LinkCount(q)
      BY <1>2, <2>3, CountAfterGain
    <3>2. INodes'[q].st_nlink = INodes[q].st_nlink
      BY <1>1, <2>7 DEF RemovedFields
    <3> QED BY <2>2, <2>3, <3>1, <3>2
  <2> QED BY <2>5, <2>6, <2>7
<1> QED BY <1>2, <1>3

LEMMA RemoveKeepsSound ==
    ASSUME Sound, LinksNeverShort, IsFiniteSet(Names), Remove
    PROVE  Sound' /\ LinksNeverShort'
<1>1. PICK dir \in DOMAIN INodes, ino \in DOMAIN INodes, name \in Names :
         /\ Usable(dir) /\ Found(dir, name, ino)
         /\ IF IsDirectory(ino) THEN FuseRmdir(dir, name) ELSE FuseUnlink(dir, name)
  BY DEF Remove
<1> QED BY <1>1, RmdirKeepsSound, UnlinkKeepsSound
-----------------------------------------------------------------------------
(* The links that a rename of a directory of dir over one of newdir leaves: *)
(* one less for its parent, one more for the new one.                      *)
MovedLinks(q, dir, newdir) ==
    LET less == IF q = dir THEN LeftLinks(dir) ELSE INodes[q].st_nlink
    IN  IF q = newdir THEN (less + 1) % LinkModulus ELSE less

LEMMA LinkMoved ==
    ASSUME TypeOK, NEW dir \in DOMAIN INodes, NEW newdir \in DOMAIN INodes,
           NEW t, t = AddHardLink(RemoveHardLink(INodes, dir), newdir)
    PROVE  /\ t \in [DOMAIN INodes -> INodeRecords(DOMAIN INodes)]
           /\ \A q \in DOMAIN INodes :
                 /\ t[q].type = INodes[q].type
                 /\ t[q].m_nlookup = INodes[q].m_nlookup
                 /\ t[q].m_children = INodes[q].m_children
                 /\ t[q].st_nlink = MovedLinks(q, dir, newdir)
<1>1. INodes \in [DOMAIN INodes -> INodeRecords(DOMAIN INodes)]
  BY Table
<1> DEFINE left == LeftLinks(dir)
           marked == LeftMarked(dir)
           oneLess == [INodes[dir] EXCEPT !.st_nlink = left, !.markedForDeletion = marked]
           t1 == [INodes EXCEPT ![dir] = oneLess]
           more == (t1[newdir].st_nlink + 1) % LinkModulus
           oneMore == [t1[newdir] EXCEPT !.st_nlink = more]
<1>2. RemoveHardLink(INodes, dir) = t1
  BY <1>1 DEF RemoveHardLink, INodeRecords, LeftLinks, LeftMarked
<1>3. left \in 0 .. LinkModulus - 1 /\ marked \in BOOLEAN
  BY INodeType, NamespaceAssumption DEF LeftLinks, LeftMarked
<1>4. t = [t1 EXCEPT ![newdir] = oneMore]
  <2> HIDE DEF t1
  <2> QED BY <1>2 DEF AddHardLink
<1>5. left = LeftLinks(dir)
  OBVIOUS
<1> HIDE DEF left, marked
<1>6. oneLess \in INodeRecords(DOMAIN INodes)
  BY <1>1, <1>3 DEF INodeRecords
<1>7. /\ oneLess.type = INodes[dir].type /\ oneLess.m_nlookup = INodes[dir].m_nlookup
      /\ oneLess.m_children = INodes[dir].m_children /\ oneLess.st_nlink = left
  BY <1>1 DEF INodeRecords
<1> HIDE DEF oneLess
<1>8. /\ t1 \in [DOMAIN INodes -> INodeRecords(DOMAIN INodes)]
      /\ \A q \in DOMAIN INodes :
            /\ t1[q].type = INodes[q].type
            /\ t1[q].m_nlookup = INodes[q].m_nlookup
            /\ t1[q].m_children = INodes[q].m_children
            /\ t1[q].st_nlink = IF q = dir THEN left ELSE INodes[q].st_nlink
  BY <1>1, <1>6, <1>7
<1> HIDE DEF t1
<1>9. more \in 0 .. LinkModulus - 1
  <2>1. t1[newdir].st_nlink \in 0 .. LinkModulus - 1
    BY <1>8 DEF INodeRecords
  <2> QED BY <2>1, NamespaceAssumption
<1>10. more = MovedLinks(newdir, dir, newdir)
  BY <1>5, <1>8 DEF MovedLinks
<1> HIDE DEF more
<1>11. oneMore \in INodeRecords(DOMAIN INodes)
  BY <1>8, <1>9 DEF INodeRecords
<1>12. /\ oneMore.type = t1[newdir].type /\ oneMore.m_nlookup = t1[newdir].m_nlookup
       /\ oneMore.m_children = t1[newdir].m_children /\ oneMore.st_nlink = more
  BY <1>8 DEF INodeRecords
<1> HIDE DEF oneMore
<1>13. /\ t \in [DOMAIN INodes -> INodeRecords(DOMAIN INodes)]
       /\ t[newdir] = oneMore
       /\ \A q \in DOMAIN INodes : q # newdir => t[q] = t1[q]
  BY <1>4, <1>8, <1>11
<1>14. ASSUME NEW q \in DOMAIN INodes
       PROVE  /\ t[q].type = INodes[q].type
              /\ t[q].m_nlookup = INodes[q].m_nlookup
              /\ t[q].m_children = INodes[q].m_children
              /\ t[q].st_nlink = MovedLinks(q, dir, newdir)
  <2>1. CASE q = newdir
    BY <1>8, <1>10, <1>12, <1>13, <2>1
  <2>2. CASE q # newdir
    BY <1>5, <1>8, <1>13, <2>2 DEF MovedLinks
  <2> QED BY <2>1, <2>2
<1> QED BY <1>13, <1>14

(* A rename, to a free name or over old, that leaves a directory in its    *)
(* parent unless it replaces one.                                          *)
Renamed(dir, name, newdir, newname, ino, old) ==
    /\ dir \in DOMAIN INodes /\ name \in Names /\ Kid(dir, name) = ino
    /\ newdir \in DOMAIN INodes /\ newname \in Names /\ Kid(newdir, newname) = old
    /\ IsDirectory(dir) /\ Named(dir) /\ IsDirectory(newdir) /\ Named(newdir)
    /\ ino \in DOMAIN INodes \ {Special, Root} /\ old # ino
    /\ old = NoChild => (IsDirectory(ino) => dir = newdir)
    /\ old # NoChild => (IsDirectory(old) <=> IsDirectory(ino))
    /\ INodes' \in [DOMAIN INodes -> INodeRecords(DOMAIN INodes)]
    /\ \A q \in DOMAIN INodes :
          /\ INodes'[q].type = INodes[q].type
          /\ INodes'[q].m_nlookup = INodes[q].m_nlookup
          /\ INodes'[q].st_nlink = IF old # NoChild /\ IsDirectory(ino) THEN MovedLinks(q, dir, newdir)
                                   ELSE INodes[q].st_nlink
    /\ \A q \in DOMAIN INodes, n \in Names :
          Kid(q, n)' = IF q = dir /\ n = name THEN NoChild
                       ELSE IF q = newdir /\ n = newname THEN ino ELSE Kid(q, n)
    /\ UNCHANGED <<DeletedINodes, m_reclaimingINodes>>

LEMMA ReplaceEffect ==
    ASSUME Sound, "move_directory" \notin Renames, Rename
    PROVE  \E dir, name, newdir, newname, ino, old : Renamed(dir, name, newdir, newname, ino, old)
<1>1. PICK dir \in DOMAIN INodes, newdir \in DOMAIN INodes, name \in Names, newname \in Names :
         KernelRenames(dir, name, newdir, newname) /\ FuseRename(dir, name, newdir, newname)
  BY DEF Rename
<1>2. PICK ino : ino = Kid(dir, name)
  OBVIOUS
<1>3. PICK old : old = Kid(newdir, newname)
  OBVIOUS
<1>4. /\ IsDirectory(dir) /\ Named(dir) /\ IsDirectory(newdir) /\ Named(newdir)
      /\ ino # NoChild
      /\ old # NoChild => old # ino /\ (IsDirectory(old) <=> IsDirectory(ino))
      /\ old = NoChild => (IsDirectory(ino) => dir = newdir)
  BY <1>1, <1>2, <1>3
     DEF KernelRenames, Usable, Found, Free, ChildINodeNumberWithName, Kid, RenameKind
<1>5. ino \in DOMAIN INodes \ {Special, Root}
  BY <1>1, <1>2, <1>4 DEF Sound, EntriesExist
<1>6. old # ino
  BY <1>4
<1>7. old > 0 <=> old # NoChild
  <2>1. old # NoChild => old \in DOMAIN INodes /\ old # Special
    BY <1>1, <1>3 DEF Sound, EntriesExist
  <2>2. old # NoChild => old \in Nat /\ old # 0
    BY <2>1, Table DEF Sound, Special
  <2> QED BY <2>2 DEF NoChild
<1> DEFINE t == IF old # NoChild /\ IsDirectory(old) THEN AddHardLink(RemoveHardLink(INodes, dir), newdir)
                ELSE INodes
<1>8. /\ INodes' = DeleteChild(UpdateChild(t, newdir, newname, ino), dir, name)
      /\ UNCHANGED <<DeletedINodes, m_reclaimingINodes>>
  BY <1>1, <1>2, <1>3, <1>7 DEF FuseRename, ChildINodeNumberWithName, Kid
<1>9. /\ t \in [DOMAIN INodes -> INodeRecords(DOMAIN INodes)]
      /\ \A q \in DOMAIN INodes :
            /\ t[q].type = INodes[q].type
            /\ t[q].m_nlookup = INodes[q].m_nlookup
            /\ t[q].m_children = INodes[q].m_children
            /\ t[q].st_nlink = IF old # NoChild /\ IsDirectory(ino) THEN MovedLinks(q, dir, newdir)
                               ELSE INodes[q].st_nlink
  <2>1. CASE old # NoChild /\ IsDirectory(old)
    <3>1. t = AddHardLink(RemoveHardLink(INodes, dir), newdir)
      BY <2>1
    <3> HIDE DEF t
    <3> QED BY <1>4, <2>1, <3>1, LinkMoved DEF Sound
  <2>2. CASE ~(old # NoChild /\ IsDirectory(old))
    BY <1>4, <2>2, Table DEF Sound
  <2> QED BY <2>1, <2>2
<1> HIDE DEF t
<1>10. /\ INodes' \in [DOMAIN INodes -> INodeRecords(DOMAIN INodes)]
       /\ \A q \in DOMAIN INodes :
             /\ INodes'[q].type = t[q].type
             /\ INodes'[q].st_nlink = t[q].st_nlink
             /\ INodes'[q].m_nlookup = t[q].m_nlookup
       /\ \A q \in DOMAIN INodes, n \in Names :
             Kid(q, n)' = IF q = dir /\ n = name THEN NoChild
                          ELSE IF q = newdir /\ n = newname THEN ino ELSE t[q].m_children[n]
  BY <1>5, <1>8, <1>9, EntryMovedIn
<1>11. \A q \in DOMAIN INodes, n \in Names : t[q].m_children[n] = Kid(q, n)
  BY <1>9 DEF Kid
<1>12. Renamed(dir, name, newdir, newname, ino, old)
  BY <1>1, <1>2, <1>3, <1>4, <1>5, <1>6, <1>8, <1>9, <1>10, <1>11 DEF Renamed
<1> QED BY <1>12

(* The links of two directories that have one at least are counted right.  *)
LEMMA MovedLinksCount ==
    ASSUME Sound, NoCountFull, NEW dir \in DOMAIN INodes, NEW newdir \in DOMAIN INodes,
           INodes[dir].st_nlink > 0, NEW q \in DOMAIN INodes
    PROVE  MovedLinks(q, dir, newdir) = INodes[q].st_nlink + (IF q = newdir THEN 1 ELSE 0)
                                                          - (IF q = dir THEN 1 ELSE 0)
<1>1. \A p \in DOMAIN INodes : INodes[p].st_nlink \in Nat /\ INodes[p].st_nlink + 1 < LinkModulus
  BY INodeType, NamespaceAssumption DEF NoCountFull, Sound
<1>2. LeftLinks(dir) = INodes[dir].st_nlink - 1
  <2>1. INodes[dir].st_nlink - 1 \in Nat /\ INodes[dir].st_nlink - 1 < LinkModulus
    BY <1>1, NamespaceAssumption
  <2> QED BY <2>1, SmallMod DEF LeftLinks
<1> DEFINE less == IF q = dir THEN LeftLinks(dir) ELSE INodes[q].st_nlink
<1>3. less = INodes[q].st_nlink - (IF q = dir THEN 1 ELSE 0) /\ less \in Nat /\ less + 1 < LinkModulus
  BY <1>1, <1>2, NamespaceAssumption
<1>4. MovedLinks(q, dir, newdir) = IF q = newdir THEN (less + 1) % LinkModulus ELSE less
  BY DEF MovedLinks
<1> HIDE DEF less
<1>5. (less + 1) % LinkModulus = less + 1
  <2>1. less + 1 \in Nat
    BY <1>3
  <2> QED BY <1>3, <2>1, SmallMod
<1> QED BY <1>1, <1>3, <1>4, <1>5

LEMMA RenameKeepsSound ==
    ASSUME Sound, LinksNeverShort, NoCountFull, IsFiniteSet(Names), "move_directory" \notin Renames, Rename
    PROVE  Sound' /\ LinksNeverShort'
<1>1. PICK dir, name, newdir, newname, ino, old : Renamed(dir, name, newdir, newname, ino, old)
  BY ReplaceEffect
<1>2. /\ DOMAIN INodes' = DOMAIN INodes /\ \A q \in DOMAIN INodes : q # NoChild
      /\ UNCHANGED <<DeletedINodes, m_reclaimingINodes>>
  BY <1>1, Table DEF Renamed, Sound
<1>3. \A q \in DOMAIN INodes : IsDirectory(q)' <=> IsDirectory(q)
  BY <1>1 DEF Renamed, IsDirectory
<1>4. Gains(newdir, newname, ino)
  BY <1>1, <1>2 DEF Renamed, Gains
<1>5. TypeOK'
  BY <1>1, <1>2, Table DEF Sound, TypeOK, Renamed
<1>6. ino \in DOMAIN INodes \ {Special, Root} /\ <<dir, name>> \in NamesOf(ino) /\ Named(ino)
  BY <1>1, NameIsEntry DEF Renamed, Entry, Named
<1>7. NamesOf(ino)' \subseteq (NamesOf(ino) \ {<<dir, name>>}) \cup {<<newdir, newname>>}
  <2>1. NamesOf(ino)' \subseteq NamesOf(ino) \cup {<<newdir, newname>>}
    BY <1>2, <1>4, <1>6, NamesAfterGain
  <2>2. <<dir, name>> \notin NamesOf(ino)'
    <3>1. Kid(dir, name)' = NoChild
      BY <1>1 DEF Renamed
    <3> QED BY <1>2, <1>6, <3>1 DEF NamesOf, Kid
  <2> QED BY <2>1, <2>2
<1>8. IsDirectory(ino)' => NamesOf(ino)' \subseteq {<<newdir, newname>>}
  <2>1. IsDirectory(ino)' => NamesOf(ino) \ {<<dir, name>>} = {}
    BY <1>3, <1>6 DEF Sound, OneNameEach
  <2> QED BY <1>7, <2>1
<1>9. EntriesExist' /\ OneNameEach'
  BY <1>2, <1>4, <1>6, <1>8, TreeAfterGain
<1>10. NoNumberTwice' /\ QueueUnused' /\ FirstTwo'
  <2>1. ino \notin {Special, Root} /\ INodes'[Special].m_nlookup = INodes[Special].m_nlookup
        /\ \A q \in DOMAIN INodes : INodes'[q].m_nlookup = INodes[q].m_nlookup
    BY <1>1, <1>6, Table DEF Sound, Renamed
  <2> QED BY <1>2, <1>4, <1>6, <2>1, QueueAfterGain
<1>11. ASSUME NEW q \in DOMAIN INodes \ {Special}
       PROVE  /\ INodes[q].st_nlink \in Nat /\ INodes[q].st_nlink >= LinkCount(q) /\ LinkCount(q) \in Nat
              /\ IsFiniteSet(NamesOf(q)) /\ Cardinality(NamesOf(q)) \in Nat
              /\ IsFiniteSet(Subdirectories(q)) /\ Cardinality(Subdirectories(q)) \in Nat
              /\ ~IsDirectory(q) => LinkCount(q) = Cardinality(NamesOf(q))
              /\ IsDirectory(q) /\ Named(q) =>
                    LinkCount(q) = (IF q = Root THEN 3 ELSE 2) + Cardinality(Subdirectories(q))
  BY INodeType, NamespaceAssumption, FiniteNames DEF LinksNeverShort, Sound
<1>12. /\ dir \in DOMAIN INodes \ {Special} /\ newdir \in DOMAIN INodes \ {Special}
       /\ IsDirectory(dir) /\ Named(dir) /\ IsDirectory(newdir) /\ Named(newdir)
       /\ name \in Names /\ newname \in Names /\ <<dir, name>> # <<newdir, newname>>
  BY <1>1 DEF Renamed, Sound, FirstTwo
<1>13. INodes[dir].st_nlink > 0
  BY <1>11, <1>12
<1>14. ASSUME NEW q \in DOMAIN INodes \ {Special}, ~IsDirectory(q)
       PROVE  INodes'[q].st_nlink >= LinkCount(q)'
  <2>1. INodes'[q].st_nlink = INodes[q].st_nlink
    <3>1. q # dir /\ q # newdir
      BY <1>12, <1>14
    <3> QED BY <1>1, <3>1 DEF Renamed, MovedLinks
  <2>2. LinkCount(q)' \in Nat /\ LinkCount(q)' <= Cardinality(NamesOf(q))
    <3>1. CASE q # ino
      <4>1. NamesOf(q)' \subseteq NamesOf(q)
        BY <1>2, <1>4, <3>1, NamesAfterGain
      <4> QED BY <1>3, <1>11, <1>14, <4>1, FileCount
    <3>2. CASE q = ino
      <4> DEFINE kept == NamesOf(ino) \ {<<dir, name>>}
      <4>1. IsFiniteSet(kept) /\ Cardinality(kept) = Cardinality(NamesOf(ino)) - 1
        BY <1>6, <1>11, <3>2, FS_RemoveElement
      <4>2. Cardinality(kept) \in Nat
        BY <4>1, FS_CardinalityType
      <4>3. NamesOf(ino)' \subseteq kept \cup {<<newdir, newname>>}
        BY <1>7
      <4> HIDE DEF kept
      <4>4. /\ IsFiniteSet(kept \cup {<<newdir, newname>>}) /\ Cardinality(kept \cup {<<newdir, newname>>}) \in Nat
            /\ Cardinality(kept \cup {<<newdir, newname>>}) <= Cardinality(kept) + 1
        BY <4>1, OneMore
      <4>5. LinkCount(ino)' \in Nat /\ LinkCount(ino)' <= Cardinality(kept \cup {<<newdir, newname>>})
        BY <1>3, <1>14, <3>2, <4>3, <4>4, FileCount
      <4>6. Cardinality(NamesOf(ino)) \in Nat
        BY <1>11, <3>2
      <4> QED BY <3>2, <4>1, <4>2, <4>4, <4>5, <4>6
    <3> QED BY <3>1, <3>2
  <2> QED BY <1>11, <1>14, <2>1, <2>2
<1>15. ASSUME NEW q \in DOMAIN INodes, NEW n \in Subdirectories(q)'
       PROVE  /\ n \in Subdirectories(q) \/ (q = newdir /\ n = newname /\ IsDirectory(ino))
              /\ ~(q = dir /\ n = name)
  <2>1. /\ Kid(q, n)' # NoChild
        /\ n \in Subdirectories(q) \/ (q = newdir /\ n = newname /\ IsDirectory(ino)')
    BY <1>4, SubdirectoriesAfterGain DEF Sound
  <2>2. Kid(dir, name)' = NoChild
    BY <1>1 DEF Renamed
  <2> QED BY <1>3, <1>6, <2>1, <2>2
(* A directory counts no more than the links that it is left with. *)
<1>16. ASSUME NEW q \in DOMAIN INodes \ {Special}, IsDirectory(q)
       PROVE  INodes'[q].st_nlink >= LinkCount(q)'
  <2>1. IsDirectory(q)' /\ (Named(q)' => Named(q))
    BY <1>2, <1>3, <1>4, <1>6, <1>16, NamesAfterGain
  <2>2. /\ INodes[q].st_nlink \in Nat /\ INodes[q].st_nlink >= LinkCount(q) /\ LinkCount(q) \in Nat
        /\ IsFiniteSet(Subdirectories(q)) /\ Cardinality(Subdirectories(q)) \in Nat
        /\ Named(q) => LinkCount(q) = (IF q = Root THEN 3 ELSE 2) + Cardinality(Subdirectories(q))
    BY <1>11, <1>16
  <2>3. ASSUME Subdirectories(q)' \subseteq Subdirectories(q), INodes'[q].st_nlink \in Nat,
               INodes'[q].st_nlink >= INodes[q].st_nlink
        PROVE  INodes'[q].st_nlink >= LinkCount(q)'
    <3>1. /\ LinkCount(q)' \in Nat
          /\ LinkCount(q)' <= (IF q = Root THEN 3 ELSE 2) + Cardinality(Subdirectories(q))
          /\ ~(Named(q)') => LinkCount(q)' = 0
      BY <2>1, <2>2, <2>3, DirectoryCount
    <3> QED BY <2>1, <2>2, <2>3, <3>1
  <2>4. CASE ~IsDirectory(ino)
    <3>1. Subdirectories(q)' \subseteq Subdirectories(q)
      BY <1>15, <2>4
    <3>2. INodes'[q].st_nlink = INodes[q].st_nlink
      BY <1>1, <2>4 DEF Renamed
    <3> QED BY <2>2, <2>3, <3>1, <3>2
  <2> DEFINE fewer == Subdirectories(q) \ {name}
  <2>5. ASSUME q = dir, IsDirectory(ino)
        PROVE  /\ IsFiniteSet(fewer) /\ Cardinality(fewer) \in Nat
               /\ Cardinality(fewer) = Cardinality(Subdirectories(q)) - 1
    <3>1. name \in Subdirectories(q)
      BY <1>1, <1>2, <1>6, <2>5 DEF Renamed, Subdirectories, Free, ChildINodeNumberWithName, Kid
    <3>2. IsFiniteSet(fewer) /\ Cardinality(fewer) = Cardinality(Subdirectories(q)) - 1
      BY <2>2, <3>1, FS_RemoveElement
    <3> QED BY <3>2, FS_CardinalityType
  <2> HIDE DEF fewer
  <2>6. CASE IsDirectory(ino) /\ old = NoChild
    <3>1. dir = newdir /\ INodes'[q].st_nlink = INodes[q].st_nlink
      BY <1>1, <2>6 DEF Renamed
    <3>2. CASE q # dir
      <4>1. Subdirectories(q)' \subseteq Subdirectories(q)
        BY <1>15, <3>1, <3>2
      <4> QED BY <2>2, <2>3, <3>1, <4>1
    <3>3. CASE q = dir
      <4>1. Subdirectories(q)' \subseteq fewer \cup {newname}
        BY <1>15, <3>3 DEF fewer
      <4>2. /\ IsFiniteSet(fewer \cup {newname}) /\ Cardinality(fewer \cup {newname}) \in Nat
            /\ Cardinality(fewer \cup {newname}) <= Cardinality(fewer) + 1
        BY <2>5, <2>6, <3>3, OneMore
      <4>3. /\ LinkCount(q)' \in Nat
            /\ LinkCount(q)' <= (IF q = Root THEN 3 ELSE 2) + Cardinality(fewer \cup {newname})
        BY <2>1, <4>1, <4>2, DirectoryCount
      <4>4. Cardinality(fewer) = Cardinality(Subdirectories(q)) - 1 /\ Cardinality(fewer) \in Nat
        BY <2>5, <2>6, <3>3
      <4>5. LinkCount(q) = (IF q = Root THEN 3 ELSE 2) + Cardinality(Subdirectories(q))
        BY <1>12, <2>2, <3>3
      <4> QED BY <2>2, <3>1, <4>2, <4>3, <4>4, <4>5
    <3> QED BY <3>2, <3>3
  <2>7. CASE IsDirectory(ino) /\ old # NoChild
    <3>1. INodes'[q].st_nlink = MovedLinks(q, dir, newdir)
      BY <1>1, <2>7 DEF Renamed
    <3>2. MovedLinks(q, dir, newdir) = INodes[q].st_nlink + (IF q = newdir THEN 1 ELSE 0)
                                                         - (IF q = dir THEN 1 ELSE 0)
      BY <1>12, <1>13, MovedLinksCount
    <3>3. newname \in Subdirectories(newdir)
      BY <1>1, <2>7 DEF Renamed, Subdirectories, Free, ChildINodeNumberWithName, Kid
    <3>4. Subdirectories(q)' \subseteq Subdirectories(q)
      BY <1>15, <3>3
    <3>5. CASE q # dir \/ q = newdir
      <4>1. INodes'[q].st_nlink \in Nat /\ INodes'[q].st_nlink >= INodes[q].st_nlink
        BY <2>2, <3>1, <3>2, <3>5
      <4> QED BY <2>3, <3>4, <4>1
    <3>6. CASE q = dir /\ q # newdir
      <4>1. Subdirectories(q)' \subseteq fewer
        BY <1>15, <3>4, <3>6 DEF fewer
      <4>2. /\ LinkCount(q)' \in Nat
            /\ LinkCount(q)' <= (IF q = Root THEN 3 ELSE 2) + Cardinality(fewer)
        BY <2>1, <2>5, <2>7, <3>6, <4>1, DirectoryCount
      <4>3. Cardinality(fewer) = Cardinality(Subdirectories(q)) - 1 /\ Cardinality(fewer) \in Nat
        BY <2>5, <2>7, <3>6
      <4>4. LinkCount(q) = (IF q = Root THEN 3 ELSE 2) + Cardinality(Subdirectories(q))
        BY <1>12, <2>2, <3>6
      <4>5. INodes'[q].st_nlink = INodes[q].st_nlink - 1
        BY <2>2, <3>1, <3>2, <3>6
      <4> QED BY <2>2, <4>2, <4>3, <4>4, <4>5
    <3> QED BY <3>5, <3>6
  <2> QED BY <2>4, <2>6, <2>7
<1>17. LinksNeverShort'
  BY <1>2, <1>14, <1>16 DEF LinksNeverShort
<1> QED BY <1>5, <1>9, <1>10, <1>17 DEF Sound
-----------------------------------------------------------------------------
LEMMA NextKeepsSound ==
    ASSUME Sound, LinksNeverShort, NoCountFull, IsFiniteSet(Names), "move_directory" \notin Renames,
           MaxLookups > 0, [Next]_vars
    PROVE  Sound' /\ LinksNeverShort'
<1>1. CASE Make
  BY <1>1, MakeKeepsSound
<1>2. CASE LookUp
  BY <1>2, LookUpKeepsSound
<1>3. CASE Forget
  BY <1>3, ForgetKeepsSound
<1>4. CASE Link
  BY <1>4, LinkKeepsSound
<1>5. CASE Remove
  BY <1>5, RemoveKeepsSound
<1>6. CASE Rename
  BY <1>6, RenameKeepsSound
<1>7. CASE UNCHANGED vars
  <2>1. INodes' = INodes /\ DeletedINodes' = DeletedINodes /\ m_reclaimingINodes' = m_reclaimingINodes
    BY <1>7 DEF vars
  <2>2. SameShape /\ TypeOK' /\ NoNumberTwice'
    BY <2>1 DEF SameShape, Sound, TypeOK, NoNumberTwice
  <2>3. \A q \in DOMAIN INodes : InQueue(q)' => ~Named(q) /\ ~(Held(q)') /\ q # Special
    BY <2>1 DEF Sound, QueueUnused, FirstTwo, InQueue, Held
  <2> QED BY <2>1, <2>2, <2>3, ShapeKeepsSound
<1> QED BY <1>1, <1>2, <1>3, <1>4, <1>5, <1>6, <1>7 DEF Next

LEMMA InitIsSound == ASSUME Init PROVE Sound /\ LinksNeverShort
<1>1. IInv
  BY InitEstablishes
<1>2. LinksNeverShort
  <2>1. SUFFICES ASSUME NEW q \in DOMAIN INodes \ {Special} PROVE INodes[q].st_nlink >= LinkCount(q)
    BY DEF LinksNeverShort
  <2>2. INodes[q].st_nlink \in Nat
    BY <1>1, INodeType, NamespaceAssumption DEF IInv
  <2> QED BY <1>1, <2>2 DEF IInv, LinkCountsExact
<1> QED BY <1>1, <1>2, ExactIsSound

(* Renames over names in use make link counts wrong in one direction only: *)
(* FuseRename leaves the links of what it replaces, so that no inode has   *)
(* fewer than its names, and FuseForget queues none that is still named,   *)
(* as long as no unsigned count is so high that AddHardLink wraps it.      *)
THEOREM LinksNeverTooFew ==
    ASSUME IsFiniteSet(Names), "move_directory" \notin Renames, MaxLookups > 0
    PROVE  Spec /\ []NoCountFull => []LinksNeverShort
<1>1. Init => Sound /\ LinksNeverShort
  BY InitIsSound
<1>2. (Sound /\ LinksNeverShort) /\ NoCountFull /\ [Next]_vars => (Sound /\ LinksNeverShort)'
  BY NextKeepsSound
<1> QED BY <1>1, <1>2, PTL DEF Spec

(* Nor does RegisterINode give out a number in use then: a replaced inode  *)
(* may be lost for good, it is never given out early.                      *)
THEOREM ReuseSafeReplacing ==
    ASSUME IsFiniteSet(Names), "move_directory" \notin Renames, MaxLookups > 0
    PROVE  Spec /\ []NoCountFull => ReusedWereUnused
<1>1. Init => Sound /\ LinksNeverShort
  BY InitIsSound
<1>2. (Sound /\ LinksNeverShort) /\ NoCountFull /\ [Next]_vars => (Sound /\ LinksNeverShort)'
  BY NextKeepsSound
<1>3. Spec /\ []NoCountFull => []Sound
  BY <1>1, <1>2, PTL DEF Spec
<1>4. Sound /\ Sound' => (Len(DeletedINodes') < Len(DeletedINodes) =>
                             LET ino == Head(DeletedINodes) IN ~Named(ino) /\ ~Held(ino))
  BY HeadIsUnused
<1> QED BY <1>3, <1>4, PTL DEF ReusedWereUnused
=============================================================================
