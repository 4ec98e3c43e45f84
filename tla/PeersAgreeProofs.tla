-------------------------- MODULE PeersAgreeProofs --------------------------
(***************************************************************************)
(* What the replication of PeerToPeer is for: the peers agree.  Below, a   *)
(* log of operations leads from table to table, and every peer stands at   *)
(* some place of it.  Each place is reached from the one before by the     *)
(* same step whoever takes it, for no operation on the tree looks at the   *)
(* sizes, in which a peer that lags behind a write may differ; what is on  *)
(* its way to a peer are the operations between its place and the end; and *)
(* its block lists and sizes are those of the user once it has done its    *)
(* part in the exchange under way.                                         *)
(*                                                                         *)
(* At the end, the store that the peers are together: whoever is used      *)
(* next has the lists of who was used last, so what was written last to a  *)
(* file can be followed from the list of the peer in use.                  *)
(*                                                                         *)
(* Two assumptions: users settle, as in PeerToPeerProofs, and nobody makes *)
(* what the handlers do not announce.                                      *)
(***************************************************************************)
EXTENDS PeerToPeerProofs
-----------------------------------------------------------------------------
(* Tables that differ in sizes.                                            *)

(* A table without its sizes, which no operation on the tree depends on.   *)
Bare(t) == [ino \in DOMAIN t |-> WithSize(t[ino], 0, 0)]

LEMMA RecordsEqual ==
    ASSUME NEW numbers, NEW r \in INodeRecords(numbers), NEW s \in INodeRecords(numbers),
           r.type = s.type, r.st_nlink = s.st_nlink, r.m_children = s.m_children, r.dir_name = s.dir_name,
           r.st_size = s.st_size, r.st_blocks = s.st_blocks
    PROVE  r = s
  BY INodeFields

LEMMA SizeFields ==
    ASSUME NEW numbers, NEW r \in INodeRecords(numbers), NEW size \in Nat, NEW blocks \in Nat
    PROVE  /\ WithSize(r, size, blocks) \in INodeRecords(numbers)
           /\ WithSize(r, size, blocks).type = r.type /\ WithSize(r, size, blocks).st_nlink = r.st_nlink
           /\ WithSize(r, size, blocks).m_children = r.m_children /\ WithSize(r, size, blocks).dir_name = r.dir_name
           /\ WithSize(r, size, blocks).st_size = size /\ WithSize(r, size, blocks).st_blocks = blocks
<1>1. WithSize(r, size, blocks) \in INodeRecords(numbers)
  BY WithSizeType
<1> QED BY <1>1 DEF WithSize, INodeRecords

LEMMA LinksFields ==
    ASSUME NEW numbers, NEW r \in INodeRecords(numbers), NEW links \in Int
    PROVE  /\ WithLinks(r, links) \in INodeRecords(numbers)
           /\ WithLinks(r, links).type = r.type /\ WithLinks(r, links).st_nlink = links
           /\ WithLinks(r, links).m_children = r.m_children /\ WithLinks(r, links).dir_name = r.dir_name
           /\ WithLinks(r, links).st_size = r.st_size /\ WithLinks(r, links).st_blocks = r.st_blocks
<1>1. WithLinks(r, links) \in INodeRecords(numbers)
  BY WithLinksType
<1> QED BY <1>1 DEF WithLinks, INodeRecords

LEMMA ChildFields ==
    ASSUME NEW numbers, NEW r \in INodeRecords(numbers), NEW name, NEW child \in numbers \cup {NoChild}
    PROVE  /\ WithChild(r, name, child) \in INodeRecords(numbers)
           /\ WithChild(r, name, child).type = r.type /\ WithChild(r, name, child).st_nlink = r.st_nlink
           /\ Replaced(r.m_children, name, child, WithChild(r, name, child).m_children)
           /\ WithChild(r, name, child).dir_name = r.dir_name
           /\ WithChild(r, name, child).st_size = r.st_size /\ WithChild(r, name, child).st_blocks = r.st_blocks
<1>1. WithChild(r, name, child) \in INodeRecords(numbers)
  BY WithChildType
<1> QED BY <1>1 DEF WithChild, INodeRecords, Replaced

(* A table made bare after a change is the bare table changed.             *)
LEMMA BareLinks ==
    ASSUME NEW numbers, NEW r \in INodeRecords(numbers), NEW links \in Int
    PROVE  WithSize(WithLinks(r, links), 0, 0) = WithLinks(WithSize(r, 0, 0), links)
<1>1. PICK a \in INodeRecords(numbers) : a = WithLinks(r, links)
  BY LinksFields
<1>2. PICK b \in INodeRecords(numbers) : b = WithSize(r, 0, 0)
  BY SizeFields
<1>3. PICK c \in INodeRecords(numbers) : c = WithSize(a, 0, 0)
  BY SizeFields
<1>4. PICK d \in INodeRecords(numbers) : d = WithLinks(b, links)
  BY LinksFields
<1>5. c = d
  <2>1. /\ a.type = r.type /\ a.st_nlink = links /\ a.m_children = r.m_children /\ a.dir_name = r.dir_name
        /\ b.type = r.type /\ b.m_children = r.m_children /\ b.dir_name = r.dir_name
        /\ b.st_size = 0 /\ b.st_blocks = 0
    BY <1>1, <1>2, LinksFields, SizeFields
  <2>2. /\ c.type = a.type /\ c.st_nlink = a.st_nlink /\ c.m_children = a.m_children /\ c.dir_name = a.dir_name
        /\ c.st_size = 0 /\ c.st_blocks = 0
    BY <1>3, SizeFields
  <2>3. /\ d.type = b.type /\ d.st_nlink = links /\ d.m_children = b.m_children /\ d.dir_name = b.dir_name
        /\ d.st_size = b.st_size /\ d.st_blocks = b.st_blocks
    BY <1>4, LinksFields
  <2> QED BY <2>1, <2>2, <2>3, RecordsEqual
<1> QED BY <1>1, <1>2, <1>3, <1>4, <1>5

LEMMA BareChild ==
    ASSUME NEW numbers, NEW r \in INodeRecords(numbers), NEW name, NEW child \in numbers \cup {NoChild}
    PROVE  WithSize(WithChild(r, name, child), 0, 0) = WithChild(WithSize(r, 0, 0), name, child)
<1>1. PICK a \in INodeRecords(numbers) : a = WithChild(r, name, child)
  BY ChildFields
<1>2. PICK b \in INodeRecords(numbers) : b = WithSize(r, 0, 0)
  BY SizeFields
<1>3. PICK c \in INodeRecords(numbers) : c = WithSize(a, 0, 0)
  BY SizeFields
<1>4. PICK d \in INodeRecords(numbers) : d = WithChild(b, name, child)
  BY ChildFields
<1>5. c = d
  <2>1. /\ a.type = r.type /\ a.st_nlink = r.st_nlink /\ Replaced(r.m_children, name, child, a.m_children)
        /\ a.dir_name = r.dir_name
    BY <1>1, ChildFields
  <2>2. /\ b.type = r.type /\ b.st_nlink = r.st_nlink /\ b.m_children = r.m_children /\ b.dir_name = r.dir_name
        /\ b.st_size = 0 /\ b.st_blocks = 0
    BY <1>2, SizeFields
  <2>3. /\ c.type = a.type /\ c.st_nlink = a.st_nlink /\ c.m_children = a.m_children /\ c.dir_name = a.dir_name
        /\ c.st_size = 0 /\ c.st_blocks = 0
    BY <1>3, SizeFields
  <2>4. /\ d.type = b.type /\ d.st_nlink = b.st_nlink /\ Replaced(b.m_children, name, child, d.m_children)
        /\ d.dir_name = b.dir_name /\ d.st_size = b.st_size /\ d.st_blocks = b.st_blocks
    BY <1>4, ChildFields
  <2>5. c.m_children = d.m_children
    BY <2>1, <2>2, <2>3, <2>4 DEF Replaced
  <2> QED BY <2>1, <2>2, <2>3, <2>4, <2>5, RecordsEqual
<1> QED BY <1>1, <1>2, <1>3, <1>4, <1>5

LEMMA BareFacts ==
    ASSUME NEW n \in Nat, n > 1, NEW t, Table(t, n)
    PROVE  /\ Table(Bare(t), n) /\ DOMAIN Bare(t) = 0 .. n - 1
           /\ \A ino \in 0 .. n - 1 : /\ Bare(t)[ino].type = t[ino].type
                                      /\ Bare(t)[ino].st_nlink = t[ino].st_nlink
                                      /\ Bare(t)[ino].m_children = t[ino].m_children
                                      /\ Bare(t)[ino].dir_name = t[ino].dir_name
<1>1. DOMAIN t = 0 .. n - 1 /\ Root \in 0 .. n - 1 /\ Special \in 0 .. n - 1
      /\ \A ino \in 0 .. n - 1 : t[ino] \in INodeRecords(0 .. n - 1)
  BY TableFacts
<1>2. \A ino \in 0 .. n - 1 : Bare(t)[ino] = WithSize(t[ino], 0, 0)
  BY <1>1 DEF Bare
<1>3. ASSUME NEW ino \in 0 .. n - 1
      PROVE  /\ Bare(t)[ino] \in INodeRecords(0 .. n - 1) /\ Bare(t)[ino].type = t[ino].type
             /\ Bare(t)[ino].st_nlink = t[ino].st_nlink
             /\ Bare(t)[ino].m_children = t[ino].m_children /\ Bare(t)[ino].dir_name = t[ino].dir_name
  <2>1. t[ino] \in INodeRecords(0 .. n - 1) /\ Bare(t)[ino] = WithSize(t[ino], 0, 0)
    BY <1>1, <1>2
  <2>2. PICK numbers : numbers = 0 .. n - 1
    OBVIOUS
  <2>3. PICK r \in INodeRecords(numbers) : r = t[ino]
    BY <2>1, <2>2
  <2>4. /\ WithSize(r, 0, 0) \in INodeRecords(numbers)
        /\ WithSize(r, 0, 0).type = r.type /\ WithSize(r, 0, 0).st_nlink = r.st_nlink
        /\ WithSize(r, 0, 0).m_children = r.m_children /\ WithSize(r, 0, 0).dir_name = r.dir_name
    BY SizeFields
  <2> QED BY <2>1, <2>2, <2>3, <2>4
<1>4. Table(Bare(t), n) /\ DOMAIN Bare(t) = 0 .. n - 1
  BY <1>1, <1>3 DEF Table, Bare
<1> QED BY <1>3, <1>4

(* Who looks up types and children only finds the same in both.            *)
LEMMA SameLookups ==
    ASSUME NEW n \in Nat, n > 1, NEW t, Table(t, n), NEW s, Table(s, n), NEW path \in Seq(Names),
           \A ino \in 0 .. n - 1 : t[ino].type = s[ino].type /\ t[ino].m_children = s[ino].m_children
    PROVE  INodeAt(t, path) = INodeAt(s, path)
<1> DEFINE inT == CHOOSE at : LeadsThrough(t, path, Len(path), at)
           inS == CHOOSE at : LeadsThrough(s, path, Len(path), at)
           D == {k \in 0 .. Len(path) : inT[k] # inS[k] \/ inT[k] \notin 0 .. n - 1 \cup {NoChild}}
<1>1. Len(path) \in Nat
  OBVIOUS
<1>2. LeadsThrough(t, path, Len(path), inT) /\ LeadsThrough(s, path, Len(path), inS)
  BY <1>1, LookupsExist
<1>3. INodeAt(t, path) = inT[Len(path)] /\ INodeAt(s, path) = inS[Len(path)]
  BY DEF INodeAt, LeadsThrough
<1> HIDE DEF inT, inS
<1>4. SUFFICES D = {}
  BY <1>1, <1>3
<1>5. \A k \in 0 .. Len(path) :
         /\ inT[k] = IF k = 0 THEN Root ELSE ChildINodeNumberWithName(t, inT[k - 1], path[k])
         /\ inS[k] = IF k = 0 THEN Root ELSE ChildINodeNumberWithName(s, inS[k - 1], path[k])
  BY <1>2 DEF LeadsThrough
<1>6. SUFFICES ASSUME D # {} PROVE FALSE
  OBVIOUS
<1>7. PICK k \in D : \A j \in D : k <= j
  <2>1. D \in SUBSET Nat
    BY <1>1
  <2> QED BY <1>6, <2>1, NatHasSmallest
<1>8. k # 0
  BY <1>5, <1>7 DEF Root
<1>9. PICK ino : ino = inT[k - 1]
  OBVIOUS
<1>10. ino = inS[k - 1] /\ ino \in 0 .. n - 1 \cup {NoChild} /\ path[k] \in Names
  <2>1. k - 1 \notin D /\ k - 1 \in 0 .. Len(path) /\ k \in 1 .. Len(path)
    BY <1>1, <1>7, <1>8
  <2> QED BY <1>9, <2>1
<1>11. /\ ChildINodeNumberWithName(t, ino, path[k]) = ChildINodeNumberWithName(s, ino, path[k])
       /\ ChildINodeNumberWithName(t, ino, path[k]) \in 0 .. n - 1 \cup {NoChild}
  <2>1. CASE ino = NoChild
    BY <2>1 DEF ChildINodeNumberWithName, IsDirectory
  <2>2. CASE ino \in 0 .. n - 1
    <3>1. t[ino].m_children \in [Names -> 0 .. n - 1 \cup {NoChild}]
      BY <2>2, TableFacts, INodeFields
    <3> QED BY <1>10, <2>2, <3>1 DEF ChildINodeNumberWithName, IsDirectory
  <2> QED BY <1>10, <2>1, <2>2
<1> QED BY <1>5, <1>7, <1>8, <1>9, <1>10, <1>11

LEMMA BareLookups ==
    ASSUME NEW n \in Nat, n > 1, NEW t, Table(t, n), NEW path \in Seq(Names)
    PROVE  /\ INodeAt(Bare(t), path) = INodeAt(t, path)
           /\ IsDirectory(Bare(t), INodeAt(t, path)) = IsDirectory(t, INodeAt(t, path))
           /\ IsFile(Bare(t), INodeAt(t, path)) = IsFile(t, INodeAt(t, path))
<1>1. Table(Bare(t), n) /\ \A ino \in 0 .. n - 1 : /\ Bare(t)[ino].type = t[ino].type
                                                   /\ Bare(t)[ino].m_children = t[ino].m_children
  BY BareFacts
<1>2. INodeAt(Bare(t), path) = INodeAt(t, path)
  BY <1>1, SameLookups
<1>3. INodeAt(t, path) \in 0 .. n - 1 \cup {NoChild}
  BY INodeAtType
<1> QED BY <1>1, <1>2, <1>3 DEF IsDirectory, IsFile

(* What the kernel and a handler allow does not depend on sizes.           *)
LEMMA BareAllows ==
    ASSUME NEW n \in Nat, n > 1, NEW t, Table(t, n), NEW o \in AnyOperation
    PROVE  /\ KernelAllows(Bare(t), o) <=> KernelAllows(t, o)
           /\ KernelAllows(t, o) => (HandlerAllows(Bare(t), o) <=> HandlerAllows(t, o))
<1>1. o.path \in Seq(Names) /\ o.to \in Seq(Names) /\ Parent(o.path) \in Seq(Names) /\ Parent(o.to) \in Seq(Names)
  BY PathFacts DEF AnyOperation
<1>2. \A path \in Seq(Names) :
         /\ INodeAt(Bare(t), path) = INodeAt(t, path)
         /\ IsDirectory(Bare(t), INodeAt(t, path)) = IsDirectory(t, INodeAt(t, path))
         /\ IsFile(Bare(t), INodeAt(t, path)) = IsFile(t, INodeAt(t, path))
  BY BareLookups
<1>3. KernelRenames(Bare(t), o) <=> KernelRenames(t, o)
  BY <1>1, <1>2 DEF KernelRenames
<1>4. KernelAllows(Bare(t), o) <=> KernelAllows(t, o)
  BY <1>1, <1>2, <1>3 DEF KernelAllows
<1>5. ASSUME KernelAllows(t, o) PROVE HandlerAllows(Bare(t), o) <=> HandlerAllows(t, o)
  <2>1. CASE o.type = "DELETE_DIR"
    <3>1. INodeAt(t, o.path) \in 0 .. n - 1
      BY <1>5, <2>1, AllowedPaths DEF Makes
    <3>2. Bare(t)[INodeAt(t, o.path)].m_children = t[INodeAt(t, o.path)].m_children
      BY <3>1, BareFacts
    <3> QED BY <1>1, <1>2, <3>2 DEF HandlerAllows, HasChildren
  <2>2. CASE o.type # "DELETE_DIR"
    BY <2>2 DEF HandlerAllows
  <2> QED BY <2>1, <2>2
<1> QED BY <1>4, <1>5

(* An inode that is there keeps its size, and a new one has none.          *)
SizesStay(t, s) == /\ DOMAIN t \subseteq DOMAIN s
                   /\ \A ino \in DOMAIN s : s[ino].st_size = IF ino \in DOMAIN t THEN t[ino].st_size ELSE 0

LEMMA SizesStayTwice ==
    ASSUME NEW t, NEW s, NEW v, SizesStay(t, s), SizesStay(s, v)
    PROVE  SizesStay(t, v)
  BY DEF SizesStay

LEMMA BareReplaced ==
    ASSUME NEW n \in Nat, n > 1, NEW t, Table(t, n), NEW ino \in 0 .. n - 1, NEW r, NEW s, Replaced(t, ino, r, s)
    PROVE  Replaced(Bare(t), ino, WithSize(r, 0, 0), Bare(s))
<1>1. DOMAIN t = 0 .. n - 1 /\ t = [k \in 0 .. n - 1 |-> t[k]]
  BY DEF Table
<1>2. DOMAIN s = 0 .. n - 1 /\ s[ino] = r /\ \A k \in 0 .. n - 1 : k # ino => s[k] = t[k]
  BY <1>1 DEF Replaced
<1>3. Bare(s) = [k \in 0 .. n - 1 |-> WithSize(s[k], 0, 0)] /\ Bare(t) = [k \in 0 .. n - 1 |-> WithSize(t[k], 0, 0)]
  BY <1>1, <1>2 DEF Bare
<1> QED BY <1>2, <1>3 DEF Replaced

LEMMA SetLinksBare ==
    ASSUME NEW n \in Nat, n > 1, NEW t, Table(t, n), NEW ino \in 0 .. n - 1, NEW links \in Int
    PROVE  Bare(SetLinks(t, ino, links)) = SetLinks(Bare(t), ino, links)
<1>1. t[ino] \in INodeRecords(0 .. n - 1) /\ DOMAIN t = 0 .. n - 1
  BY TableFacts
<1>2. PICK r : r = WithLinks(t[ino], links)
  OBVIOUS
<1>3. Replaced(t, ino, r, SetLinks(t, ino, links))
  BY <1>2 DEF SetLinks, WithLinks, Replaced
<1>4. Replaced(Bare(t), ino, WithSize(r, 0, 0), Bare(SetLinks(t, ino, links)))
  BY <1>3, BareReplaced
<1>5. WithSize(r, 0, 0) = WithLinks(WithSize(t[ino], 0, 0), links)
  BY <1>1, <1>2, BareLinks
<1>6. WithSize(t[ino], 0, 0) = Bare(t)[ino]
  BY <1>1 DEF Bare
<1> QED BY <1>4, <1>5, <1>6 DEF Replaced, SetLinks, WithLinks

LEMMA SetChildBare ==
    ASSUME NEW n \in Nat, n > 1, NEW t, Table(t, n), NEW ino \in 0 .. n - 1,
           NEW name, NEW child \in 0 .. n - 1 \cup {NoChild}
    PROVE  Bare(SetChild(t, ino, name, child)) = SetChild(Bare(t), ino, name, child)
<1>1. t[ino] \in INodeRecords(0 .. n - 1) /\ DOMAIN t = 0 .. n - 1
  BY TableFacts
<1>2. PICK r : r = WithChild(t[ino], name, child)
  OBVIOUS
<1>3. Replaced(t, ino, r, SetChild(t, ino, name, child))
  BY <1>2 DEF SetChild, WithChild, Replaced
<1>4. Replaced(Bare(t), ino, WithSize(r, 0, 0), Bare(SetChild(t, ino, name, child)))
  BY <1>3, BareReplaced
<1>5. WithSize(r, 0, 0) = WithChild(WithSize(t[ino], 0, 0), name, child)
  BY <1>1, <1>2, BareChild
<1>6. WithSize(t[ino], 0, 0) = Bare(t)[ino]
  BY <1>1 DEF Bare
<1> QED BY <1>4, <1>5, <1>6 DEF Replaced, SetChild, WithChild

LEMMA RegisteredBare ==
    ASSUME NEW n \in Nat, n > 1, NEW t, Table(t, n), NEW r, WithSize(r, 0, 0) = r
    PROVE  Bare(Registered(t, r)) = Registered(Bare(t), r)
<1>1. DOMAIN t = 0 .. n - 1 /\ NextINode(t) = n
  BY TableFacts
<1>2. DOMAIN Bare(t) = 0 .. n - 1 /\ NextINode(Bare(t)) = n
  BY BareFacts, TableFacts
<1>3. Registered(t, r) = [ino \in 0 .. n - 1 \cup {n} |-> IF ino = n THEN r ELSE t[ino]]
  BY <1>1 DEF Registered
<1>4. Registered(Bare(t), r) = [ino \in 0 .. n - 1 \cup {n} |-> IF ino = n THEN r ELSE WithSize(t[ino], 0, 0)]
  BY <1>1, <1>2 DEF Registered, Bare
<1>5. Bare(Registered(t, r)) = [ino \in 0 .. n - 1 \cup {n} |-> WithSize(IF ino = n THEN r ELSE t[ino], 0, 0)]
  BY <1>3 DEF Bare
<1> QED BY <1>4, <1>5

LEMMA SizesReplaced ==
    ASSUME NEW n \in Nat, n > 1, NEW t, Table(t, n), NEW ino \in 0 .. n - 1, NEW r, r.st_size = t[ino].st_size,
           NEW s, Replaced(t, ino, r, s)
    PROVE  SizesStay(t, s)
  BY DEF Table, Replaced, SizesStay

LEMMA SetLinksStay ==
    ASSUME NEW n \in Nat, n > 1, NEW t, Table(t, n), NEW ino \in 0 .. n - 1, NEW links \in Int
    PROVE  SizesStay(t, SetLinks(t, ino, links))
<1>1. t[ino] \in INodeRecords(0 .. n - 1)
  BY TableFacts
<1>2. PICK r : r = WithLinks(t[ino], links)
  OBVIOUS
<1>3. Replaced(t, ino, r, SetLinks(t, ino, links))
  BY <1>2 DEF SetLinks, WithLinks, Replaced
<1>4. r.st_size = t[ino].st_size
  BY <1>1, <1>2, LinksFields
<1> QED BY <1>3, <1>4, SizesReplaced

LEMMA SetChildStay ==
    ASSUME NEW n \in Nat, n > 1, NEW t, Table(t, n), NEW ino \in 0 .. n - 1,
           NEW name, NEW child \in 0 .. n - 1 \cup {NoChild}
    PROVE  SizesStay(t, SetChild(t, ino, name, child))
<1>1. t[ino] \in INodeRecords(0 .. n - 1)
  BY TableFacts
<1>2. PICK r : r = WithChild(t[ino], name, child)
  OBVIOUS
<1>3. Replaced(t, ino, r, SetChild(t, ino, name, child))
  BY <1>2 DEF SetChild, WithChild, Replaced
<1>4. r.st_size = t[ino].st_size
  BY <1>1, <1>2, ChildFields
<1> QED BY <1>3, <1>4, SizesReplaced

LEMMA RegisteredStay ==
    ASSUME NEW n \in Nat, n > 1, NEW t, Table(t, n), NEW r, r.st_size = 0
    PROVE  SizesStay(t, Registered(t, r))
<1>1. DOMAIN t = 0 .. n - 1 /\ NextINode(t) = n
  BY TableFacts
<1> QED BY <1>1 DEF Registered, SizesStay

(* v is made of t as b is of the bare t. *)
Twin(t, v, b, n) == n \in Nat /\ n > 1 /\ Table(v, n) /\ Bare(v) = b /\ SizesStay(t, v)

LEMMA TwinStarts ==
    ASSUME NEW n \in Nat, n > 1, NEW t, Table(t, n)
    PROVE  Twin(t, t, Bare(t), n)
  BY DEF Twin, SizesStay

LEMMA TwinFacts ==
    ASSUME NEW t, NEW v, NEW b, NEW n, Twin(t, v, b, n), NEW ino \in 0 .. n - 1
    PROVE  b[ino].st_nlink = v[ino].st_nlink /\ v[ino].st_nlink - 1 \in Int /\ v[ino].st_nlink + 1 \in Int
<1>1. n \in Nat /\ n > 1 /\ Table(v, n) /\ Bare(v) = b
  BY DEF Twin
<1> QED BY <1>1, BareFacts, LinksOf

LEMMA TwinLinks ==
    ASSUME NEW t, NEW v, NEW b, NEW n, Twin(t, v, b, n), NEW ino \in 0 .. n - 1, NEW links \in Int
    PROVE  Twin(t, SetLinks(v, ino, links), SetLinks(b, ino, links), n)
<1>1. n \in Nat /\ n > 1 /\ Table(v, n) /\ Bare(v) = b /\ SizesStay(t, v)
  BY DEF Twin
<1>2. PICK s : s = SetLinks(v, ino, links)
  OBVIOUS
<1>3. Table(s, n) /\ SizesStay(v, s) /\ Bare(s) = SetLinks(b, ino, links)
  BY <1>1, <1>2, SetLinksKeeps, SetLinksStay, SetLinksBare
<1> QED BY <1>1, <1>2, <1>3, SizesStayTwice DEF Twin

LEMMA TwinChild ==
    ASSUME NEW t, NEW v, NEW b, NEW n, Twin(t, v, b, n), NEW ino \in 0 .. n - 1,
           NEW name, NEW child \in 0 .. n - 1 \cup {NoChild}
    PROVE  Twin(t, SetChild(v, ino, name, child), SetChild(b, ino, name, child), n)
<1>1. n \in Nat /\ n > 1 /\ Table(v, n) /\ Bare(v) = b /\ SizesStay(t, v)
  BY DEF Twin
<1>2. PICK s : s = SetChild(v, ino, name, child)
  OBVIOUS
<1>3. Table(s, n) /\ SizesStay(v, s) /\ Bare(s) = SetChild(b, ino, name, child)
  BY <1>1, <1>2, SetChildKeeps, SetChildStay, SetChildBare
<1> QED BY <1>1, <1>2, <1>3, SizesStayTwice DEF Twin

(* What a new inode is: it has no size and no children. *)
Fresh(r, numbers) == /\ r \in INodeRecords(numbers) /\ r.st_size = 0 /\ WithSize(r, 0, 0) = r
                     /\ \A name \in Names : r.m_children[name] = NoChild

LEMMA TwinRegistered ==
    ASSUME NEW t, NEW v, NEW b, NEW n, Twin(t, v, b, n), NEW r, Fresh(r, 0 .. n - 1)
    PROVE  Twin(t, Registered(v, r), Registered(b, r), n + 1)
<1>1. n \in Nat /\ n > 1 /\ Table(v, n) /\ Bare(v) = b /\ SizesStay(t, v)
  BY DEF Twin
<1>2. PICK s : s = Registered(v, r)
  OBVIOUS
<1>3. r \in INodeRecords(0 .. n - 1) /\ r.st_size = 0 /\ WithSize(r, 0, 0) = r
  BY DEF Fresh
<1>4. Table(s, n + 1) /\ SizesStay(v, s) /\ Bare(s) = Registered(b, r)
  BY <1>1, <1>2, <1>3, RegisteredKeeps, RegisteredStay, RegisteredBare
<1> QED BY <1>1, <1>2, <1>4, SizesStayTwice DEF Twin

LEMMA TwinInserted ==
    ASSUME NEW n \in Nat, n > 1, NEW t, Table(t, n), NEW path \in Seq(Names),
           INodeAt(t, Parent(path)) \in 0 .. n - 1, NEW r, Fresh(r, 0 .. n - 1)
    PROVE  Twin(t, Inserted(t, path, r), Inserted(Bare(t), path, r), n + 1)
<1> DEFINE dir == INodeAt(t, Parent(path))
<1>1. Twin(t, Registered(t, r), Registered(Bare(t), r), n + 1)
  BY TwinStarts, TwinRegistered
<1>2. NextINode(t) = n /\ NextINode(Bare(t)) = n
  BY TableFacts, BareFacts
<1>3. INodeAt(Bare(t), Parent(path)) = dir
  BY BareLookups, PathFacts
<1>4. Inserted(t, path, r) = SetChild(Registered(t, r), dir, Leaf(path), n)
  BY <1>2 DEF Inserted, SetChild
<1>5. Inserted(Bare(t), path, r) = SetChild(Registered(Bare(t), r), dir, Leaf(path), n)
  BY <1>2, <1>3 DEF Inserted, SetChild
<1>6. dir \in 0 .. (n + 1) - 1 /\ n \in 0 .. (n + 1) - 1
  OBVIOUS
<1> HIDE DEF dir
<1>7. Twin(t, SetChild(Registered(t, r), dir, Leaf(path), n), SetChild(Registered(Bare(t), r), dir, Leaf(path), n), n + 1)
  BY <1>1, <1>6, TwinChild
<1> QED BY <1>4, <1>5, <1>7

LEMMA FreshFields ==
    ASSUME NEW numbers, NEW r \in INodeRecords(numbers), r.st_size = 0, r.st_blocks = 0,
           \A name \in Names : r.m_children[name] = NoChild
    PROVE  Fresh(r, numbers)
<1>1. PICK s \in INodeRecords(numbers) : s = WithSize(r, 0, 0)
  BY SizeFields
<1>2. s = r
  BY <1>1, SizeFields, RecordsEqual
<1> QED BY <1>1, <1>2 DEF Fresh

LEMMA NewINodeFresh ==
    ASSUME NEW numbers, NEW type \in {"REGULAR_FILE", "SYMBOLIC_LINK"}
    PROVE  Fresh(NewINode(type, 1), numbers) /\ NewINode(type, 1).type = type
<1>1. PICK r : r = NewINode(type, 1)
  OBVIOUS
<1>2. /\ r \in INodeRecords(numbers) /\ r.st_size = 0 /\ r.st_blocks = 0 /\ r.type = type
      /\ \A name \in Names : r.m_children[name] = NoChild
  BY <1>1 DEF NewINode, INodeRecords
<1> QED BY <1>1, <1>2, FreshFields

LEMMA NewDirectoryFresh ==
    ASSUME NEW numbers, NEW names \in Seq(Names), NEW r, r = [NewINode("DIRECTORY", 2) EXCEPT !.dir_name = names]
    PROVE  Fresh(r, numbers) /\ r.dir_name = names /\ r.type = "DIRECTORY"
<1>1. r = [type |-> "DIRECTORY", st_nlink |-> 2, m_children |-> [name \in Names |-> NoChild],
           dir_name |-> names, st_size |-> 0, st_blocks |-> 0]
  BY DEF NewINode
<1>2. /\ r \in INodeRecords(numbers) /\ r.st_size = 0 /\ r.st_blocks = 0
      /\ r.dir_name = names /\ r.type = "DIRECTORY"
      /\ \A name \in Names : r.m_children[name] = NoChild
  BY <1>1 DEF INodeRecords
<1> QED BY <1>2, FreshFields

LEMMA TwinCounts ==
    ASSUME NEW t, NEW v, NEW b, NEW n, Twin(t, v, b, n), NEW ino \in 0 .. n - 1
    PROVE  /\ \E fewer \in Int : fewer = v[ino].st_nlink - 1 /\ fewer = b[ino].st_nlink - 1
           /\ \E more \in Int : more = v[ino].st_nlink + 1 /\ more = b[ino].st_nlink + 1
<1>1. b[ino].st_nlink = v[ino].st_nlink /\ v[ino].st_nlink - 1 \in Int /\ v[ino].st_nlink + 1 \in Int
  BY TwinFacts
<1>2. \E fewer \in Int : fewer = v[ino].st_nlink - 1 /\ fewer = b[ino].st_nlink - 1
  <2>1. v[ino].st_nlink - 1 \in Int
    BY <1>1
  <2> WITNESS v[ino].st_nlink - 1 \in Int
  <2> QED BY <1>1
<1>3. \E more \in Int : more = v[ino].st_nlink + 1 /\ more = b[ino].st_nlink + 1
  <2>1. v[ino].st_nlink + 1 \in Int
    BY <1>1
  <2> WITNESS v[ino].st_nlink + 1 \in Int
  <2> QED BY <1>1
<1> QED BY <1>2, <1>3

LEMMA TwinMade ==
    ASSUME NEW n \in Nat, n > 1, NEW t, Table(t, n), NEW path \in Seq(Names),
           INodeAt(t, Parent(path)) \in 0 .. n - 1
    PROVE  Twin(t, FuseCreate(t, path), FuseCreate(Bare(t), path), n + 1)
<1>1. PICK r : r = NewINode("REGULAR_FILE", 1)
  OBVIOUS
<1>2. Fresh(r, 0 .. n - 1)
  BY <1>1, NewINodeFresh
<1>3. Twin(t, Inserted(t, path, r), Inserted(Bare(t), path, r), n + 1)
  BY <1>2, TwinInserted
<1> QED BY <1>1, <1>3 DEF FuseCreate

LEMMA TwinMkdir ==
    ASSUME NEW n \in Nat, n > 1, NEW t, Table(t, n), NEW path \in Seq(Names),
           INodeAt(t, Parent(path)) \in 0 .. n - 1, Leaf(path) \in Names
    PROVE  Twin(t, FuseMkdir(t, path), FuseMkdir(Bare(t), path), n + 1)
<1>1. PICK parent \in 0 .. n - 1 : parent = INodeAt(t, Parent(path))
  OBVIOUS
<1>2. PICK names \in Seq(Names) : names = Append(t[parent].dir_name, Leaf(path))
  <2>1. t[parent].dir_name \in Seq(Names)
    BY TableFacts, INodeFields
  <2>2. Append(t[parent].dir_name, Leaf(path)) \in Seq(Names)
    BY <2>1
  <2> WITNESS Append(t[parent].dir_name, Leaf(path)) \in Seq(Names)
  <2> QED OBVIOUS
<1>3. PICK r : r = [NewINode("DIRECTORY", 2) EXCEPT !.dir_name = names]
  OBVIOUS
<1>4. Fresh(r, 0 .. n - 1)
  BY <1>3, NewDirectoryFresh
<1>5. PICK v : v = Inserted(t, path, r)
  OBVIOUS
<1>6. PICK b : b = Inserted(Bare(t), path, r)
  OBVIOUS
<1>7. Twin(t, v, b, n + 1)
  BY <1>1, <1>4, <1>5, <1>6, TwinInserted
<1>8. parent \in 0 .. (n + 1) - 1
  OBVIOUS
<1>9. b[parent].st_nlink = v[parent].st_nlink /\ v[parent].st_nlink + 1 \in Int
  BY <1>7, <1>8, TwinFacts
<1>10. FuseMkdir(t, path) = SetLinks(v, parent, v[parent].st_nlink + 1)
  BY <1>1, <1>2, <1>3, <1>5 DEF FuseMkdir, SetLinks
<1>11. FuseMkdir(Bare(t), path) = SetLinks(b, parent, b[parent].st_nlink + 1)
  <2>1. INodeAt(Bare(t), Parent(path)) = parent
    BY <1>1, BareLookups, PathFacts
  <2>2. Bare(t)[parent].dir_name = t[parent].dir_name
    BY BareFacts
  <2> QED BY <1>2, <1>3, <1>6, <2>1, <2>2 DEF FuseMkdir, SetLinks
<1> QED BY <1>7, <1>8, <1>9, <1>10, <1>11, TwinLinks

LEMMA TwinUnlink ==
    ASSUME NEW n \in Nat, n > 1, NEW t, Table(t, n), NEW path \in Seq(Names),
           INodeAt(t, path) \in 0 .. n - 1, INodeAt(t, Parent(path)) \in 0 .. n - 1
    PROVE  Twin(t, FuseUnlink(t, path), FuseUnlink(Bare(t), path), n)
<1>1. PICK ino \in 0 .. n - 1 : ino = INodeAt(t, path) /\ ino = INodeAt(Bare(t), path)
  BY BareLookups
<1>2. PICK dir \in 0 .. n - 1 : dir = INodeAt(t, Parent(path)) /\ dir = INodeAt(Bare(t), Parent(path))
  BY BareLookups, PathFacts
<1>3. Twin(t, t, Bare(t), n)
  BY TwinStarts
<1>4. PICK links \in Int : links = t[ino].st_nlink - 1 /\ links = Bare(t)[ino].st_nlink - 1
  BY <1>3, TwinCounts
<1>5. Twin(t, SetLinks(t, ino, links), SetLinks(Bare(t), ino, links), n)
  BY <1>3, TwinLinks
<1>6. Twin(t, SetChild(SetLinks(t, ino, links), dir, Leaf(path), NoChild),
           SetChild(SetLinks(Bare(t), ino, links), dir, Leaf(path), NoChild), n)
  BY <1>5, TwinChild
<1>7. /\ FuseUnlink(t, path) = SetChild(SetLinks(t, ino, links), dir, Leaf(path), NoChild)
      /\ FuseUnlink(Bare(t), path) = SetChild(SetLinks(Bare(t), ino, links), dir, Leaf(path), NoChild)
  BY <1>1, <1>2, <1>4 DEF FuseUnlink, SetLinks, SetChild
<1> QED BY <1>6, <1>7

LEMMA TwinRmdir ==
    ASSUME NEW n \in Nat, n > 1, NEW t, Table(t, n), NEW path \in Seq(Names),
           INodeAt(t, path) \in 0 .. n - 1, INodeAt(t, Parent(path)) \in 0 .. n - 1
    PROVE  Twin(t, FuseRmdir(t, path), FuseRmdir(Bare(t), path), n)
<1>1. PICK ino \in 0 .. n - 1 : ino = INodeAt(t, path) /\ ino = INodeAt(Bare(t), path)
  BY BareLookups
<1>2. PICK dir \in 0 .. n - 1 : dir = INodeAt(t, Parent(path)) /\ dir = INodeAt(Bare(t), Parent(path))
  BY BareLookups, PathFacts
<1>3. PICK v : v = SetLinks(t, ino, 0)
  OBVIOUS
<1>4. PICK b : b = SetLinks(Bare(t), ino, 0)
  OBVIOUS
<1>5. Twin(t, v, b, n)
  BY <1>3, <1>4, TwinStarts, TwinLinks
<1>6. PICK links \in Int : links = v[dir].st_nlink - 1 /\ links = b[dir].st_nlink - 1
  BY <1>5, TwinCounts
<1>7. Twin(t, SetLinks(v, dir, links), SetLinks(b, dir, links), n)
  BY <1>5, TwinLinks
<1>8. Twin(t, SetChild(SetLinks(v, dir, links), dir, Leaf(path), NoChild),
           SetChild(SetLinks(b, dir, links), dir, Leaf(path), NoChild), n)
  BY <1>7, TwinChild
<1>9. /\ FuseRmdir(t, path) = SetChild(SetLinks(v, dir, links), dir, Leaf(path), NoChild)
      /\ FuseRmdir(Bare(t), path) = SetChild(SetLinks(b, dir, links), dir, Leaf(path), NoChild)
  BY <1>1, <1>2, <1>3, <1>4, <1>6 DEF FuseRmdir, SetLinks, SetChild
<1> QED BY <1>8, <1>9

LEMMA TwinRename ==
    ASSUME NEW n \in Nat, n > 1, NEW t, Table(t, n), NEW path \in Seq(Names), NEW to \in Seq(Names),
           INodeAt(t, path) \in 0 .. n - 1, INodeAt(t, Parent(path)) \in 0 .. n - 1,
           INodeAt(t, Parent(to)) \in 0 .. n - 1
    PROVE  Twin(t, FuseRename(t, path, to), FuseRename(Bare(t), path, to), n)
<1>1. PICK ino \in 0 .. n - 1 : ino = INodeAt(t, path) /\ ino = INodeAt(Bare(t), path)
  BY BareLookups
<1>2. PICK dir \in 0 .. n - 1 : dir = INodeAt(t, Parent(path)) /\ dir = INodeAt(Bare(t), Parent(path))
  BY BareLookups, PathFacts
<1>3. PICK newdir \in 0 .. n - 1 : newdir = INodeAt(t, Parent(to)) /\ newdir = INodeAt(Bare(t), Parent(to))
  BY BareLookups, PathFacts
<1>4. Twin(t, t, Bare(t), n)
  BY TwinStarts
<1>5. PICK links \in Int : links = t[dir].st_nlink - 1 /\ links = Bare(t)[dir].st_nlink - 1
  BY <1>4, TwinCounts
<1>6. PICK less : less = SetLinks(t, dir, links)
  OBVIOUS
<1>7. PICK lessBare : lessBare = SetLinks(Bare(t), dir, links)
  OBVIOUS
<1>8. Twin(t, less, lessBare, n)
  BY <1>4, <1>6, <1>7, TwinLinks
<1>9. PICK more \in Int : more = less[newdir].st_nlink + 1 /\ more = lessBare[newdir].st_nlink + 1
  <2>1. lessBare[newdir].st_nlink = less[newdir].st_nlink /\ less[newdir].st_nlink + 1 \in Int
    BY ONLY <1>8, <1>3, TwinFacts
  <2>2. PICK k \in Int : k = less[newdir].st_nlink + 1
    BY <2>1
  <2> QED BY <2>1, <2>2
<1>10. PICK v : v = IF IsDirectory(t, INodeAt(t, to)) THEN SetLinks(less, newdir, more) ELSE t
  OBVIOUS
<1>11. PICK b : b = IF IsDirectory(t, INodeAt(t, to)) THEN SetLinks(lessBare, newdir, more) ELSE Bare(t)
  OBVIOUS
<1>12. Twin(t, v, b, n)
  <2>1. Twin(t, SetLinks(less, newdir, more), SetLinks(lessBare, newdir, more), n)
    BY <1>8, TwinLinks
  <2> QED BY <1>4, <1>10, <1>11, <2>1
<1>13. Twin(t, SetChild(v, newdir, Leaf(to), ino), SetChild(b, newdir, Leaf(to), ino), n)
  BY <1>12, TwinChild
<1>14. Twin(t, SetChild(SetChild(v, newdir, Leaf(to), ino), dir, Leaf(path), NoChild),
            SetChild(SetChild(b, newdir, Leaf(to), ino), dir, Leaf(path), NoChild), n)
  BY <1>13, TwinChild
<1>15. FuseRename(t, path, to) = SetChild(SetChild(v, newdir, Leaf(to), ino), dir, Leaf(path), NoChild)
  BY <1>1, <1>2, <1>3, <1>5, <1>6, <1>9, <1>10 DEF FuseRename, SetLinks, SetChild
<1>16. FuseRename(Bare(t), path, to) = SetChild(SetChild(b, newdir, Leaf(to), ino), dir, Leaf(path), NoChild)
  <2>1. IsDirectory(Bare(t), INodeAt(Bare(t), to)) = IsDirectory(t, INodeAt(t, to))
    BY BareLookups
  <2> QED BY <1>1, <1>2, <1>3, <1>5, <1>7, <1>9, <1>11, <2>1 DEF FuseRename, SetLinks, SetChild
<1> QED BY <1>14, <1>15, <1>16

(* A handler makes of a bare table what it makes of the table, and leaves  *)
(* every size.                                                             *)
LEMMA AppliedBare ==
    ASSUME NEW n \in Nat, n > 1, NEW t, Table(t, n), NEW o \in AnyOperation, KernelAllows(t, o), o.type \in Announced
    PROVE  Bare(Applied(t, o)) = Applied(Bare(t), o) /\ SizesStay(t, Applied(t, o))
<1>1. /\ INodeAt(t, Parent(o.path)) \in 0 .. n - 1 /\ o.path \in Seq(Names) /\ o.to \in Seq(Names)
      /\ o.type \notin Makes => INodeAt(t, o.path) \in 0 .. n - 1
      /\ o.type = "RENAME" => INodeAt(t, Parent(o.to)) \in 0 .. n - 1 /\ o.to # <<>>
      /\ o.type # "DELETE_DIR" => o.path # <<>>
  BY AllowedPaths
<1>2. SUFFICES \E m : Twin(t, Applied(t, o), Applied(Bare(t), o), m)
  BY DEF Twin
<1>3. CASE o.type = "CREATE_FILE"
  BY <1>1, <1>3, TwinMade DEF Applied
<1>4. CASE o.type = "CREATE_DIR"
  BY <1>1, <1>4, TwinMkdir, PathFacts DEF Applied
<1>5. CASE o.type = "DELETE_FILE"
  BY <1>1, <1>5, TwinUnlink DEF Applied, Makes
<1>6. CASE o.type = "DELETE_DIR"
  BY <1>1, <1>6, TwinRmdir DEF Applied, Makes
<1>7. CASE o.type = "RENAME"
  BY <1>1, <1>7, TwinRename DEF Applied, Makes
<1> QED BY <1>3, <1>4, <1>5, <1>6, <1>7 DEF Announced

-----------------------------------------------------------------------------
(* Directories and the names that lead to them.                            *)

(* Every directory that a lookup finds was given the names that lead to it. *)
ChildNamed(t, dir, name, child) ==
    t[dir].type = "DIRECTORY" /\ child # NoChild /\ t[child].type = "DIRECTORY" =>
        t[child].dir_name = Append(t[dir].dir_name, name)
Named(t) == /\ t[Root].dir_name = <<>>
            /\ \A dir \in DOMAIN t, name \in Names : ChildNamed(t, dir, name, t[dir].m_children[name])

LEMMA ChildType ==
    ASSUME NEW n \in Nat, n > 1, NEW t, Table(t, n), NEW dir \in 0 .. n - 1, NEW name \in Names
    PROVE  t[dir].m_children[name] \in 0 .. n - 1 \cup {NoChild}
<1>1. t[dir].m_children \in [Names -> 0 .. n - 1 \cup {NoChild}]
  BY TableFacts, INodeFields
<1> QED BY <1>1

LEMMA NamedSame ==
    ASSUME NEW n \in Nat, n > 1, NEW t, Table(t, n), NEW s, Table(s, n), Named(t),
           \A ino \in 0 .. n - 1 : /\ t[ino].type = s[ino].type /\ t[ino].m_children = s[ino].m_children
                                   /\ t[ino].dir_name = s[ino].dir_name
    PROVE  Named(s)
<1>1. DOMAIN t = 0 .. n - 1 /\ DOMAIN s = 0 .. n - 1 /\ Root \in 0 .. n - 1
  BY TableFacts
<1>2. ASSUME NEW dir \in 0 .. n - 1, NEW name \in Names
      PROVE  ChildNamed(s, dir, name, s[dir].m_children[name])
  <2>1. s[dir].m_children[name] \in 0 .. n - 1 \cup {NoChild}
    BY ChildType
  <2>2. ChildNamed(t, dir, name, t[dir].m_children[name])
    BY <1>1 DEF Named
  <2> QED BY <2>1, <2>2 DEF ChildNamed
<1> QED BY <1>1, <1>2 DEF Named

LEMMA BareNamed ==
    ASSUME NEW n \in Nat, n > 1, NEW t, Table(t, n), NEW s, Table(s, n), Bare(t) = Bare(s), Named(t)
    PROVE  Named(s)
<1>1. \A ino \in 0 .. n - 1 : /\ t[ino].type = s[ino].type /\ t[ino].m_children = s[ino].m_children
                              /\ t[ino].dir_name = s[ino].dir_name
  <2>1. \A ino \in 0 .. n - 1 : /\ Bare(t)[ino].type = t[ino].type /\ Bare(t)[ino].m_children = t[ino].m_children
                                /\ Bare(t)[ino].dir_name = t[ino].dir_name
    BY BareFacts
  <2>2. \A ino \in 0 .. n - 1 : /\ Bare(s)[ino].type = s[ino].type /\ Bare(s)[ino].m_children = s[ino].m_children
                                /\ Bare(s)[ino].dir_name = s[ino].dir_name
    BY BareFacts
  <2> QED BY <2>1, <2>2
<1> QED BY <1>1, NamedSame

LEMMA SetLinksNamed ==
    ASSUME NEW n \in Nat, n > 1, NEW t, Table(t, n), Named(t), NEW ino \in 0 .. n - 1, NEW links \in Int
    PROVE  Table(SetLinks(t, ino, links), n) /\ Named(SetLinks(t, ino, links))
<1>1. PICK s : s = SetLinks(t, ino, links)
  OBVIOUS
<1>2. Table(s, n) /\ t[ino] \in INodeRecords(0 .. n - 1) /\ DOMAIN t = 0 .. n - 1
  BY <1>1, SetLinksKeeps, TableFacts
<1>3. Replaced(t, ino, WithLinks(t[ino], links), s)
  BY <1>1 DEF SetLinks, WithLinks, Replaced
<1>4. s[ino] = WithLinks(t[ino], links) /\ \A other \in 0 .. n - 1 : other # ino => s[other] = t[other]
  BY <1>2, <1>3 DEF Replaced
<1>5. s[ino].type = t[ino].type /\ s[ino].m_children = t[ino].m_children /\ s[ino].dir_name = t[ino].dir_name
  <2>1. PICK numbers : numbers = 0 .. n - 1
    OBVIOUS
  <2>2. PICK r \in INodeRecords(numbers) : r = t[ino]
    BY <1>2, <2>1
  <2>3. /\ WithLinks(r, links).type = r.type /\ WithLinks(r, links).m_children = r.m_children
        /\ WithLinks(r, links).dir_name = r.dir_name
    BY LinksFields
  <2> QED BY <1>4, <2>2, <2>3
<1>6. \A other \in 0 .. n - 1 : /\ t[other].type = s[other].type /\ t[other].m_children = s[other].m_children
                                /\ t[other].dir_name = s[other].dir_name
  BY <1>4, <1>5
<1> QED BY <1>1, <1>2, <1>6, NamedSame

LEMMA SetChildNamed ==
    ASSUME NEW n \in Nat, n > 1, NEW t, Table(t, n), Named(t), NEW ino \in 0 .. n - 1,
           NEW name \in Names, NEW child \in 0 .. n - 1 \cup {NoChild}, ChildNamed(t, ino, name, child)
    PROVE  Table(SetChild(t, ino, name, child), n) /\ Named(SetChild(t, ino, name, child))
<1>1. PICK s : s = SetChild(t, ino, name, child)
  OBVIOUS
<1>2. /\ Table(s, n) /\ t[ino] \in INodeRecords(0 .. n - 1) /\ DOMAIN t = 0 .. n - 1 /\ DOMAIN s = 0 .. n - 1
      /\ Root \in 0 .. n - 1
  BY <1>1, SetChildKeeps, TableFacts
<1>3. Replaced(t, ino, WithChild(t[ino], name, child), s)
  BY <1>1 DEF SetChild, WithChild, Replaced
<1>4. s[ino] = WithChild(t[ino], name, child) /\ \A other \in 0 .. n - 1 : other # ino => s[other] = t[other]
  BY <1>2, <1>3 DEF Replaced
<1>5. s[ino].type = t[ino].type /\ s[ino].dir_name = t[ino].dir_name
      /\ Replaced(t[ino].m_children, name, child, s[ino].m_children)
  BY <1>2, <1>4, ChildFields
<1>6. \A other \in 0 .. n - 1 : t[other].type = s[other].type /\ t[other].dir_name = s[other].dir_name
  BY <1>4, <1>5
<1>7. ASSUME NEW dir \in 0 .. n - 1, NEW other \in Names
      PROVE  ChildNamed(s, dir, other, s[dir].m_children[other])
  <2>1. s[dir].m_children[other] \in 0 .. n - 1 \cup {NoChild}
    BY <1>2, ChildType
  <2>2. CASE dir = ino /\ other = name
    <3>1. t[ino].m_children \in [Names -> 0 .. n - 1 \cup {NoChild}]
      BY <1>2, INodeFields
    <3>2. s[dir].m_children[other] = child
      BY <1>5, <2>2, <3>1 DEF Replaced
    <3> QED BY <1>6, <2>1, <2>2, <3>2 DEF ChildNamed
  <2>3. CASE ~(dir = ino /\ other = name)
    <3>1. t[ino].m_children \in [Names -> 0 .. n - 1 \cup {NoChild}]
      BY <1>2, INodeFields
    <3>2. s[dir].m_children[other] = t[dir].m_children[other]
      BY <1>4, <1>5, <2>3, <3>1 DEF Replaced
    <3>3. ChildNamed(t, dir, other, t[dir].m_children[other])
      BY <1>2 DEF Named
    <3> QED BY <1>6, <2>1, <3>2, <3>3 DEF ChildNamed
  <2> QED BY <2>2, <2>3
<1> QED BY <1>1, <1>2, <1>6, <1>7 DEF Named

LEMMA RegisteredNamed ==
    ASSUME NEW n \in Nat, n > 1, NEW t, Table(t, n), Named(t), NEW r, Fresh(r, 0 .. n - 1)
    PROVE  Table(Registered(t, r), n + 1) /\ Named(Registered(t, r)) /\ Registered(t, r)[n] = r
<1>1. PICK s : s = Registered(t, r)
  OBVIOUS
<1>2. r \in INodeRecords(0 .. n - 1) /\ r.st_size = 0 /\ \A name \in Names : r.m_children[name] = NoChild
  BY DEF Fresh
<1>3. Table(s, n + 1) /\ \A ino \in 0 .. n - 1 : s[ino] = t[ino]
  BY <1>1, <1>2, RegisteredKeeps
<1>4. DOMAIN t = 0 .. n - 1 /\ NextINode(t) = n /\ Root \in 0 .. n - 1
  BY TableFacts
<1>5. s = [ino \in 0 .. n - 1 \cup {n} |-> IF ino = n THEN r ELSE t[ino]]
  BY <1>1, <1>4 DEF Registered
<1>6. s[n] = r /\ DOMAIN s = 0 .. n - 1 \cup {n}
  BY <1>5
<1>7. ASSUME NEW dir \in 0 .. n - 1 \cup {n}, NEW name \in Names
      PROVE  ChildNamed(s, dir, name, s[dir].m_children[name])
  <2>1. CASE dir = n
    BY <1>2, <1>6, <2>1 DEF ChildNamed
  <2>2. CASE dir \in 0 .. n - 1
    <3>1. t[dir].m_children[name] \in 0 .. n - 1 \cup {NoChild}
      BY <2>2, ChildType
    <3>2. ChildNamed(t, dir, name, t[dir].m_children[name])
      BY <1>4, <2>2 DEF Named
    <3> QED BY <1>3, <2>2, <3>1, <3>2 DEF ChildNamed
  <2> QED BY <2>1, <2>2
<1>8. s[Root].dir_name = <<>>
  BY <1>3, <1>4 DEF Named
<1> QED BY <1>1, <1>3, <1>6, <1>7, <1>8 DEF Named

LEMMA InsertedNamed ==
    ASSUME NEW n \in Nat, n > 1, NEW t, Table(t, n), Named(t), NEW path, Leaf(path) \in Names,
           NEW dir \in 0 .. n - 1, dir = INodeAt(t, Parent(path)), NEW r, Fresh(r, 0 .. n - 1),
           r.type = "DIRECTORY" => r.dir_name = Append(t[dir].dir_name, Leaf(path))
    PROVE  Table(Inserted(t, path, r), n + 1) /\ Named(Inserted(t, path, r))
<1>1. PICK s : s = Registered(t, r)
  OBVIOUS
<1>2. Table(s, n + 1) /\ Named(s) /\ s[n] = r
  BY <1>1, RegisteredNamed
<1>3. NextINode(t) = n
  BY TableFacts
<1>4. Inserted(t, path, r) = SetChild(s, dir, Leaf(path), n)
  BY <1>1, <1>3 DEF Inserted, SetChild
<1>5. s[dir] = t[dir]
  BY <1>1, RegisteredKeeps DEF Fresh
<1>6. ChildNamed(s, dir, Leaf(path), n)
  BY <1>2, <1>5 DEF ChildNamed
<1>7. n + 1 \in Nat /\ n + 1 > 1 /\ dir \in 0 .. (n + 1) - 1 /\ n \in 0 .. (n + 1) - 1
  OBVIOUS
<1>8. Table(SetChild(s, dir, Leaf(path), n), n + 1) /\ Named(SetChild(s, dir, Leaf(path), n))
  BY <1>2, <1>6, <1>7, SetChildNamed
<1> QED BY <1>4, <1>8

LEMMA MkdirNamed ==
    ASSUME NEW n \in Nat, n > 1, NEW t, Table(t, n), Named(t), NEW path \in Seq(Names),
           INodeAt(t, Parent(path)) \in 0 .. n - 1, Leaf(path) \in Names
    PROVE  Named(FuseMkdir(t, path))
<1>1. PICK parent \in 0 .. n - 1 : parent = INodeAt(t, Parent(path))
  OBVIOUS
<1>2. PICK names \in Seq(Names) : names = Append(t[parent].dir_name, Leaf(path))
  <2>1. t[parent].dir_name \in Seq(Names)
    BY TableFacts, INodeFields
  <2>2. Append(t[parent].dir_name, Leaf(path)) \in Seq(Names)
    BY <2>1
  <2> WITNESS Append(t[parent].dir_name, Leaf(path)) \in Seq(Names)
  <2> QED OBVIOUS
<1>3. PICK r : r = [NewINode("DIRECTORY", 2) EXCEPT !.dir_name = names]
  OBVIOUS
<1>4. Fresh(r, 0 .. n - 1) /\ r.dir_name = names
  BY <1>3, NewDirectoryFresh
<1>5. PICK s : s = Inserted(t, path, r)
  OBVIOUS
<1>6. Table(s, n + 1) /\ Named(s)
  BY <1>1, <1>2, <1>4, <1>5, InsertedNamed
<1>7. PICK m : m = n + 1
  OBVIOUS
<1>8. m \in Nat /\ m > 1 /\ parent \in 0 .. m - 1 /\ Table(s, m)
  BY <1>6, <1>7
<1>9. PICK links \in Int : links = s[parent].st_nlink + 1
  BY <1>8, LinksOf
<1>10. FuseMkdir(t, path) = SetLinks(s, parent, links)
  BY <1>1, <1>2, <1>3, <1>5, <1>9 DEF FuseMkdir, SetLinks
<1> QED BY <1>6, <1>8, <1>10, SetLinksNamed

LEMMA RemovedNamed ==
    ASSUME NEW n \in Nat, n > 1, NEW t, Table(t, n), Named(t), NEW path \in Seq(Names), Leaf(path) \in Names,
           INodeAt(t, path) \in 0 .. n - 1, INodeAt(t, Parent(path)) \in 0 .. n - 1
    PROVE  Named(FuseUnlink(t, path)) /\ Named(FuseRmdir(t, path))
<1>1. PICK ino \in 0 .. n - 1 : ino = INodeAt(t, path)
  OBVIOUS
<1>2. PICK dir \in 0 .. n - 1 : dir = INodeAt(t, Parent(path))
  OBVIOUS
<1>3. \A v : Table(v, n) /\ Named(v) => Named(SetChild(v, dir, Leaf(path), NoChild))
  <2>1. SUFFICES ASSUME NEW v, Table(v, n), Named(v) PROVE Named(SetChild(v, dir, Leaf(path), NoChild))
    OBVIOUS
  <2>2. ChildNamed(v, dir, Leaf(path), NoChild)
    BY DEF ChildNamed
  <2> QED BY <2>1, <2>2, SetChildNamed
<1>4. Named(FuseUnlink(t, path))
  <2>1. PICK links \in Int : links = t[ino].st_nlink - 1
    BY LinksOf
  <2>2. Table(SetLinks(t, ino, links), n) /\ Named(SetLinks(t, ino, links))
    BY SetLinksNamed
  <2>3. FuseUnlink(t, path) = SetChild(SetLinks(t, ino, links), dir, Leaf(path), NoChild)
    BY <1>1, <1>2, <2>1 DEF FuseUnlink, SetLinks, SetChild
  <2> QED BY <1>3, <2>2, <2>3
<1>5. Named(FuseRmdir(t, path))
  <2>1. PICK v : v = SetLinks(t, ino, 0)
    OBVIOUS
  <2>2. Table(v, n) /\ Named(v)
    BY <2>1, SetLinksNamed
  <2>3. PICK links \in Int : links = v[dir].st_nlink - 1
    BY <2>2, LinksOf
  <2>4. Table(SetLinks(v, dir, links), n) /\ Named(SetLinks(v, dir, links))
    BY <2>2, SetLinksNamed
  <2>5. FuseRmdir(t, path) = SetChild(SetLinks(v, dir, links), dir, Leaf(path), NoChild)
    BY <1>1, <1>2, <2>1, <2>3 DEF FuseRmdir, SetLinks, SetChild
  <2> QED BY <1>3, <2>4, <2>5
<1> QED BY <1>4, <1>5

LEMMA RenameNamed ==
    ASSUME NEW n \in Nat, n > 1, NEW t, Table(t, n), Named(t), NEW path \in Seq(Names), Leaf(path) \in Names,
           NEW to \in Seq(Names), Leaf(to) \in Names,
           INodeAt(t, path) \in 0 .. n - 1, INodeAt(t, Parent(path)) \in 0 .. n - 1,
           INodeAt(t, Parent(to)) \in 0 .. n - 1,
           ~IsDirectory(t, INodeAt(t, path)), ~IsDirectory(t, INodeAt(t, to))
    PROVE  Named(FuseRename(t, path, to))
<1>1. PICK ino \in 0 .. n - 1 : ino = INodeAt(t, path)
  OBVIOUS
<1>2. PICK dir \in 0 .. n - 1 : dir = INodeAt(t, Parent(path))
  OBVIOUS
<1>3. PICK newdir \in 0 .. n - 1 : newdir = INodeAt(t, Parent(to))
  OBVIOUS
<1>4. ChildNamed(t, newdir, Leaf(to), ino)
  BY <1>1 DEF ChildNamed, IsDirectory
<1>5. PICK v : v = SetChild(t, newdir, Leaf(to), ino)
  OBVIOUS
<1>6. Table(v, n) /\ Named(v)
  BY <1>4, <1>5, SetChildNamed
<1>7. ChildNamed(v, dir, Leaf(path), NoChild)
  BY DEF ChildNamed
<1>8. Named(SetChild(v, dir, Leaf(path), NoChild))
  BY <1>6, <1>7, SetChildNamed
<1>9. FuseRename(t, path, to) = SetChild(v, dir, Leaf(path), NoChild)
  BY <1>1, <1>2, <1>3, <1>5 DEF FuseRename, SetChild
<1> QED BY <1>8, <1>9

(* The names that the directories were given lead to them after an         *)
(* announced operation, unless it renames a directory.                     *)
LEMMA AppliedNamed ==
    ASSUME NEW n \in Nat, n > 1, NEW t, Table(t, n), Named(t), NEW o \in AnyOperation, KernelAllows(t, o),
           o.type \in Announced, o.type = "RENAME" => ~IsDirectory(t, INodeAt(t, o.path)), o.path # <<>>
    PROVE  Named(Applied(t, o))
<1>1. /\ INodeAt(t, Parent(o.path)) \in 0 .. n - 1 /\ o.path \in Seq(Names) /\ o.to \in Seq(Names)
      /\ o.type \notin Makes => INodeAt(t, o.path) \in 0 .. n - 1
      /\ o.type = "RENAME" => INodeAt(t, Parent(o.to)) \in 0 .. n - 1 /\ o.to # <<>>
  BY AllowedPaths
<1>2. Leaf(o.path) \in Names
  BY <1>1, PathFacts
<1>3. CASE o.type = "CREATE_FILE"
  <2>1. PICK r : r = NewINode("REGULAR_FILE", 1)
    OBVIOUS
  <2>2. Fresh(r, 0 .. n - 1) /\ r.type # "DIRECTORY"
    BY <2>1, NewINodeFresh
  <2>3. Applied(t, o) = Inserted(t, o.path, r)
    BY <1>3, <2>1 DEF Applied, FuseCreate
  <2> QED BY <1>1, <1>2, <2>2, <2>3, InsertedNamed
<1>4. CASE o.type = "CREATE_DIR"
  BY <1>1, <1>2, <1>4, MkdirNamed DEF Applied
<1>5. CASE o.type = "DELETE_FILE"
  BY <1>1, <1>2, <1>5, RemovedNamed DEF Applied, Makes
<1>6. CASE o.type = "DELETE_DIR"
  BY <1>1, <1>2, <1>6, RemovedNamed DEF Applied, Makes
<1>7. CASE o.type = "RENAME"
  <2>1. ~IsDirectory(t, INodeAt(t, o.path)) /\ ~IsDirectory(t, INodeAt(t, o.to))
    BY <1>7 DEF KernelAllows, KernelRenames, IsDirectory
  <2>2. Leaf(o.to) \in Names
    BY <1>1, <1>7, PathFacts
  <2> QED BY <1>1, <1>2, <1>7, <2>1, <2>2, RenameNamed DEF Applied, Makes
<1> QED BY <1>3, <1>4, <1>5, <1>6, <1>7 DEF Announced

(* A directory that is found at a path has the path for its name.          *)
LEMMA DirectoryName ==
    ASSUME NEW n \in Nat, n > 1, NEW t, Table(t, n), Named(t), NEW path \in Seq(Names),
           IsDirectory(t, INodeAt(t, path))
    PROVE  t[INodeAt(t, path)].dir_name = path
<1> DEFINE found == CHOOSE at : LeadsThrough(t, path, Len(path), at)
           D == {k \in 0 .. Len(path) : /\ IsDirectory(t, found[k])
                                        /\ ~(found[k] \in 0 .. n - 1 /\ t[found[k]].dir_name = SubSeq(path, 1, k))}
<1>1. Len(path) \in Nat /\ SubSeq(path, 1, Len(path)) = path
  OBVIOUS
<1>2. LeadsThrough(t, path, Len(path), found)
  BY <1>1, LookupsExist
<1>3. INodeAt(t, path) = found[Len(path)]
  BY DEF INodeAt, LeadsThrough
<1> HIDE DEF found
<1>4. SUFFICES D = {}
  BY <1>1, <1>3
<1>5. \A k \in 0 .. Len(path) :
         found[k] = IF k = 0 THEN Root ELSE ChildINodeNumberWithName(t, found[k - 1], path[k])
  BY <1>2 DEF LeadsThrough
<1>6. SUFFICES ASSUME D # {} PROVE FALSE
  OBVIOUS
<1>7. PICK k \in D : \A j \in D : k <= j
  <2>1. D \in SUBSET Nat
    BY <1>1
  <2> QED BY <1>6, <2>1, NatHasSmallest
<1>8. k # 0
  <2>1. SubSeq(path, 1, 0) = <<>>
    OBVIOUS
  <2>2. t[Root].dir_name = <<>> /\ Root \in 0 .. n - 1
    BY TableFacts DEF Named
  <2> QED BY <1>5, <1>7, <2>1, <2>2
<1>9. k - 1 \in 0 .. Len(path) /\ k \in 1 .. Len(path) /\ path[k] \in Names
  BY <1>1, <1>7, <1>8
<1>10. PICK dir : dir = found[k - 1]
  OBVIOUS
<1>11. IsDirectory(t, dir) /\ found[k] = t[dir].m_children[path[k]] /\ IsDirectory(t, found[k])
  BY <1>5, <1>7, <1>8, <1>10 DEF ChildINodeNumberWithName, IsDirectory
<1>12. dir \in 0 .. n - 1 /\ t[dir].dir_name = SubSeq(path, 1, k - 1)
  <2>1. k - 1 \notin D
    BY <1>7
  <2> QED BY <1>9, <1>10, <1>11, <2>1
<1>13. found[k] \in 0 .. n - 1
  <2>1. t[dir].m_children \in [Names -> 0 .. n - 1 \cup {NoChild}]
    BY <1>12, TableFacts, INodeFields
  <2> QED BY <1>9, <1>11, <2>1 DEF IsDirectory
<1>14. t[found[k]].dir_name = Append(SubSeq(path, 1, k - 1), path[k])
  <2>1. ChildNamed(t, dir, path[k], t[dir].m_children[path[k]])
    BY <1>9, <1>12, TableFacts DEF Named
  <2> QED BY <1>11, <1>12, <2>1 DEF ChildNamed, IsDirectory
<1>15. Append(SubSeq(path, 1, k - 1), path[k]) = SubSeq(path, 1, k)
  BY <1>9
<1> QED BY <1>7, <1>13, <1>14, <1>15

LEMMA PathSent ==
    ASSUME NEW n \in Nat, n > 1, NEW t, Table(t, n), Named(t), NEW path \in Seq(Names), path # <<>>,
           IsDirectory(t, INodeAt(t, Parent(path)))
    PROVE  SentPath(t, path) = path
<1>1. Parent(path) \in Seq(Names)
  BY PathFacts
<1>2. t[INodeAt(t, Parent(path))].dir_name = Parent(path)
  BY <1>1, DirectoryName
<1>3. Append(Parent(path), Leaf(path)) = path
  BY DEF Parent, Leaf
<1> QED BY <1>2, <1>3 DEF SentPath

(* A user's operation is announced as it is. *)
LEMMA AnnouncedAsIs ==
    ASSUME NEW n \in Nat, n > 1, NEW t, Table(t, n), Named(t), NEW o \in Operations, KernelAllows(t, o),
           o.type \in Announced
    PROVE  Announcement(t, o) = o
<1>1. /\ o.path \in Seq(Names) /\ o.path # <<>>
      /\ o.type = "RENAME" => o.to \in Seq(Names) /\ o.to # <<>>
      /\ o.type # "RENAME" => o.to = <<>>
      /\ o = [type |-> o.type, path |-> o.path, to |-> o.to]
  BY PeerToPeerAssumption DEF Operations
<1>2. o.type = "DELETE_DIR" => t[INodeAt(t, o.path)].dir_name = o.path
  BY <1>1, DirectoryName DEF KernelAllows
<1>3. SentPath(t, o.path) = o.path
  BY <1>1, PathSent DEF KernelAllows
<1>4. o.type = "RENAME" => SentPath(t, o.to) = o.to
  BY <1>1, PathSent DEF KernelAllows, KernelRenames
<1> QED BY <1>1, <1>2, <1>3, <1>4 DEF Announcement

-----------------------------------------------------------------------------
(* Operations in messages.                                                 *)

(* A body that is an operation on the tree. *)
Ordering(m) == m.part = "body" /\ m.content.type \in Announced

(* The operations among the messages s are those of the log, from the one  *)
(* after the first that are given to the last.                             *)
Numbers(s, log, reached) ==
    \A i \in 1 .. Len(s) :
        IF Ordering(s[i])
        THEN /\ reached[i] = reached[i - 1] + 1
             /\ reached[i] \in 1 .. Len(log) /\ s[i].content = log[reached[i]]
        ELSE reached[i] = reached[i - 1]
Numbered(s, log, first, last) ==
    \E reached \in [0 .. Len(s) -> Nat] :
        reached[0] = first /\ reached[Len(s)] = last /\ Numbers(s, log, reached)

LEMMA NumberedNone ==
    ASSUME NEW log, NEW first \in Nat
    PROVE  Numbered(<<>>, log, first, first)
<1>1. PICK reached : reached = [i \in 0 .. 0 |-> first]
  OBVIOUS
<1>2. Len(<<>>) = 0 /\ reached \in [0 .. Len(<<>>) -> Nat] /\ reached[0] = first
  BY <1>1
<1>3. Numbers(<<>>, log, reached)
  BY <1>2 DEF Numbers
<1> QED BY <1>2, <1>3 DEF Numbered

LEMMA NumberedEmpty ==
    ASSUME NEW log, NEW first, NEW last, Numbered(<<>>, log, first, last)
    PROVE  first = last
  BY DEF Numbered

LEMMA NumberedTail ==
    ASSUME NEW s, IsSeq(s), s # <<>>, NEW log, NEW first, NEW last, Numbered(s, log, first, last)
    PROVE  IF Ordering(s[1])
           THEN /\ first + 1 \in 1 .. Len(log) /\ s[1].content = log[first + 1]
                /\ Numbered(Tail(s), log, first + 1, last)
           ELSE Numbered(Tail(s), log, first, last)
<1>1. PICK reached \in [0 .. Len(s) -> Nat] :
         reached[0] = first /\ reached[Len(s)] = last /\ Numbers(s, log, reached)
  BY DEF Numbered
<1>2. /\ Len(s) \in Nat /\ Len(s) > 0 /\ Len(Tail(s)) = Len(s) - 1
      /\ \A i \in 1 .. Len(s) - 1 : Tail(s)[i] = s[i + 1]
  BY TailFacts
<1>3. PICK n \in Nat : n = Len(Tail(s)) /\ Len(s) = n + 1
  <2>1. PICK m \in Nat : m = Len(s)
    BY <1>2
  <2>2. m - 1 \in Nat /\ Len(Tail(s)) = m - 1 /\ Len(s) = (m - 1) + 1
    BY <1>2, <2>1
  <2> QED BY <2>2
<1>4. PICK rest : rest = [i \in 0 .. n |-> reached[i + 1]]
  OBVIOUS
<1>5. rest \in [0 .. n -> Nat] /\ rest[0] = reached[1] /\ rest[n] = last
  BY <1>1, <1>3, <1>4
<1>6. Numbers(Tail(s), log, rest)
  <2>1. SUFFICES ASSUME NEW i \in 1 .. n
                 PROVE  IF Ordering(Tail(s)[i])
                        THEN /\ rest[i] = rest[i - 1] + 1
                             /\ rest[i] \in 1 .. Len(log) /\ Tail(s)[i].content = log[rest[i]]
                        ELSE rest[i] = rest[i - 1]
    BY <1>3 DEF Numbers
  <2>2. /\ i + 1 \in 1 .. Len(s) /\ Tail(s)[i] = s[i + 1] /\ (i + 1) - 1 = i
        /\ rest[i] = reached[i + 1] /\ rest[i - 1] = reached[i]
    BY <1>2, <1>3, <1>4
  <2>3. IF Ordering(s[i + 1])
        THEN /\ reached[i + 1] = reached[i] + 1
             /\ reached[i + 1] \in 1 .. Len(log) /\ s[i + 1].content = log[reached[i + 1]]
        ELSE reached[i + 1] = reached[i]
    BY <1>1, <2>2 DEF Numbers
  <2> QED BY <2>2, <2>3
<1>7. Numbered(Tail(s), log, reached[1], last)
  BY <1>3, <1>5, <1>6 DEF Numbered
<1>8. IF Ordering(s[1])
      THEN reached[1] = first + 1 /\ reached[1] \in 1 .. Len(log) /\ s[1].content = log[reached[1]]
      ELSE reached[1] = first
  <2>1. 1 \in 1 .. Len(s)
    BY <1>2
  <2>2. IF Ordering(s[1])
        THEN /\ reached[1] = reached[1 - 1] + 1
             /\ reached[1] \in 1 .. Len(log) /\ s[1].content = log[reached[1]]
        ELSE reached[1] = reached[1 - 1]
    BY <1>1, <2>1 DEF Numbers
  <2> QED BY <1>1, <2>2
<1> QED BY <1>7, <1>8

LEMMA NumberedSent ==
    ASSUME NEW s, IsSeq(s), NEW log, NEW first, NEW last \in Nat, Numbered(s, log, first, last),
           NEW type, NEW c, c.type \in Announced => last + 1 \in 1 .. Len(log) /\ c = log[last + 1]
    PROVE  Numbered(s \o <<Header(type), Body(c)>>, log, first, IF c.type \in Announced THEN last + 1 ELSE last)
<1>1. PICK reached \in [0 .. Len(s) -> Nat] :
         reached[0] = first /\ reached[Len(s)] = last /\ Numbers(s, log, reached)
  BY DEF Numbered
<1>2. PICK more : more = s \o <<Header(type), Body(c)>>
  OBVIOUS
<1>3. PICK n \in Nat : n = Len(s)
  BY SeqFacts
<1>4. /\ Len(more) = n + 2 /\ more[n + 1] = Header(type) /\ more[n + 2] = Body(c)
      /\ \A i \in 1 .. n : more[i] = s[i]
  BY <1>2, <1>3, PairFacts
<1>5. PICK end \in Nat : end = IF c.type \in Announced THEN last + 1 ELSE last
  OBVIOUS
<1>6. PICK then : then = [i \in 0 .. n + 2 |-> IF i <= n THEN reached[i] ELSE IF i = n + 1 THEN last ELSE end]
  OBVIOUS
<1>7. /\ then \in [0 .. Len(more) -> Nat] /\ then[0] = first /\ then[Len(more)] = end
      /\ \A i \in 0 .. n : then[i] = reached[i]
      /\ then[n + 1] = last /\ then[n + 2] = end /\ reached[n] = last
  BY <1>1, <1>3, <1>4, <1>6
<1>8. ~Ordering(more[n + 1]) /\ (Ordering(more[n + 2]) <=> c.type \in Announced) /\ more[n + 2].content = c
  BY <1>4, MessageParts DEF Ordering
<1>9. Numbers(more, log, then)
  <2>1. SUFFICES ASSUME NEW i \in 1 .. n + 2
                 PROVE  IF Ordering(more[i])
                        THEN /\ then[i] = then[i - 1] + 1
                             /\ then[i] \in 1 .. Len(log) /\ more[i].content = log[then[i]]
                        ELSE then[i] = then[i - 1]
    BY <1>4 DEF Numbers
  <2>2. CASE i \in 1 .. n
    <3>1. IF Ordering(s[i])
          THEN /\ reached[i] = reached[i - 1] + 1
               /\ reached[i] \in 1 .. Len(log) /\ s[i].content = log[reached[i]]
          ELSE reached[i] = reached[i - 1]
      BY <1>1, <1>3, <2>2 DEF Numbers
    <3>2. then[i] = reached[i] /\ then[i - 1] = reached[i - 1] /\ more[i] = s[i]
      BY <1>4, <1>7, <2>2
    <3> QED BY <3>1, <3>2
  <2>3. CASE i = n + 1
    <3>1. i - 1 = n /\ then[i] = last /\ then[i - 1] = last
      BY <1>7, <2>3
    <3> QED BY <1>8, <2>3, <3>1
  <2>4. CASE i = n + 2
    <3>1. i - 1 = n + 1 /\ then[i] = end /\ then[i - 1] = last
      BY <1>7, <2>4
    <3> QED BY <1>5, <1>8, <2>4, <3>1
  <2> QED BY <2>2, <2>3, <2>4
<1> QED BY <1>2, <1>5, <1>7, <1>9 DEF Numbered

LEMMA NumberedLonger ==
    ASSUME NEW s, NEW S, NEW log \in Seq(S), NEW first, NEW last, Numbered(s, log, first, last), NEW o
    PROVE  Numbered(s, Append(log, o), first, last)
<1>1. PICK reached \in [0 .. Len(s) -> Nat] :
         reached[0] = first /\ reached[Len(s)] = last /\ Numbers(s, log, reached)
  BY DEF Numbered
<1>2. PICK longer : longer = Append(log, o)
  OBVIOUS
<1>3. \A k \in 1 .. Len(log) : k \in 1 .. Len(longer) /\ longer[k] = log[k]
  <2>1. IsSeq(log)
    BY DEF IsSeq
  <2> QED BY <1>2, <2>1, AppendFacts, SeqFacts
<1>4. Numbers(s, longer, reached)
  BY <1>1, <1>3 DEF Numbers
<1> QED BY <1>1, <1>2, <1>4 DEF Numbered

-----------------------------------------------------------------------------
(* Followers.                                                              *)

(* No user makes what the handlers do not announce, or renames a directory. *)
Repeatable == UserOps \cap {"SYMLINK", "MKNOD", "TRUNCATE", "RENAME_DIRECTORY"} = {}

Runs(t, o) == KernelAllows(t, o) /\ HandlerAllows(t, o)

(* What p has carried out u carried out before, in the same order.         *)
Behind(p, u) == /\ Len(applied[p]) <= Len(applied[u])
                /\ \A i \in 1 .. Len(applied[p]) : applied[p][i] = applied[u][i]

(* The tables that a log leads through, but for the sizes.                 *)
Lined(trees, log) ==
    \A k \in 1 .. Len(log) : /\ log[k].type \in Announced
                             /\ Runs(trees[k - 1], log[k])
                             /\ trees[k] = Applied(trees[k - 1], log[k])
                             /\ \A j \in 0 .. k : DOMAIN trees[j] \subseteq DOMAIN trees[k]
Where(trees) == \A p \in Ranks : Bare(tree[p]) = trees[Len(applied[p])]

(* Every peer is somewhere along the log of u. *)
Followed(u) == /\ \E trees : Lined(trees, applied[u]) /\ Where(trees)
               /\ \A p \in Ranks : Behind(p, u)
               /\ Named(tree[u])

(* The operations p has begun to repeat, and those that u has announced. *)
TakenUp(p) == IF recv[p].at = "syscall" THEN Len(applied[p]) + 1 ELSE Len(applied[p])
Told(u) == IF fuse[u].at = "announce" THEN Len(applied[u]) - 1 ELSE Len(applied[u])

(* What is on its way to p are the operations that it has not carried out. *)
Ordered(u, p) ==
    /\ Numbered(net[u][p], applied[u], TakenUp(p), Told(u))
    /\ recv[p].at = "syscall" => /\ Len(applied[p]) + 1 \in 1 .. Len(applied[u])
                                 /\ recv[p].op = applied[u][Len(applied[p]) + 1]
    /\ recv[p].at = "scatter" => net[u][p] = <<>>

(* A flag is up only while its operation is repeated. *)
FlagsOf(p) == \A type \in Announced : fromThread[p][type] => Receiving(p, type) \/ Repeating(p, type)

(* The lists of p when its thread has left the exchange that it is in.     *)
Upcoming(p, thread) ==
    IF thread.at = "gather" /\ thread.call.type = "WRITE" /\ Gathered(p)
    THEN [blockList[p] EXCEPT ![thread.call.inode] = Listed(@, GatheredParts(p))]
    ELSE blockList[p]

Lists(u, p) ==
    /\ Upcoming(u, fuse[u]) = Upcoming(p, recv[p])
    /\ recv[p].at = "gather" /\ ~(fuse[u].at = "gather" /\ pos[p] = Len(exchanges)) => Gathered(p)
    /\ /\ recv[p].at # "gather" /\ fuse[u].at = "gather"
       /\ fuse[u].call.type = "WRITE" /\ pos[p] = Len(exchanges)
       => Gathered(u)

(* The size p will show of an inode when it has caught up.                 *)
SizeAhead(u, p, ino) ==
    IF Awaited(u, p) /\ fuse[u].call.type = "WRITE" /\ fuse[u].call.inode = ino THEN fuse[u].call.fileSize
    ELSE IF recv[p].at = "gather" /\ recv[p].call.inode = ino THEN recv[p].call.fileSize
    ELSE IF ino \in DOMAIN tree[p] THEN tree[p][ino].st_size ELSE 0
Sizes(u, p) == \A ino \in DOMAIN tree[u] : tree[u][ino].st_size = SizeAhead(u, p, ino)

(* A peer that follows has made the inode of a write that it takes part in. *)
Made(p) == recv[p].at = "gather" => recv[p].call.inode \in DOMAIN tree[p]

Along(u, p) == Ordered(u, p) /\ FlagsOf(p) /\ Lists(u, p) /\ Sizes(u, p) /\ Made(p)

Lead(u) == /\ fuse[u].at = "announce" => /\ Len(applied[u]) \in 1 .. Len(applied[u])
                                         /\ fuse[u].op = applied[u][Len(applied[u])]
           /\ \A type \in Announced : ~fromThread[u][type]
           /\ InCall(fuse[u]) => fuse[u].call.inode \in DOMAIN tree[u]

Ahead(u) == Lead(u) /\ \A p \in Others(u) : Along(u, p)

SameSizes(p, q) == \A ino \in DOMAIN tree[p] : tree[p][ino].st_size = tree[q][ino].st_size
Agreed == \A p, q \in Ranks : /\ applied[p] = applied[q] /\ blockList[p] = blockList[q]
                              /\ SameSizes(p, q)
                              /\ \A type \in Announced : ~fromThread[p][type]

AgreeInv == /\ crashed = FALSE
            /\ Followed(user)
            /\ IF AllMounted THEN Ahead(user) ELSE Agreed

LEMMA AheadStep ==
    ASSUME NEW u \in Ranks, user' = u, crashed' = FALSE, AllMounted', Followed(u)', Lead(u)',
           \A p \in Others(u) : Along(u, p)'
    PROVE  AgreeInv'
  BY DEF AgreeInv, Ahead

LEMMA RestStep ==
    ASSUME AgreeInv, ~AllMounted, ~(AllMounted'), UNCHANGED <<user, crashed, applied, tree, blockList, fromThread>>
    PROVE  AgreeInv'
<1>1. Followed(user)'
  BY DEF AgreeInv, Followed, Where, Behind
<1>2. Agreed'
  BY DEF AgreeInv, Agreed, SameSizes
<1> QED BY <1>1, <1>2 DEF AgreeInv

(* What a step leaves as it was. *)
LEMMA OrderedStill ==
    ASSUME NEW u, NEW p, Ordered(u, p), net'[u][p] = net[u][p], applied'[u] = applied[u], applied'[p] = applied[p],
           recv'[p] = recv[p], Told(u)' = Told(u)
    PROVE  Ordered(u, p)'
<1>1. TakenUp(p)' = TakenUp(p)
  BY DEF TakenUp
<1> QED BY <1>1 DEF Ordered

LEMMA FlagsStill ==
    ASSUME NEW p, FlagsOf(p), fromThread'[p] = fromThread[p], recv'[p] = recv[p], fuse'[p] = fuse[p]
    PROVE  FlagsOf(p)'
  BY DEF FlagsOf, Receiving, Repeating

(* Whether the exchange that p is in is complete, and what it gathers.     *)
SameExchange(p) == pos'[p] = pos[p] /\ exchanges'[pos[p]] = exchanges[pos[p]]

LEMMA UpcomingStill ==
    ASSUME NEW p, SameExchange(p), blockList'[p] = blockList[p], NEW thread
    PROVE  Upcoming(p, thread)' = Upcoming(p, thread) /\ Gathered(p)' = Gathered(p)
<1>1. Gathered(p)' = Gathered(p) /\ GatheredParts(p)' = GatheredParts(p)
  BY DEF SameExchange, Gathered, GatheredParts
<1> QED BY <1>1 DEF Upcoming

LEMMA ListsStill ==
    ASSUME NEW u, NEW p, Lists(u, p), SameExchange(u), SameExchange(p), blockList'[u] = blockList[u],
           blockList'[p] = blockList[p], recv'[p] = recv[p], fuse'[u] = fuse[u], Len(exchanges') = Len(exchanges)
    PROVE  Lists(u, p)'
<1>1. /\ Upcoming(u, fuse[u])' = Upcoming(u, fuse[u]) /\ Gathered(u)' = Gathered(u)
  BY DEF SameExchange, Upcoming, Gathered, GatheredParts
<1>2. Upcoming(p, recv[p])' = Upcoming(p, recv[p]) /\ Gathered(p)' = Gathered(p)
  BY DEF SameExchange, Upcoming, Gathered, GatheredParts
<1> QED BY <1>1, <1>2 DEF Lists, SameExchange

LEMMA SizesStill ==
    ASSUME NEW u, NEW p, Sizes(u, p), tree'[u] = tree[u], tree'[p] = tree[p], recv'[p] = recv[p],
           Awaited(u, p)' = Awaited(u, p), Awaited(u, p) => fuse'[u].call = fuse[u].call
    PROVE  Sizes(u, p)'
  BY DEF Sizes, SizeAhead

LEMMA MadeStill ==
    ASSUME NEW p, Made(p), tree'[p] = tree[p], recv'[p] = recv[p]
    PROVE  Made(p)'
  BY DEF Made

LEMMA FollowedStill ==
    ASSUME NEW u \in Ranks, Followed(u), UNCHANGED applied, Named(tree'[u]),
           \A p \in Ranks : Bare(tree'[p]) = Bare(tree[p])
    PROVE  Followed(u)'
<1>1. PICK trees : Lined(trees, applied[u]) /\ Where(trees)
  BY DEF Followed
<1>2. Where(trees)'
  BY <1>1 DEF Where
<1>3. \A p \in Ranks : Behind(p, u)'
  BY DEF Followed, Behind
<1> QED BY <1>1, <1>2, <1>3 DEF Followed

LEMMA FollowedSame ==
    ASSUME NEW u \in Ranks, Followed(u), UNCHANGED <<applied, tree>>
    PROVE  Followed(u)'
  BY FollowedStill DEF Followed

(* Who is behind by nothing has the same log, and the same tree. *)
LEMMA CaughtUp ==
    ASSUME HistoryTyped, NEW u \in Ranks, NEW p \in Ranks, Followed(u), Len(applied[p]) = Len(applied[u])
    PROVE  applied[p] = applied[u] /\ Bare(tree[p]) = Bare(tree[u])
<1>1. applied[p] \in Seq(AnyOperation) /\ applied[u] \in Seq(AnyOperation)
  BY DEF HistoryTyped
<1>2. applied[p] = applied[u]
  BY <1>1 DEF Followed, Behind
<1>3. PICK trees : Where(trees)
  BY DEF Followed
<1> QED BY <1>2, <1>3 DEF Where

LEMMA BareDomain ==
    ASSUME NEW t, NEW s, Bare(t) = Bare(s)
    PROVE  DOMAIN t = DOMAIN s
<1>1. DOMAIN Bare(t) = DOMAIN t /\ DOMAIN Bare(s) = DOMAIN s
  BY DEF Bare
<1> QED BY <1>1

(* When all is quiet all peers agree. *)
LEMMA Settle ==
    ASSUME IInv, TypeInv, AllMounted, Quiet, AgreeInv
    PROVE  Agreed
<1>1. PICK u \in Ranks : u = user
  BY DEF IInv, Shape
<1>2. /\ \A q, p \in Ranks : net[q][p] = <<>>
      /\ \A p \in Ranks : fuse[p].at = "loop" /\ recv[p].at = "request" /\ pos[p] = Len(exchanges)
  BY QuietPlaces
<1>3. Followed(u) /\ Lead(u) /\ \A p \in Others(u) : Along(u, p)
  BY <1>1 DEF AgreeInv, Ahead
<1>4. ASSUME NEW p \in Ranks
      PROVE  /\ applied[p] = applied[u] /\ blockList[p] = blockList[u]
             /\ DOMAIN tree[p] = DOMAIN tree[u]
             /\ \A ino \in DOMAIN tree[u] : tree[p][ino].st_size = tree[u][ino].st_size
             /\ \A type \in Announced : ~fromThread[p][type]
  <2>1. CASE p = u
    BY <1>3, <2>1 DEF Lead
  <2>2. CASE p \in Others(u)
    <3>1. Ordered(u, p) /\ FlagsOf(p) /\ Lists(u, p) /\ Sizes(u, p)
      BY <1>3, <2>2 DEF Along
    <3>2. Len(applied[p]) = Len(applied[u])
      <4>1. TakenUp(p) = Len(applied[p]) /\ Told(u) = Len(applied[u]) /\ net[u][p] = <<>>
        BY <1>2 DEF TakenUp, Told
      <4>2. Numbered(<<>>, applied[u], Len(applied[p]), Len(applied[u]))
        BY <3>1, <4>1 DEF Ordered
      <4> QED BY <4>2, NumberedEmpty
    <3>3. applied[p] = applied[u] /\ Bare(tree[p]) = Bare(tree[u])
      BY <1>3, <3>2, CaughtUp DEF TypeInv
    <3>4. DOMAIN tree[p] = DOMAIN tree[u]
      BY <3>3, BareDomain
    <3>5. blockList[p] = blockList[u]
      BY <1>2, <3>1 DEF Lists, Upcoming
    <3>6. \A ino \in DOMAIN tree[u] : tree[p][ino].st_size = tree[u][ino].st_size
      BY <1>2, <3>1, <3>4 DEF Sizes, SizeAhead, Awaited
    <3>7. \A type \in Announced : ~fromThread[p][type]
      BY <1>2, <3>1 DEF FlagsOf, Receiving, Repeating
    <3> QED BY <3>3, <3>4, <3>5, <3>6, <3>7
  <2> QED BY <2>1, <2>2 DEF Others
<1> QED BY <1>4 DEF Agreed, SameSizes

(* Whoever is used next leads. *)
LEMMA Restart ==
    ASSUME TypeInv, NEW v \in Ranks, Followed(v), Agreed, NEW u \in Ranks,
           \A q, p \in Ranks : net[q][p] = <<>>,
           \A p \in Ranks : fuse[p].at = "loop" /\ recv[p].at = "request"
    PROVE  Followed(u) /\ Ahead(u)
<1>1. \A p \in Ranks : applied[p] = applied[v] /\ Bare(tree[p]) = Bare(tree[v]) /\ DOMAIN tree[p] = DOMAIN tree[v]
  BY CaughtUp, BareDomain DEF Agreed, TypeInv
<1>2. Named(tree[u])
  <2>1. PICK n \in 2 .. MaxINodes : Table(tree[v], n) /\ n \in Nat /\ n > 1
    BY TreeThere DEF TypeInv
  <2>2. PICK m \in 2 .. MaxINodes : Table(tree[u], m) /\ m \in Nat /\ m > 1
    BY TreeThere DEF TypeInv
  <2>3. n = m
    <3>1. 0 .. n - 1 = 0 .. m - 1
      BY <1>1, <2>1, <2>2, TableFacts
    <3> QED BY <2>1, <2>2, <3>1
  <2> QED BY <1>1, <2>1, <2>2, <2>3, BareNamed DEF Followed
<1>3. Followed(u)
  <2>1. PICK trees : Lined(trees, applied[v]) /\ Where(trees)
    BY DEF Followed
  <2>2. \A p \in Ranks : Behind(p, u)
    <3>1. Len(applied[v]) \in Nat
      BY DEF TypeInv, HistoryTyped
    <3> QED BY <1>1, <3>1 DEF Behind
  <2> QED BY <1>1, <1>2, <2>1, <2>2 DEF Followed
<1>4. ASSUME NEW p \in Others(u) PROVE Along(u, p)
  <2>1. p \in Ranks
    BY DEF Others
  <2>2. Ordered(u, p)
    <3>1. Len(applied[u]) \in Nat /\ applied[p] = applied[u]
      BY <1>1, <2>1 DEF TypeInv, HistoryTyped
    <3>2. TakenUp(p) = Len(applied[u]) /\ Told(u) = Len(applied[u])
      BY <2>1, <3>1 DEF TakenUp, Told
    <3> QED BY <2>1, <3>1, <3>2, NumberedNone DEF Ordered
  <2>3. FlagsOf(p)
    BY <2>1 DEF Agreed, FlagsOf
  <2>4. Lists(u, p)
    BY <2>1 DEF Agreed, Lists, Upcoming
  <2>5. Sizes(u, p)
    BY <1>1, <2>1 DEF Agreed, SameSizes, Sizes, SizeAhead, Awaited
  <2> QED BY <2>1, <2>2, <2>3, <2>4, <2>5 DEF Along, Made
<1>5. Lead(u)
  BY DEF Lead, InCall, Agreed
<1> QED BY <1>3, <1>4, <1>5 DEF Ahead

LEMMA Used ==
    ASSUME IInv, AgreeInv, AllMounted, NEW u, u = user
    PROVE  /\ u \in Ranks /\ Working(u) /\ Followed(u) /\ Lead(u) /\ \A p \in Others(u) : Along(u, p)
           /\ crashed = FALSE
  BY DEF IInv, Shape, AgreeInv, Ahead

LEMMA AlongStill ==
    ASSUME NEW u, NEW p, Along(u, p), net'[u][p] = net[u][p], applied'[u] = applied[u], applied'[p] = applied[p],
           recv'[p] = recv[p], fuse'[p] = fuse[p], fuse'[u] = fuse[u], fromThread'[p] = fromThread[p],
           SameExchange(u), SameExchange(p), Len(exchanges') = Len(exchanges),
           blockList'[u] = blockList[u], blockList'[p] = blockList[p], tree'[u] = tree[u], tree'[p] = tree[p]
    PROVE  Along(u, p)'
<1>1. Ordered(u, p)'
  BY OrderedStill DEF Along, Told
<1>2. Awaited(u, p)' = Awaited(u, p)
  BY DEF Awaited, SameExchange
<1>3. Sizes(u, p)'
  BY <1>2, SizesStill DEF Along
<1>4. FlagsOf(p)' /\ Lists(u, p)' /\ Made(p)'
  BY FlagsStill, ListsStill, MadeStill DEF Along
<1> QED BY <1>1, <1>3, <1>4 DEF Along

(* Nothing changes but at p, which follows u. *)
AgreeOnlyAt(u, p) ==
    /\ \A q \in Ranks \ {p} :
          /\ recv'[q] = recv[q] /\ fuse'[q] = fuse[q] /\ fromThread'[q] = fromThread[q]
          /\ tree'[q] = tree[q] /\ applied'[q] = applied[q] /\ blockList'[q] = blockList[q]
          /\ net'[u][q] = net[u][q] /\ SameExchange(q)
    /\ Len(exchanges') = Len(exchanges) /\ UNCHANGED <<mounted, user>>

LEMMA FollowerStep ==
    ASSUME IInv, AgreeInv, AllMounted, NEW u \in Ranks, u = user, NEW p \in Others(u), AgreeOnlyAt(u, p),
           crashed' = FALSE, recv'[p].at # "terminated", Followed(u)', Along(u, p)'
    PROVE  AgreeInv'
<1>1. Lead(u) /\ \A q \in Others(u) : Along(u, q)
  BY Used
<1>2. p \in Ranks /\ p # u
  BY DEF Others
<1>3. Lead(u)'
  BY <1>1, <1>2 DEF Lead, AgreeOnlyAt, InCall
<1>4. ASSUME NEW q \in Others(u), q # p PROVE Along(u, q)'
  <2>1. q \in Ranks \ {p} /\ u \in Ranks \ {p}
    BY <1>2, <1>4 DEF Others
  <2> QED BY <1>1, <2>1, AlongStill DEF AgreeOnlyAt
<1>5. AllMounted'
  BY DEF AllMounted, AgreeOnlyAt
<1> QED BY <1>3, <1>4, <1>5, AheadStep DEF AgreeOnlyAt

AtRest == /\ \A q, p \in Ranks : net[q][p] = <<>>
          /\ \A p \in Ranks : fuse[p].at = "loop" /\ recv[p].at = "request"

LEMMA RestartNext ==
    ASSUME NEW v \in Ranks, NEW u \in Ranks
    PROVE  (TypeInv /\ Followed(v) /\ Agreed /\ AtRest => Ahead(u))'
<1>1. TypeInv /\ Followed(v) /\ Agreed /\ AtRest => Ahead(u)
  BY Restart DEF AtRest
<1> QED BY <1>1, PTL

(* Peers that start, unmount and end. *)
LEMMA MountAgree == ASSUME IInv, TypeInv, AgreeInv, NEW p \in Ranks, Mount(p), IInv' PROVE AgreeInv'
<1>1. ~AllMounted
  BY DEF IInv, OnlyLoopsMounted, AllMounted, Mount, At
<1>2. UNCHANGED <<user, crashed, applied, tree, blockList, fromThread>>
  BY DEF Mount, dataVars, userVars
<1>3. CASE ~(AllMounted')
  BY <1>1, <1>2, <1>3, RestStep
<1>4. CASE AllMounted'
  <2>1. PICK u \in Ranks : u = user
    BY DEF IInv, Shape
  <2>2. Resting /\ Followed(u) /\ Agreed /\ Shape
    BY <1>1, <2>1 DEF IInv, AgreeInv
  <2>3. /\ \A q \in Ranks : fuse'[q].at = "loop" /\ recv'[q].at = "request"
        /\ \A q, r \in Ranks : net'[q][r] = <<>>
    <3>1. /\ fuse' = [fuse EXCEPT ![p] = At("loop")] /\ fuse[p].at = "starting" /\ DOMAIN fuse = Ranks
          /\ UNCHANGED <<recv, net>>
      BY <2>2 DEF Mount, At, dataVars, userVars, Shape
    <3>2. \A q \in Ranks : fuse'[q].at = "loop" /\ recv'[q].at = "request"
      <4>1. SUFFICES ASSUME NEW q \in Ranks PROVE fuse'[q].at = "loop" /\ recv'[q].at = "request"
        OBVIOUS
      <4>2. recv'[q].at # "terminated" /\ mounted'[q]
        BY <1>4 DEF AllMounted
      <4>3. fuse'[q].at \notin {"starting", "unmounted", "finished", "failed"}
        BY <4>2 DEF IInv, OnlyLoopsMounted
      <4>4. CASE q = p
        BY <2>2, <3>1, <4>2, <4>4 DEF Resting, At
      <4>5. CASE q # p
        BY <2>2, <3>1, <4>2, <4>3, <4>5 DEF Resting
      <4> QED BY <4>4, <4>5
    <3>3. \A q, r \in Ranks : net[q][r] = <<>>
      <4>1. \A q \in Ranks : fuse[q].at # "finished"
        BY <3>1, <3>2
      <4> QED BY <2>2, <4>1 DEF Resting
    <3> QED BY <3>1, <3>2, <3>3
  <2>4. Followed(u)' /\ Agreed'
    BY <1>2, <2>2, FollowedSame DEF Agreed, SameSizes
  <2>5. TypeInv'
    BY EndsTyped
  <2>6. Ahead(u)'
    <3>1. AtRest'
      BY <2>3 DEF AtRest
    <3> QED BY <2>4, <2>5, <3>1, RestartNext
  <2> QED BY <1>2, <1>4, <2>1, <2>4, <2>6 DEF AgreeInv
<1> QED BY <1>3, <1>4

-----------------------------------------------------------------------------
(* Starts and ends, and steps that repeat.                                 *)

LEMMA EndsAgree ==
    ASSUME IInv, TypeInv, AgreeInv, Settled, NEW p \in Ranks,
           StartFails(p) \/ MountFails(p) \/ LoopEnds(p) \/ SendTermination(p)
           \/ Unmount(p) \/ \E q \in Ranks : RecvTerminate(q, p)
    PROVE  AgreeInv'
<1>1. UNCHANGED <<user, crashed, applied, tree, blockList, fromThread>>
  BY DEF StartFails, MountFails, LoopEnds, SendTermination, Unmount, RecvTerminate, dataVars, userVars
<1>2. CASE Unmount(p)
  <2>1. Quiet /\ mounted' = [mounted EXCEPT ![p] = FALSE]
    BY <1>2 DEF Unmount, Settled
  <2>2. ~(AllMounted')
    BY <2>1 DEF AllMounted, IInv, Shape
  <2>3. Agreed
    BY <2>1, Settle DEF AgreeInv
  <2>4. Agreed'
    BY <1>1, <2>3 DEF Agreed, SameSizes
  <2>5. PICK u \in Ranks : u = user
    BY DEF IInv, Shape
  <2>6. Followed(u)'
    BY <1>1, <2>5, FollowedSame DEF AgreeInv
  <2> QED BY <1>1, <2>2, <2>4, <2>5, <2>6 DEF AgreeInv
<1>3. ASSUME StartFails(p) \/ MountFails(p) \/ LoopEnds(p) \/ SendTermination(p)
      PROVE  AgreeInv'
  <2>1. ~mounted[p] /\ UNCHANGED <<mounted, recv>>
    BY <1>3 DEF StartFails, MountFails, LoopEnds, SendTermination, IInv, OnlyLoopsMounted, At
  <2>2. ~AllMounted /\ ~(AllMounted')
    BY <2>1 DEF AllMounted
  <2> QED BY <1>1, <2>2, RestStep
<1>4. ASSUME NEW q \in Ranks, RecvTerminate(q, p)
      PROVE  AgreeInv'
  <2>1. ~AllMounted
    BY <1>4, NoTermination DEF RecvTerminate
  <2>2. recv' = [recv EXCEPT ![p] = At("terminated")] /\ p \in DOMAIN recv
    BY <1>4 DEF RecvTerminate, IInv, Shape
  <2>3. ~(AllMounted')
    BY <2>2 DEF AllMounted, At
  <2> QED BY <1>1, <2>1, <2>3, RestStep
<1> QED BY <1>2, <1>3, <1>4

LEMMA StutterAgree == ASSUME IInv, AgreeInv, UNCHANGED vars PROVE AgreeInv'
<1>1. PICK u \in Ranks : u = user
  BY DEF IInv, Shape
<1>2. UNCHANGED <<fuse, recv, mounted, fromThread, crashed, blockList, exchanges, pos, user, net, tree, applied>>
  BY DEF vars, threadVars, dataVars, userVars
<1>3. AllMounted' <=> AllMounted
  BY <1>2 DEF AllMounted
<1>4. CASE ~AllMounted
  BY <1>2, <1>3, <1>4, RestStep
<1>5. CASE AllMounted
  <2>1. Followed(u) /\ Lead(u) /\ \A p \in Others(u) : Along(u, p)
    BY <1>1, <1>5, Used
  <2>2. ASSUME NEW p \in Others(u) PROVE Along(u, p)'
    BY <1>2, <2>1, AlongStill DEF SameExchange
  <2>3. Lead(u)' /\ Followed(u)'
    BY <1>2, <2>1, FollowedSame DEF Lead, InCall
  <2>4. crashed' = FALSE
    BY <1>2 DEF AgreeInv
  <2> QED BY <1>1, <1>2, <1>3, <1>5, <2>2, <2>3, <2>4, AheadStep
<1> QED BY <1>4, <1>5

(* Who takes a flag down after it announced is the one that is used. *)
LEMMA ResetAgree == ASSUME IInv, AgreeInv, NEW p \in Ranks, ResetFlag(p) PROVE AgreeInv'
<1>1. /\ fuse[p].at = "reset" /\ fuse' = [fuse EXCEPT ![p] = At("loop")]
      /\ fromThread' = [fromThread EXCEPT ![p][fuse[p].op.type] = FALSE]
      /\ UNCHANGED <<recv, mounted, crashed, blockList, exchanges, pos, user, net, tree, applied>>
  BY DEF ResetFlag, dataVars, userVars
<1>2. AllMounted /\ AllMounted'
  BY <1>1 DEF IInv, Resting, AllMounted
<1>3. Working(user) /\ user \in Ranks
  BY <1>2 DEF IInv, Shape
<1>4. p = user
  BY <1>1, <1>3 DEF Working, Follows, Others
<1>5. Followed(p) /\ Lead(p) /\ \A q \in Others(p) : Along(p, q)
  BY <1>2, <1>4, Used
<1>6. /\ fuse'[p].at = "loop" /\ \A q \in Others(p) : fuse'[q] = fuse[q]
      /\ \A q \in Others(p) : fromThread'[q] = fromThread[q]
      /\ \A type \in Announced : fromThread'[p][type] => fromThread[p][type]
  BY <1>1 DEF At, Others, IInv, Shape
<1>7. ASSUME NEW q \in Others(p) PROVE Along(p, q)'
  <2>1. Ordered(p, q)'
    BY <1>1, <1>5, <1>6, OrderedStill DEF Along, Told
  <2>2. FlagsOf(q)'
    BY <1>1, <1>5, <1>6, FlagsStill DEF Along
  <2>3. Lists(p, q)'
    BY <1>1, <1>5, <1>6 DEF Along, Lists, Upcoming, Gathered, GatheredParts
  <2>4. Awaited(p, q) = FALSE /\ Awaited(p, q)' = FALSE
    BY <1>1, <1>6 DEF Awaited
  <2>5. Sizes(p, q)'
    BY <1>1, <1>5, <2>4, SizesStill DEF Along
  <2>6. Made(q)'
    BY <1>1, <1>5, MadeStill DEF Along
  <2> QED BY <2>1, <2>2, <2>3, <2>5, <2>6 DEF Along
<1>8. Lead(p)'
  BY <1>1, <1>5, <1>6 DEF Lead, InCall
<1>9. Followed(p)' /\ crashed' = FALSE /\ user' = p
  BY <1>1, <1>4, <1>5, FollowedSame DEF AgreeInv
<1> QED BY <1>2, <1>7, <1>8, <1>9, AheadStep

LEMMA ReplayCloseAgree == ASSUME IInv, AgreeInv, NEW p \in Ranks, ReplayClose(p) PROVE AgreeInv'
<1>1. /\ recv[p].at = "close" /\ recv' = [recv EXCEPT ![p] = At("request")]
      /\ UNCHANGED <<fuse, mounted, fromThread, crashed, blockList, exchanges, pos, user, net, tree, applied>>
  BY DEF ReplayClose, dataVars, userVars
<1>2. PICK u \in Ranks : u = user /\ AllMounted /\ p \in Others(u)
  BY <1>1, BusyFollows
<1>3. Followed(u) /\ Lead(u) /\ Along(u, p) /\ crashed = FALSE
  BY <1>2, Used
<1>4. recv'[p].at = "request" /\ \A q \in Ranks \ {p} : recv'[q] = recv[q]
  BY <1>1 DEF At, IInv, Shape
<1>5. AgreeOnlyAt(u, p)
  BY <1>1, <1>4 DEF AgreeOnlyAt, SameExchange
<1>6. Along(u, p)'
  <2>1. Ordered(u, p)'
    <3>1. TakenUp(p)' = TakenUp(p) /\ Told(u)' = Told(u)
      BY <1>1, <1>4 DEF TakenUp, Told
    <3> QED BY <1>1, <1>3, <1>4, <3>1 DEF Along, Ordered
  <2>2. FlagsOf(p)'
    BY <1>1, <1>3, <1>4 DEF Along, FlagsOf, Receiving, Repeating
  <2>3. Lists(u, p)'
    BY <1>1, <1>3, <1>4 DEF Along, Lists, Upcoming, Gathered, GatheredParts
  <2>4. Sizes(u, p)'
    BY <1>1, <1>3, <1>4 DEF Along, Sizes, SizeAhead, Awaited
  <2>5. Made(p)'
    BY <1>4 DEF Made
  <2> QED BY <2>1, <2>2, <2>3, <2>4, <2>5 DEF Along
<1>7. Followed(u)' /\ crashed' = FALSE
  BY <1>1, <1>3, FollowedSame
<1> QED BY <1>2, <1>4, <1>5, <1>6, <1>7, FollowerStep

-----------------------------------------------------------------------------
(* Announcements and requests.                                             *)

(* A peer that repeats takes its flag down, and announces nothing.         *)
LEMMA RepeatedAgree ==
    ASSUME IInv, AgreeInv, AllMounted, NEW u \in Ranks, u = user, NEW p \in Others(u), Announce(p)
    PROVE  AgreeInv'
<1>1. /\ fuse[p].at = "announce" /\ fuse[p].op.type \in Announced /\ fromThread[p][fuse[p].op.type]
      /\ p \in Ranks /\ recv[p].at # "terminated"
  BY DEF IInv, Working, Follows, Repeats, Announce, Others
<1>2. PICK type \in Announced : type = fuse[p].op.type
  BY <1>1
<1>3. /\ fromThread' = [fromThread EXCEPT ![p][type] = FALSE] /\ fuse' = [fuse EXCEPT ![p] = At("loop")]
      /\ UNCHANGED <<recv, mounted, crashed, blockList, exchanges, pos, user, net, tree, applied>>
  BY <1>1, <1>2 DEF Announce, dataVars, userVars
<1>4. Followed(u) /\ Along(u, p) /\ crashed = FALSE
  BY Used
<1>5. /\ fuse'[p].at = "loop" /\ ~fromThread'[p][type]
      /\ \A other \in Announced : other # type => fromThread'[p][other] = fromThread[p][other]
      /\ \A q \in Ranks \ {p} : fuse'[q] = fuse[q] /\ fromThread'[q] = fromThread[q]
  BY <1>1, <1>3 DEF At, IInv, Shape
<1>6. fuse'[u] = fuse[u]
  BY <1>5 DEF Others
<1>7. AgreeOnlyAt(u, p)
  BY <1>3, <1>5 DEF AgreeOnlyAt, SameExchange
<1>8. Along(u, p)'
  <2>1. Ordered(u, p)'
    BY <1>3, <1>4, <1>6, OrderedStill DEF Along, Told
  <2>2. FlagsOf(p)'
    BY <1>2, <1>3, <1>4, <1>5 DEF Along, FlagsOf, Receiving, Repeating
  <2>3. Lists(u, p)'
    BY <1>3, <1>4, <1>6, ListsStill DEF Along, SameExchange
  <2>4. Awaited(u, p)' = Awaited(u, p)
    BY <1>3, <1>6 DEF Awaited
  <2>5. Sizes(u, p)' /\ Made(p)'
    BY <1>3, <1>4, <1>6, <2>4, SizesStill, MadeStill DEF Along
  <2> QED BY <2>1, <2>2, <2>3, <2>5 DEF Along
<1>9. Followed(u)' /\ crashed' = FALSE /\ recv'[p].at # "terminated"
  BY <1>1, <1>3, <1>4, FollowedSame
<1> QED BY <1>7, <1>8, <1>9, FollowerStep

(* What the used peer did last goes to the others, behind what it did      *)
(* before.                                                                 *)
LEMMA AnnouncedAgree ==
    ASSUME IInv, TypeInv, AgreeInv, AllMounted, NEW u \in Ranks, u = user, Announce(u)
    PROVE  AgreeInv'
<1>1. Working(u) /\ Followed(u) /\ Lead(u) /\ crashed = FALSE /\ \A q \in Others(u) : Along(u, q)
  BY Used
<1>2. PICK o : o = fuse[u].op
  OBVIOUS
<1>3. /\ fuse[u].at = "announce" /\ o.type \in Announced /\ ~fromThread[u][o.type]
      /\ Len(applied[u]) \in 1 .. Len(applied[u]) /\ o = applied[u][Len(applied[u])]
  BY <1>1, <1>2 DEF Announce, Working, Leads, Lead
<1>4. /\ Broadcast(u, o) /\ UNCHANGED <<recv, mounted, fromThread, crashed, blockList, exchanges, pos, user, tree, applied>>
      /\ fuse' = [fuse EXCEPT ![u] = IF o.type = "RENAME" THEN At("loop") ELSE [at |-> "reset", op |-> o]]
  BY <1>2, <1>3 DEF Announce, dataVars, userVars
<1>5. /\ fuse'[u].at \in {"loop", "reset"} /\ \A q \in Others(u) : fuse'[q] = fuse[q]
  BY <1>4 DEF At, Others, IInv, Shape
<1>6. ASSUME NEW q \in Others(u) PROVE Along(u, q)'
  <2>1. q \in Ranks /\ IsSeq(net[u][q]) /\ net'[u][q] = net[u][q] \o <<Header(o.type), Body(o)>>
    BY <1>4 DEF Broadcast, Others, IInv, Shape
  <2>2. Ordered(u, q)
    BY <1>1 DEF Along
  <2>3. PICK before \in Nat : before = Told(u) /\ before = Len(applied[u]) - 1 /\ before + 1 = Told(u)'
    <3>1. Len(applied[u]) \in Nat
      BY DEF TypeInv, HistoryTyped
    <3>2. Told(u) = Len(applied[u]) - 1 /\ Told(u)' = Len(applied[u])
      BY <1>3, <1>4, <1>5 DEF Told
    <3> QED BY <1>3, <3>1, <3>2
  <2>4. TakenUp(q)' = TakenUp(q)
    BY <1>4 DEF TakenUp
  <2>5. Numbered(net[u][q] \o <<Header(o.type), Body(o)>>, applied[u], TakenUp(q), before + 1)
    BY <1>3, <2>1, <2>2, <2>3, NumberedSent DEF Ordered
  <2>6. recv[q].at # "scatter"
    BY <1>1, <1>3 DEF Working, Follows, Contributes, Awaited
  <2>7. Ordered(u, q)'
    BY <1>4, <2>1, <2>2, <2>3, <2>4, <2>5, <2>6 DEF Ordered
  <2>8. FlagsOf(q)'
    BY <1>1, <1>4, <1>5, FlagsStill DEF Along
  <2>9. Lists(u, q)'
    BY <1>1, <1>3, <1>4, <1>5 DEF Along, Lists, Upcoming, Gathered, GatheredParts
  <2>10. Awaited(u, q) = FALSE /\ Awaited(u, q)' = FALSE
    BY <1>3, <1>5 DEF Awaited
  <2>11. Sizes(u, q)' /\ Made(q)'
    BY <1>1, <1>4, <2>10, SizesStill, MadeStill DEF Along
  <2> QED BY <2>7, <2>8, <2>9, <2>11 DEF Along
<1>7. Lead(u)'
  BY <1>1, <1>4, <1>5 DEF Lead, InCall
<1>8. Followed(u)' /\ crashed' = FALSE /\ user' = u /\ AllMounted'
  BY <1>1, <1>4, FollowedSame DEF AllMounted
<1> QED BY <1>6, <1>7, <1>8, AheadStep

LEMMA AnnounceAgree == ASSUME IInv, TypeInv, AgreeInv, NEW p \in Ranks, Announce(p) PROVE AgreeInv'
<1>1. AllMounted
  BY DEF IInv, Resting, Announce
<1>2. PICK u \in Ranks : u = user
  BY DEF IInv, Shape
<1>3. p = u \/ p \in Others(u)
  BY DEF Others
<1> QED BY <1>1, <1>2, <1>3, RepeatedAgree, AnnouncedAgree

(* A receiving thread of a follower that is no collective, before or after. *)
LEMMA ReceivedLists ==
    ASSUME NEW u, NEW p, p # u, Lists(u, p), UNCHANGED <<blockList, exchanges, pos>>, fuse'[u] = fuse[u],
           recv[p].at # "gather", recv'[p].at # "gather"
    PROVE  Lists(u, p)'
  BY DEF Lists, Upcoming, Gathered, GatheredParts

LEMMA ReceivedSizes ==
    ASSUME NEW u, NEW p, Sizes(u, p), UNCHANGED <<tree, exchanges, pos>>, fuse'[u] = fuse[u],
           recv[p].at # "gather", recv'[p].at # "gather"
    PROVE  Sizes(u, p)' /\ Made(p)'
  BY DEF Sizes, SizeAhead, Awaited, Made

LEMMA RecvHeaderAgree ==
    ASSUME IInv, AgreeInv, NEW q \in Ranks, NEW p \in Ranks, RecvHeader(q, p)
    PROVE  AgreeInv'
<1>1. PICK type : type = Head(net[q][p]).type
  OBVIOUS
<1>2. /\ recv[p].at = "request" /\ net[q][p] # <<>> /\ Head(net[q][p]).part = "header" /\ type # "TERMINATE"
      /\ Receive(q, p)
      /\ UNCHANGED <<fuse, mounted, crashed, blockList, exchanges, pos, user, tree, applied>>
  BY <1>1 DEF RecvHeader, At, dataVars, userVars
<1>3. /\ Head(net[q][p]) = net[q][p][1] /\ Len(net[q][p]) > 0 /\ Len(net[q][p]) \in Nat
      /\ \A r, s \in Ranks : r # q \/ s # p => net'[r][s] = net[r][s]
  BY <1>2, ReceiveFacts DEF IInv
<1>4. AllMounted
  <2>1. ASSUME Resting PROVE FALSE
    <3>1. net[q][p][1] = Header("TERMINATE")
      BY <1>3, <2>1 DEF Resting
    <3> QED BY <1>1, <1>2, <1>3, <3>1, MessageParts
  <2> QED BY <2>1 DEF IInv
<1>5. PICK u \in Ranks : u = user /\ u = q
  BY <1>2, <1>4, NoTermination DEF IInv, Shape
<1>6. Followed(u) /\ Lead(u) /\ crashed = FALSE /\ \A r \in Others(u) : Along(u, r)
  BY <1>4, <1>5, Used
<1>7. Followed(u)' /\ crashed' = FALSE
  BY <1>2, <1>6, FollowedSame
<1>8. CASE p = u
  <2>1. UNCHANGED <<recv, fromThread>>
    BY <1>5, <1>8 DEF RecvHeader
  <2>2. \A r \in Others(u) : Along(u, r)'
    <3>1. SUFFICES ASSUME NEW r \in Others(u) PROVE Along(u, r)'
      OBVIOUS
    <3>2. net'[u][r] = net[u][r]
      BY <1>3, <1>5, <1>8 DEF Others
    <3> QED BY <1>2, <1>6, <2>1, <3>2, AlongStill DEF SameExchange
  <2>3. Lead(u)' /\ AllMounted'
    BY <1>2, <1>4, <1>6, <2>1 DEF Lead, InCall, AllMounted
  <2> QED BY <1>2, <1>5, <1>7, <2>2, <2>3, AheadStep
<1>9. CASE p # u
  <2>1. /\ recv' = [recv EXCEPT ![p] = [at |-> "body", type |-> type, source |-> u]]
        /\ fromThread' = IF type \in Announced THEN [fromThread EXCEPT ![p][type] = TRUE] ELSE fromThread
    BY <1>1, <1>5, <1>9 DEF RecvHeader
  <2>2. p \in Others(u) /\ Along(u, p)
    BY <1>6, <1>9 DEF Others
  <2>3. /\ recv'[p].at = "body" /\ recv'[p].type = type
        /\ \A r \in Ranks \ {p} : recv'[r] = recv[r] /\ fromThread'[r] = fromThread[r]
        /\ \A other \in Announced : other # type => fromThread'[p][other] = fromThread[p][other]
    BY <2>1 DEF IInv, Shape
  <2>4. AgreeOnlyAt(u, p)
    BY <1>2, <1>3, <2>3 DEF AgreeOnlyAt, SameExchange
  <2>5. Ordered(u, p)'
    <3>1. IsSeq(net[u][p]) /\ net'[u][p] = Tail(net[u][p]) /\ ~Ordering(net[u][p][1])
      BY <1>2, <1>3, <1>5 DEF Receive, Ordering, IInv, Shape
    <3>2. Numbered(net[u][p], applied[u], TakenUp(p), Told(u))
      BY <2>2 DEF Along, Ordered
    <3>3. Numbered(Tail(net[u][p]), applied[u], TakenUp(p), Told(u))
      BY <1>2, <1>5, <3>1, <3>2, NumberedTail
    <3>4. TakenUp(p)' = TakenUp(p) /\ Told(u)' = Told(u)
      BY <1>2, <2>3 DEF TakenUp, Told
    <3> QED BY <1>2, <2>3, <3>1, <3>3, <3>4 DEF Ordered
  <2>6. FlagsOf(p)'
    BY <1>2, <2>2, <2>3 DEF Along, FlagsOf, Receiving, Repeating
  <2>7. Lists(u, p)' /\ Sizes(u, p)' /\ Made(p)'
    BY <1>2, <1>9, <2>2, <2>3, ReceivedLists, ReceivedSizes DEF Along
  <2> QED BY <1>4, <1>5, <1>7, <2>2, <2>3, <2>4, <2>5, <2>6, <2>7, FollowerStep DEF Along
<1> QED BY <1>8, <1>9

LEMMA RecvBodyAgree ==
    ASSUME IInv, TypeInv, AgreeInv, NEW q \in Ranks, NEW p \in Ranks, RecvBody(q, p)
    PROVE  AgreeInv'
<1>1. PICK content : content = Head(net[q][p]).content
  OBVIOUS
<1>2. PICK place : place = IF content.type \in Announced
                           THEN [at |-> "syscall", type |-> content.type, op |-> content]
                           ELSE IF content.type = "READ" /\ content.fileSize = 0 THEN At("request")
                           ELSE [at |-> "scatter", call |-> content]
  OBVIOUS
<1>3. /\ recv[p].at = "body" /\ net[q][p] # <<>> /\ Head(net[q][p]).part = "body"
      /\ content.type = recv[p].type /\ Receive(q, p)
      /\ recv' = [recv EXCEPT ![p] = place]
      /\ UNCHANGED <<fuse, mounted, fromThread, crashed, blockList, exchanges, pos, user, tree, applied>>
  BY <1>1, <1>2 DEF RecvBody, dataVars, userVars
<1>4. /\ Head(net[q][p]) = net[q][p][1] /\ Len(net[q][p]) > 0 /\ Len(net[q][p]) \in Nat
      /\ \A r, s \in Ranks : r # q \/ s # p => net'[r][s] = net[r][s]
  BY <1>3, ReceiveFacts DEF IInv
<1>5. PICK u \in Ranks : u = user /\ AllMounted /\ p \in Others(u) /\ Follows(u, p)
  BY <1>3, BusyFollows
<1>6. q = u
  BY <1>3, <1>5, NoTermination
<1>7. Followed(u) /\ Along(u, p) /\ crashed = FALSE /\ u # p
  BY <1>5, Used DEF Others
<1>8. Followed(u)' /\ crashed' = FALSE
  BY <1>3, <1>7, FollowedSame
<1>9. recv'[p] = place /\ \A r \in Ranks \ {p} : recv'[r] = recv[r]
  BY <1>3 DEF IInv, Shape
<1>10. place.at \in {"syscall", "request", "scatter"}
  BY <1>2 DEF At
<1>11. AgreeOnlyAt(u, p)
  BY <1>3, <1>4, <1>6, <1>9 DEF AgreeOnlyAt, SameExchange
<1>12. Ordered(u, p)'
  <2>1. /\ IsSeq(net[u][p]) /\ net'[u][p] = Tail(net[u][p]) /\ net[u][p] # <<>>
        /\ net[u][p][1].part = "body" /\ net[u][p][1].content = content
    BY <1>1, <1>3, <1>4, <1>6 DEF Receive, IInv, Shape
  <2>2. Numbered(net[u][p], applied[u], Len(applied[p]), Told(u))
    BY <1>3, <1>7 DEF Along, Ordered, TakenUp
  <2>3. Told(u)' = Told(u)
    BY <1>3 DEF Told
  <2>4. CASE content.type \in Announced
    <3>1. Ordering(net[u][p][1])
      BY <2>1, <2>4 DEF Ordering
    <3>2. /\ Len(applied[p]) + 1 \in 1 .. Len(applied[u]) /\ content = applied[u][Len(applied[p]) + 1]
          /\ Numbered(Tail(net[u][p]), applied[u], Len(applied[p]) + 1, Told(u))
      BY <2>1, <2>2, <3>1, NumberedTail
    <3>3. recv'[p].at = "syscall" /\ recv'[p].op = content
      BY <1>2, <1>9, <2>4
    <3>4. TakenUp(p)' = Len(applied[p]) + 1
      BY <1>3, <3>3 DEF TakenUp
    <3> QED BY <1>3, <2>1, <2>3, <3>2, <3>3, <3>4 DEF Ordered
  <2>5. CASE content.type \notin Announced
    <3>1. ~Ordering(net[u][p][1])
      BY <2>1, <2>5 DEF Ordering
    <3>2. Numbered(Tail(net[u][p]), applied[u], Len(applied[p]), Told(u))
      BY <2>1, <2>2, <3>1, NumberedTail
    <3>3. recv'[p].at # "syscall"
      BY <1>2, <1>9, <2>5 DEF At
    <3>4. TakenUp(p)' = Len(applied[p])
      BY <1>3, <3>3 DEF TakenUp
    <3>5. recv'[p].at = "scatter" => Tail(net[u][p]) = <<>>
      <4>1. SUFFICES ASSUME recv'[p].at = "scatter" PROVE Tail(net[u][p]) = <<>>
        OBVIOUS
      <4>2. Joined(content)
        BY <1>2, <1>9, <2>5, <4>1 DEF Joined, At
      <4>3. Contributes(u, p) /\ 1 \in 1 .. Len(net[u][p])
        BY <1>4, <1>5, <1>6 DEF Follows
      <4>4. net[u][p][1].part = "body" /\ Joined(net[u][p][1].content)
        BY <2>1, <4>2
      <4>5. 1 = Len(net[u][p])
        BY <4>3, <4>4 DEF Contributes
      <4>6. ~(Len(net[u][p]) > 1)
        <5>1. PICK length : length = Len(net[u][p])
          OBVIOUS
        <5>2. length = 1
          BY <4>5, <5>1
        <5> QED BY <5>1, <5>2
      <4> QED BY <2>1, <4>6, TailFacts
    <3> QED BY <1>3, <2>1, <2>3, <3>2, <3>3, <3>4, <3>5 DEF Ordered
  <2> QED BY <2>4, <2>5
<1>13. FlagsOf(p)'
  <2>1. ASSUME NEW type \in Announced, Receiving(p, type) PROVE Receiving(p, type)'
    BY <1>2, <1>3, <1>9, <2>1 DEF Receiving
  <2> QED BY <1>3, <1>7, <2>1 DEF Along, FlagsOf, Repeating
<1>14. Lists(u, p)' /\ Sizes(u, p)' /\ Made(p)'
  BY <1>3, <1>7, <1>9, <1>10, ReceivedLists, ReceivedSizes DEF Along
<1> QED BY <1>5, <1>8, <1>9, <1>10, <1>11, <1>12, <1>13, <1>14, FollowerStep DEF Along

-----------------------------------------------------------------------------
(* Calls.                                                                  *)

(* Whoever is used next leads, whether the others have caught up or not. *)
LEMMA UserAlong ==
    ASSUME IInv, TypeInv, AgreeInv, Settled, NEW p \in Ranks, NEW type, MayUse(p, type)
    PROVE  /\ AllMounted /\ crashed = FALSE
           /\ Followed(p) /\ Lead(p) /\ \A q \in Others(p) : Along(p, q)
<1>1. AllMounted
  BY UserLeads
<1>2. PICK u \in Ranks : u = user
  BY DEF IInv, Shape
<1>3. Followed(u) /\ crashed = FALSE
  BY <1>1, <1>2, Used
<1>4. CASE Quiet
  <2>1. Agreed
    BY <1>1, <1>4, Settle
  <2>2. /\ \A q, r \in Ranks : net[q][r] = <<>>
        /\ \A q \in Ranks : fuse[q].at = "loop" /\ recv[q].at = "request"
    BY <1>1, <1>4, QuietPlaces
  <2>3. Followed(p) /\ Ahead(p)
    BY <1>3, <2>1, <2>2, Restart
  <2> QED BY <1>1, <1>3, <2>3 DEF Ahead
<1>5. CASE ~Quiet
  <2>1. user = p
    BY <1>5 DEF MayUse, Settled
  <2> QED BY <1>1, <2>1, Used
<1> QED BY <1>4, <1>5

(* The call that p makes is sent to q. *)
LEMMA CallAlong ==
    ASSUME NEW p, NEW q, q # p, Along(p, q), Follows(p, q), IsSeq(net[p][q]), NEW c, Sent(p, q, c),
           c.type \notin Announced, fuse[p].at = "loop", fuse'[p].at \in {"loop", "scatter"}, fuse'[q] = fuse[q],
           Told(p) \in Nat, UNCHANGED <<recv, fromThread, blockList, exchanges, pos, applied>>, tree'[q] = tree[q]
    PROVE  Ordered(p, q)' /\ FlagsOf(q)' /\ Lists(p, q)' /\ Made(q)'
<1>1. Ordered(p, q)'
  <2>1. recv[q].at # "scatter"
    BY DEF Follows, Contributes, Awaited
  <2>2. TakenUp(q)' = TakenUp(q) /\ Told(p)' = Told(p)
    BY DEF TakenUp, Told
  <2>3. PICK last \in Nat : last = Told(p)
    OBVIOUS
  <2>4. Numbered(net[p][q], applied[p], TakenUp(q), last)
    BY <2>3 DEF Along, Ordered
  <2>5. Numbered(net[p][q] \o <<Header(c.type), Body(c)>>, applied[p], TakenUp(q), last)
    BY <2>4, NumberedSent
  <2> QED BY <2>1, <2>2, <2>3, <2>5 DEF Along, Ordered, Sent
<1>2. FlagsOf(q)'
  BY FlagsStill DEF Along
<1>3. Lists(p, q)'
  BY DEF Along, Lists, Upcoming, Gathered, GatheredParts
<1>4. Made(q)'
  BY MadeStill DEF Along
<1> QED BY <1>1, <1>2, <1>3, <1>4

LEMMA CallBeginsAgree ==
    ASSUME IInv, TypeInv, AgreeInv, Settled, NEW p \in Ranks, NEW c, CallBegins(p, c),
           UNCHANGED <<applied, blockList, crashed>>, \A q \in Others(p) : tree'[q] = tree[q],
           Bare(tree'[p]) = Bare(tree[p]), Named(tree'[p]), c.inode \in DOMAIN tree[p],
           \A ino \in DOMAIN tree[p] :
               tree'[p][ino].st_size = IF c.type = "WRITE" /\ c.inode = ino THEN c.fileSize ELSE tree[p][ino].st_size
    PROVE  AgreeInv'
<1>1. /\ AllMounted /\ Followed(p) /\ Lead(p) /\ \A q \in Others(p) : Along(p, q)
      /\ crashed = FALSE
  BY UserAlong DEF CallBegins
<1>2. Working(p) /\ fuse[p].at = "loop" /\ \A q \in Ranks : pos[q] = Len(exchanges)
  BY UserLeads DEF CallBegins
<1>3. /\ \A q \in Others(p) : fuse'[q] = fuse[q]
      /\ IF Joined(c) THEN fuse'[p] = [at |-> "scatter", call |-> c]
         ELSE fuse'[p] = fuse[p] \/ fuse'[p] = [at |-> "scatter", call |-> c]
      /\ UNCHANGED <<recv, mounted, fromThread, exchanges, pos>> /\ user' = p
  BY DEF CallBegins, IInv, Shape, Others
<1>4. fuse'[p].at \in {"loop", "scatter"} /\ (fuse'[p].at = "scatter" => fuse'[p].call = c)
  BY <1>2, <1>3
<1>5. c.type = "WRITE" => fuse'[p].at = "scatter"
  <2>1. "WRITE" \notin Announced
    BY DEF Announced
  <2> QED BY <1>3, <2>1 DEF Joined
<1>6. \A q \in Others(p) : IsSeq(net[p][q]) /\ Sent(p, q, c)
  BY DEF CallBegins, SendCall, Others, Sent, IInv, Shape
<1>7. c.type \notin Announced
  BY DEF CallBegins, Announced
<1>8. DOMAIN tree'[p] = DOMAIN tree[p]
  BY BareDomain
<1>9. Told(p) \in Nat
  BY <1>2 DEF Told, TypeInv, HistoryTyped
<1>10. ASSUME NEW q \in Others(p) PROVE Along(p, q)'
  <2>1. /\ q # p /\ Along(p, q) /\ Follows(p, q) /\ IsSeq(net[p][q]) /\ Sent(p, q, c)
        /\ fuse'[q] = fuse[q] /\ tree'[q] = tree[q]
    BY <1>1, <1>2, <1>3, <1>6 DEF Working, Others
  <2>2. Ordered(p, q)' /\ FlagsOf(q)' /\ Lists(p, q)' /\ Made(q)'
    BY <1>2, <1>3, <1>4, <1>7, <1>9, <2>1, CallAlong
  <2>3. Sizes(p, q)'
    <3>1. SUFFICES ASSUME NEW ino \in DOMAIN tree[p] PROVE tree'[p][ino].st_size = SizeAhead(p, q, ino)'
      BY <1>8 DEF Sizes
    <3>2. tree[p][ino].st_size = SizeAhead(p, q, ino)
      BY <2>1 DEF Along, Sizes
    <3>3. ~Awaited(p, q) /\ (Awaited(p, q)' <=> fuse'[p].at = "scatter")
      BY <1>2, <1>4 DEF Awaited
    <3>4. CASE c.type = "WRITE" /\ c.inode = ino
      BY <1>4, <1>5, <3>3, <3>4 DEF SizeAhead
    <3>5. CASE ~(c.type = "WRITE" /\ c.inode = ino)
      <4>1. SizeAhead(p, q, ino)' = SizeAhead(p, q, ino)
        BY <1>3, <1>4, <2>1, <3>3, <3>5 DEF SizeAhead
      <4> QED BY <3>2, <3>5, <4>1
    <3> QED BY <3>4, <3>5
  <2> QED BY <2>2, <2>3 DEF Along
<1>11. Lead(p)'
  BY <1>1, <1>3, <1>4, <1>8 DEF Lead, InCall
<1>12. Followed(p)'
  <2>1. \A q \in Ranks : Bare(tree'[q]) = Bare(tree[q])
    BY DEF Others
  <2> QED BY <1>1, <2>1, FollowedStill
<1>13. AllMounted' /\ crashed' = FALSE
  BY <1>1, <1>3 DEF AllMounted
<1> QED BY <1>3, <1>10, <1>11, <1>12, <1>13, AheadStep

(* The table but for the sizes stays when a size is set.                   *)
LEMMA SetSizeBare ==
    ASSUME NEW n \in Nat, n > 1, NEW t, Table(t, n), NEW ino \in 0 .. n - 1, NEW size \in Nat, NEW blocks \in Nat
    PROVE  /\ Bare(SetSize(t, ino, size, blocks)) = Bare(t)
           /\ \A other \in 0 .. n - 1 : SetSize(t, ino, size, blocks)[other].st_size
                                        = IF other = ino THEN size ELSE t[other].st_size
<1>1. t[ino] \in INodeRecords(0 .. n - 1) /\ DOMAIN t = 0 .. n - 1
  BY TableFacts
<1>2. PICK numbers : numbers = 0 .. n - 1
  OBVIOUS
<1>3. PICK inode \in INodeRecords(numbers) : inode = t[ino]
  BY <1>1, <1>2
<1>4. PICK r \in INodeRecords(numbers) : r = WithSize(inode, size, blocks)
  BY SizeFields
<1>5. /\ r.type = inode.type /\ r.st_nlink = inode.st_nlink /\ r.m_children = inode.m_children
       /\ r.dir_name = inode.dir_name /\ r.st_size = size
  <2>1. /\ WithSize(inode, size, blocks).type = inode.type
        /\ WithSize(inode, size, blocks).st_nlink = inode.st_nlink
        /\ WithSize(inode, size, blocks).m_children = inode.m_children
        /\ WithSize(inode, size, blocks).dir_name = inode.dir_name
        /\ WithSize(inode, size, blocks).st_size = size
    BY SizeFields
  <2> QED BY <1>4, <2>1
<1>6. PICK s : s = SetSize(t, ino, size, blocks)
  OBVIOUS
<1>7. Replaced(t, ino, r, s)
  BY <1>1, <1>3, <1>4, <1>6 DEF SetSize, WithSize, Replaced
<1>8. PICK bare \in INodeRecords(numbers) : bare = WithSize(r, 0, 0)
  BY SizeFields
<1>9. PICK was \in INodeRecords(numbers) : was = WithSize(inode, 0, 0)
  BY SizeFields
<1>10. bare = was
  <2>1. /\ r.type = inode.type /\ r.st_nlink = inode.st_nlink /\ r.m_children = inode.m_children
        /\ r.dir_name = inode.dir_name
    BY <1>5
  <2>2. /\ bare.type = r.type /\ bare.st_nlink = r.st_nlink /\ bare.m_children = r.m_children
        /\ bare.dir_name = r.dir_name /\ bare.st_size = 0 /\ bare.st_blocks = 0
    BY <1>8, SizeFields
  <2>3. /\ was.type = inode.type /\ was.st_nlink = inode.st_nlink /\ was.m_children = inode.m_children
        /\ was.dir_name = inode.dir_name /\ was.st_size = 0 /\ was.st_blocks = 0
    BY <1>9, SizeFields
  <2> QED BY <2>1, <2>2, <2>3, RecordsEqual
<1>11. DOMAIN s = 0 .. n - 1 /\ s[ino] = r /\ \A k \in 0 .. n - 1 : k # ino => s[k] = t[k]
  BY <1>1, <1>7 DEF Replaced
<1>12. Bare(s) = Bare(t)
  <2>1. \A k \in 0 .. n - 1 : WithSize(s[k], 0, 0) = WithSize(t[k], 0, 0)
    BY <1>3, <1>8, <1>9, <1>10, <1>11
  <2> QED BY <1>1, <1>11, <2>1 DEF Bare
<1> QED BY <1>6, <1>11, <1>12, <1>5

(* The sizes of one inode of p are set, in its table. *)
LEMMA SizeSetBare ==
    ASSUME TreesTyped, NEW p \in Ranks, NEW ino \in DOMAIN tree[p], NEW size \in Nat, NEW blocks \in Nat,
           SizeSet(p, ino, size, blocks)
    PROVE  /\ \A q \in Ranks \ {p} : tree'[q] = tree[q]
           /\ Bare(tree'[p]) = Bare(tree[p]) /\ (Named(tree[p]) => Named(tree'[p]))
           /\ \A other \in DOMAIN tree[p] :
                 tree'[p][other].st_size = IF ino = other THEN size ELSE tree[p][other].st_size
<1>1. PICK n \in 2 .. MaxINodes : Table(tree[p], n) /\ n \in Nat /\ n > 1
  BY TreeThere
<1>2. DOMAIN tree[p] = 0 .. n - 1 /\ DOMAIN tree = Ranks
  BY <1>1, TableFacts DEF TreesTyped
<1>3. PICK s : s = SetSize(tree[p], ino, size, blocks)
  OBVIOUS
<1>4. tree' = [tree EXCEPT ![p] = s]
  BY <1>1, <1>2, <1>3, SizeIsSet
<1>5. tree'[p] = s /\ \A q \in Ranks \ {p} : tree'[q] = tree[q]
  BY <1>2, <1>4
<1>6. Table(s, n)
  BY <1>1, <1>2, <1>3, SetSizeKeeps
<1>7. /\ Bare(s) = Bare(tree[p])
      /\ \A other \in 0 .. n - 1 : s[other].st_size = IF other = ino THEN size ELSE tree[p][other].st_size
  <2>1. PICK t : t = tree[p]
    OBVIOUS
  <2>2. Table(t, n) /\ ino \in 0 .. n - 1 /\ n \in Nat /\ n > 1
    BY <1>1, <1>2, <2>1
  <2>3. /\ Bare(SetSize(t, ino, size, blocks)) = Bare(t)
        /\ \A other \in 0 .. n - 1 : SetSize(t, ino, size, blocks)[other].st_size
                                     = IF other = ino THEN size ELSE t[other].st_size
    BY <2>2, SetSizeBare
  <2> QED BY <1>3, <2>1, <2>3
<1>8. Named(tree[p]) => Named(s)
  BY <1>1, <1>6, <1>7, BareNamed
<1> QED BY <1>2, <1>5, <1>7, <1>8

LEMMA FlushAgree ==
    ASSUME IInv, TypeInv, AgreeInv, Settled, NEW p \in Ranks, NEW path \in Paths, NEW size \in FileSizes,
           FuseFlush(p, path, size)
    PROVE  AgreeInv'
<1>1. PICK ino : ino = INodeAt(tree[p], path)
  OBVIOUS
<1>2. PICK c : c = [type |-> "WRITE", source |-> p, inode |-> ino, fileSize |-> size]
  OBVIOUS
<1>3. /\ MayUse(p, "WRITE") /\ SendCall(p, c) /\ fuse' = [fuse EXCEPT ![p] = [at |-> "scatter", call |-> c]]
      /\ IsFile(tree[p], ino) /\ SizeSet(p, ino, size, NumberOfBlocks(size))
      /\ user' = p /\ UNCHANGED <<recv, mounted, fromThread, exchanges, pos, applied, blockList, crashed>>
  BY <1>1, <1>2 DEF FuseFlush, dataVars, SizeSet
<1>4. CallBegins(p, c)
  BY <1>2, <1>3 DEF CallBegins
<1>5. ino \in DOMAIN tree[p]
  BY <1>1, <1>3, FileNumber DEF TypeInv
<1>6. size \in Nat /\ NumberOfBlocks(size) \in Nat
  BY PeerToPeerAssumption, NumberOfBlocksType
<1>7. Named(tree[p])
  BY <1>3, UserAlong DEF Followed
<1>8. /\ \A q \in Ranks \ {p} : tree'[q] = tree[q]
      /\ Bare(tree'[p]) = Bare(tree[p]) /\ Named(tree'[p])
      /\ \A other \in DOMAIN tree[p] :
            tree'[p][other].st_size = IF ino = other THEN size ELSE tree[p][other].st_size
  BY <1>3, <1>5, <1>6, <1>7, SizeSetBare DEF TypeInv
<1>9. c.type = "WRITE" /\ c.inode = ino /\ c.fileSize = size
  BY <1>2
<1> QED BY <1>3, <1>4, <1>5, <1>8, <1>9, CallBeginsAgree DEF Others

LEMMA OpenAgree ==
    ASSUME IInv, TypeInv, AgreeInv, Settled, NEW p \in Ranks, NEW path \in Paths, FuseOpen(p, path)
    PROVE  AgreeInv'
<1>1. PICK ino : ino = INodeAt(tree[p], path)
  OBVIOUS
<1>2. PICK c : c = [type |-> "READ", source |-> p, inode |-> ino, fileSize |-> tree[p][ino].st_size]
  OBVIOUS
<1>3. /\ MayUse(p, "READ") /\ SendCall(p, c)
      /\ fuse' = IF c.fileSize = 0 THEN fuse ELSE [fuse EXCEPT ![p] = [at |-> "scatter", call |-> c]]
      /\ IsFile(tree[p], ino)
      /\ user' = p /\ UNCHANGED <<recv, mounted, fromThread, exchanges, pos, applied, blockList, crashed, tree>>
  BY <1>1, <1>2 DEF FuseOpen
<1>4. CallBegins(p, c)
  BY <1>2, <1>3 DEF CallBegins, Joined
<1>5. ino \in DOMAIN tree[p]
  BY <1>1, <1>3, FileNumber DEF TypeInv
<1>6. Named(tree[p])
  BY <1>3, UserAlong DEF Followed
<1>7. c.type = "READ" /\ c.inode = ino
  BY <1>2
<1> QED BY <1>3, <1>4, <1>5, <1>6, <1>7, CallBeginsAgree DEF Others

-----------------------------------------------------------------------------
(* Operations on the tree.                                                 *)

(* Who is behind knows no inode that u has not made. *)
LEMMA DomainsGrow ==
    ASSUME TypeInv, NEW u \in Ranks, Followed(u), NEW p \in Ranks
    PROVE  DOMAIN tree[p] \subseteq DOMAIN tree[u]
<1>1. PICK trees : Lined(trees, applied[u]) /\ Where(trees)
  BY DEF Followed
<1>2. PICK last \in Nat : last = Len(applied[u])
  BY DEF TypeInv, HistoryTyped
<1>3. PICK reached \in Nat : reached = Len(applied[p]) /\ reached <= last
  BY <1>2 DEF TypeInv, HistoryTyped, Followed, Behind
<1>4. Bare(tree[p]) = trees[reached] /\ Bare(tree[u]) = trees[last]
  BY <1>1, <1>2, <1>3 DEF Where
<1>5. DOMAIN Bare(tree[p]) = DOMAIN tree[p] /\ DOMAIN Bare(tree[u]) = DOMAIN tree[u]
  BY DEF Bare
<1>6. DOMAIN trees[reached] \subseteq DOMAIN trees[last]
  <2>1. CASE last = 0
    BY <1>3, <2>1
  <2>2. CASE last # 0
    <3>1. last \in 1 .. Len(applied[u]) /\ reached \in 0 .. last
      BY <1>2, <1>3, <2>2
    <3> QED BY <1>1, <3>1 DEF Lined
  <2> QED BY <2>1, <2>2
<1> QED BY <1>4, <1>5, <1>6

(* What may be carried out on a table may be on one that differs in sizes. *)
LEMMA BareRuns ==
    ASSUME NEW n \in Nat, n > 1, NEW t, Table(t, n), NEW o \in AnyOperation
    PROVE  Runs(Bare(t), o) <=> Runs(t, o)
  BY BareAllows DEF Runs

(* u carries out one more operation, that all others are behind by. *)
LEMMA LogGrows ==
    ASSUME TypeInv, NEW u \in Ranks, Followed(u), NEW o \in AnyOperation, o.type \in Announced, Runs(tree[u], o),
           Named(Applied(tree[u], o)), tree' = [tree EXCEPT ![u] = Applied(@, o)],
           applied' = [applied EXCEPT ![u] = Append(@, o)]
    PROVE  Followed(u)'
<1>1. PICK trees : Lined(trees, applied[u]) /\ Where(trees)
  BY DEF Followed
<1>2. PICK last \in Nat : last = Len(applied[u])
  BY DEF TypeInv, HistoryTyped
<1>3. PICK t : t = tree[u]
  OBVIOUS
<1>4. PICK n \in 2 .. MaxINodes : Table(t, n) /\ n \in Nat /\ n > 1
  BY <1>3, TreeThere DEF TypeInv
<1>5. PICK s : s = Applied(t, o)
  OBVIOUS
<1>6. /\ Bare(t) = trees[last] /\ Bare(s) = Applied(trees[last], o) /\ Runs(trees[last], o)
      /\ DOMAIN trees[last] \subseteq DOMAIN Bare(s)
  <2>1. Bare(t) = trees[last]
    BY <1>1, <1>2, <1>3 DEF Where
  <2>2. KernelAllows(t, o) /\ Runs(t, o)
    BY <1>3 DEF Runs
  <2>3. Bare(s) = Applied(Bare(t), o) /\ SizesStay(t, s)
    BY <1>4, <1>5, <2>2, AppliedBare
  <2>4. Runs(Bare(t), o)
    BY <1>4, <2>2, BareRuns
  <2>5. DOMAIN Bare(t) = DOMAIN t /\ DOMAIN Bare(s) = DOMAIN s
    BY DEF Bare
  <2> QED BY <2>1, <2>3, <2>4, <2>5 DEF SizesStay
<1>7. /\ tree'[u] = s /\ \A p \in Ranks \ {u} : tree'[p] = tree[p] /\ applied'[p] = applied[p]
      /\ applied'[u] = Append(applied[u], o)
  BY <1>3, <1>5 DEF TypeInv, TreesTyped, HistoryTyped
<1>8. /\ Len(applied'[u]) = last + 1 /\ applied'[u][last + 1] = o
      /\ \A k \in 1 .. last : applied'[u][k] = applied[u][k]
  <2>1. applied[u] \in Seq(AnyOperation)
    BY DEF TypeInv, HistoryTyped
  <2> QED BY <1>2, <1>7, <2>1
<1>9. PICK more : more = [k \in 0 .. last + 1 |-> IF k <= last THEN trees[k] ELSE Bare(s)]
  OBVIOUS
<1>10. more[last + 1] = Bare(s) /\ \A k \in 0 .. last : more[k] = trees[k]
  BY <1>9
<1>11. Lined(more, applied'[u])
  <2>1. SUFFICES ASSUME NEW k \in 1 .. last + 1
                 PROVE  /\ applied'[u][k].type \in Announced
                        /\ Runs(more[k - 1], applied'[u][k])
                        /\ more[k] = Applied(more[k - 1], applied'[u][k])
                        /\ \A j \in 0 .. k : DOMAIN more[j] \subseteq DOMAIN more[k]
    BY <1>8 DEF Lined
  <2>2. CASE k \in 1 .. last
    <3>1. /\ applied[u][k].type \in Announced
          /\ Runs(trees[k - 1], applied[u][k])
          /\ trees[k] = Applied(trees[k - 1], applied[u][k])
          /\ \A j \in 0 .. k : DOMAIN trees[j] \subseteq DOMAIN trees[k]
      BY <1>1, <1>2, <2>2 DEF Lined
    <3>2. applied'[u][k] = applied[u][k] /\ more[k] = trees[k] /\ more[k - 1] = trees[k - 1]
      BY <1>8, <1>10, <2>2
    <3>3. ASSUME NEW j \in 0 .. k PROVE DOMAIN more[j] \subseteq DOMAIN more[k]
      <4>1. j \in 0 .. last
        BY <2>2
      <4>2. more[j] = trees[j]
        BY <1>10, <4>1
      <4> QED BY <3>1, <3>2, <4>2
    <3> QED BY <3>1, <3>2, <3>3
  <2>3. CASE k = last + 1
    <3>1. applied'[u][k] = o /\ more[k] = Bare(s) /\ more[k - 1] = trees[last]
      BY <1>8, <1>10, <2>3
    <3>2. ASSUME NEW j \in 0 .. k PROVE DOMAIN more[j] \subseteq DOMAIN more[k]
      <4>1. CASE j = k
        BY <4>1
      <4>2. CASE j # k
        <5>1. j \in 0 .. last /\ more[j] = trees[j]
          BY <1>10, <2>3, <4>2
        <5>2. DOMAIN trees[j] \subseteq DOMAIN trees[last]
          <6>1. CASE last = 0
            BY <5>1, <6>1
          <6>2. CASE last # 0
            <7>1. last \in 1 .. Len(applied[u])
              BY <1>2, <6>2
            <7> QED BY <1>1, <5>1, <7>1 DEF Lined
          <6> QED BY <6>1, <6>2
        <5> QED BY <1>6, <3>1, <5>1, <5>2
      <4> QED BY <4>1, <4>2
    <3>3. /\ applied'[u][k].type \in Announced /\ Runs(more[k - 1], applied'[u][k])
          /\ more[k] = Applied(more[k - 1], applied'[u][k])
      BY <1>6, <3>1
    <3> QED BY <3>2, <3>3
  <2>4. k \in 1 .. last \/ k = last + 1
    OBVIOUS
  <2> QED BY <2>2, <2>3, <2>4
<1>12. Where(more)'
  <2>1. SUFFICES ASSUME NEW p \in Ranks PROVE Bare(tree'[p]) = more[Len(applied'[p])]
    BY DEF Where
  <2>2. CASE p = u
    BY <1>7, <1>8, <1>10, <2>2
  <2>3. CASE p # u
    <3>1. Len(applied[p]) \in 0 .. last
      BY <1>2 DEF TypeInv, HistoryTyped, Followed, Behind
    <3>2. Bare(tree[p]) = trees[Len(applied[p])]
      BY <1>1 DEF Where
    <3> QED BY <1>7, <1>10, <2>3, <3>1, <3>2
  <2> QED BY <2>2, <2>3
<1>13. ASSUME NEW p \in Ranks PROVE Behind(p, u)'
  <2>1. CASE p = u
    BY <1>8, <2>1 DEF Behind
  <2>2. CASE p # u
    <3>1. Len(applied[p]) \in Nat /\ Len(applied[p]) <= last
          /\ \A i \in 1 .. Len(applied[p]) : applied[p][i] = applied[u][i]
      BY <1>2 DEF TypeInv, HistoryTyped, Followed, Behind
    <3> QED BY <1>7, <1>8, <2>2, <3>1 DEF Behind
  <2> QED BY <2>1, <2>2
<1>14. Named(tree'[u])
  BY <1>3, <1>5, <1>7
<1> QED BY <1>11, <1>12, <1>13, <1>14 DEF Followed

(* A follower that is behind carries out the next operation of the log.    *)
LEMMA NextRuns ==
    ASSUME TypeInv, NEW u \in Ranks, Followed(u), NEW p \in Ranks, NEW o,
           Len(applied[p]) + 1 \in 1 .. Len(applied[u]), o = applied[u][Len(applied[p]) + 1]
    PROVE  /\ o \in AnyOperation /\ o.type \in Announced /\ Runs(tree[p], o)
           /\ SizesStay(tree[p], Applied(tree[p], o))
           /\ p # u
<1>1. PICK trees : Lined(trees, applied[u]) /\ Where(trees)
  BY DEF Followed
<1>2. applied[u] \in Seq(AnyOperation) /\ Len(applied[p]) \in Nat
  BY DEF TypeInv, HistoryTyped
<1>3. PICK k \in 1 .. Len(applied[u]) : k = Len(applied[p]) + 1 /\ k - 1 = Len(applied[p])
  BY <1>2
<1>4. o \in AnyOperation /\ p # u
  BY <1>2
<1>5. o.type \in Announced /\ Runs(trees[k - 1], o)
  BY <1>1, <1>3 DEF Lined
<1>6. trees[k - 1] = Bare(tree[p])
  BY <1>1, <1>3 DEF Where
<1>7. PICK t : t = tree[p]
  OBVIOUS
<1>8. PICK n \in 2 .. MaxINodes : Table(t, n) /\ n \in Nat /\ n > 1
  BY <1>7, TreeThere DEF TypeInv
<1>9. Runs(t, o)
  BY <1>4, <1>5, <1>6, <1>7, <1>8, BareRuns
<1>10. SizesStay(t, Applied(t, o))
  BY <1>4, <1>5, <1>8, <1>9, AppliedBare DEF Runs
<1> QED BY <1>4, <1>5, <1>7, <1>9, <1>10

LEMMA LogFollowed ==
    ASSUME TypeInv, NEW u \in Ranks, Followed(u), NEW p \in Ranks, NEW o,
           Len(applied[p]) + 1 \in 1 .. Len(applied[u]), o = applied[u][Len(applied[p]) + 1],
           tree' = [tree EXCEPT ![p] = Applied(@, o)], applied' = [applied EXCEPT ![p] = Append(@, o)]
    PROVE  Followed(u)'
<1>1. PICK trees : Lined(trees, applied[u]) /\ Where(trees)
  BY DEF Followed
<1>2. o \in AnyOperation /\ o.type \in Announced /\ Runs(tree[p], o) /\ p # u
  BY NextRuns
<1>3. PICK reached \in Nat : reached = Len(applied[p])
  BY DEF TypeInv, HistoryTyped
<1>4. PICK t : t = tree[p]
  OBVIOUS
<1>5. PICK n \in 2 .. MaxINodes : Table(t, n) /\ n \in Nat /\ n > 1
  BY <1>4, TreeThere DEF TypeInv
<1>6. PICK s : s = Applied(t, o)
  OBVIOUS
<1>7. Bare(s) = trees[reached + 1]
  <2>1. Bare(s) = Applied(Bare(t), o)
    BY <1>2, <1>4, <1>5, <1>6, AppliedBare DEF Runs
  <2>2. Bare(t) = trees[reached]
    BY <1>1, <1>3, <1>4 DEF Where
  <2>3. PICK k \in 1 .. Len(applied[u]) : k = reached + 1 /\ k - 1 = reached
    BY <1>3
  <2>4. trees[k] = Applied(trees[k - 1], o)
    BY <1>1, <1>3, <2>3 DEF Lined
  <2> QED BY <2>1, <2>2, <2>3, <2>4
<1>8. /\ tree'[p] = s /\ \A q \in Ranks \ {p} : tree'[q] = tree[q] /\ applied'[q] = applied[q]
      /\ applied'[p] = Append(applied[p], o)
  BY <1>4, <1>6 DEF TypeInv, TreesTyped, HistoryTyped
<1>9. /\ Len(applied'[p]) = reached + 1 /\ applied'[p][reached + 1] = o
      /\ \A k \in 1 .. reached : applied'[p][k] = applied[p][k]
  <2>1. applied[p] \in Seq(AnyOperation)
    BY DEF TypeInv, HistoryTyped
  <2> QED BY <1>3, <1>8, <2>1
<1>10. Where(trees)'
  <2>1. SUFFICES ASSUME NEW q \in Ranks PROVE Bare(tree'[q]) = trees[Len(applied'[q])]
    BY DEF Where
  <2>2. CASE q = p
    BY <1>7, <1>8, <1>9, <2>2
  <2>3. CASE q # p
    BY <1>1, <1>8, <2>3 DEF Where
  <2> QED BY <2>2, <2>3
<1>11. applied'[u] = applied[u] /\ tree'[u] = tree[u]
  BY <1>2, <1>8
<1>12. ASSUME NEW q \in Ranks PROVE Behind(q, u)'
  <2>1. Behind(q, u) /\ Behind(p, u)
    BY DEF Followed
  <2>2. CASE q # p
    BY <1>8, <1>11, <2>1, <2>2 DEF Behind
  <2>3. CASE q = p
    <3>1. ASSUME NEW i \in 1 .. reached + 1 PROVE applied'[p][i] = applied[u][i]
      <4>1. CASE i = reached + 1
        BY <1>3, <1>9, <4>1
      <4>2. CASE i # reached + 1
        <5>1. i \in 1 .. reached
          BY <4>2
        <5> QED BY <1>3, <1>9, <2>1, <5>1 DEF Behind
      <4> QED BY <4>1, <4>2
    <3>2. reached + 1 <= Len(applied[u])
      BY <1>3
    <3> QED BY <1>9, <1>11, <2>3, <3>1, <3>2 DEF Behind
  <2> QED BY <2>2, <2>3
<1>13. Named(tree'[u])
  BY <1>11 DEF Followed
<1> QED BY <1>1, <1>10, <1>11, <1>12, <1>13 DEF Followed

LEMMA ChangeAgree ==
    ASSUME IInv, TypeInv, AgreeInv, Settled, Repeatable, NEW u \in Ranks, NEW o \in Operations, Change(u, o)
    PROVE  AgreeInv'
<1>1. /\ MayUse(u, o.type) /\ KindOf(u, o) \in UserOps /\ o.type \in TreeTypes
      /\ Runs(tree[u], o)
      /\ tree' = [tree EXCEPT ![u] = Applied(@, o)] /\ applied' = [applied EXCEPT ![u] = Append(@, o)]
      /\ user' = u
      /\ UNCHANGED <<recv, mounted, fromThread, crashed, blockList, exchanges, pos, net>>
  BY DEF Change, Runs, dataVars
<1>2. /\ AllMounted /\ crashed = FALSE
      /\ Followed(u) /\ Lead(u) /\ \A q \in Others(u) : Along(u, q)
  BY <1>1, UserAlong
<1>3. fuse[u].at = "loop"
  BY <1>1, UserLeads
<1>4. o \in AnyOperation
  BY AnyOperations
<1>5. o.type \in Announced /\ (o.type = "RENAME" => ~IsDirectory(tree[u], INodeAt(tree[u], o.path)))
  BY <1>1 DEF Repeatable, KindOf, TreeTypes, Announced
<1>6. o.path # <<>>
  BY PeerToPeerAssumption DEF Operations
<1>7. PICK t : t = tree[u]
  OBVIOUS
<1>8. PICK n \in 2 .. MaxINodes : Table(t, n) /\ n \in Nat /\ n > 1
  BY <1>7, TreeThere DEF TypeInv
<1>9. PICK s : s = Applied(t, o)
  OBVIOUS
<1>10. Named(s) /\ SizesStay(t, s) /\ Announcement(t, o) = o
  <2>1. Named(t) /\ KernelAllows(t, o)
    BY <1>1, <1>2, <1>7 DEF Followed, Runs
  <2>2. Named(Applied(t, o))
    BY <1>4, <1>5, <1>6, <1>7, <1>8, <2>1, AppliedNamed
  <2>3. SizesStay(t, Applied(t, o))
    BY <1>4, <1>5, <1>8, <2>1, AppliedBare
  <2>4. Announcement(t, o) = o
    BY <1>5, <1>8, <2>1, AnnouncedAsIs
  <2> QED BY <1>9, <2>2, <2>3, <2>4
<1>11. Followed(u)'
  BY <1>1, <1>2, <1>4, <1>5, <1>7, <1>9, <1>10, LogGrows
<1>12. /\ fuse'[u] = [at |-> "announce", op |-> o] /\ \A q \in Others(u) : fuse'[q] = fuse[q]
  BY <1>5, <1>7, <1>10 DEF Change, Others, IInv, Shape
<1>13. fuse'[u].at = "announce" /\ fuse'[u].op = o
  BY <1>12
<1>14. /\ tree'[u] = s /\ \A q \in Others(u) : tree'[q] = tree[q] /\ applied'[q] = applied[q]
       /\ applied'[u] = Append(applied[u], o)
  BY <1>1, <1>7, <1>9 DEF TypeInv, TreesTyped, HistoryTyped, Others
<1>15. /\ applied[u] \in Seq(AnyOperation) /\ Len(applied[u]) \in Nat
       /\ Len(applied'[u]) = Len(applied[u]) + 1 /\ applied'[u][Len(applied[u]) + 1] = o
       /\ \A k \in 1 .. Len(applied[u]) : applied'[u][k] = applied[u][k]
  <2>1. applied[u] \in Seq(AnyOperation)
    BY DEF TypeInv, HistoryTyped
  <2> QED BY <1>14, <2>1
<1>16. ASSUME NEW q \in Others(u) PROVE Along(u, q)'
  <2>1. Along(u, q) /\ q \in Ranks /\ fuse'[q] = fuse[q] /\ tree'[q] = tree[q] /\ applied'[q] = applied[q]
    BY <1>2, <1>12, <1>14 DEF Others
  <2>2. Ordered(u, q)'
    <3>1. TakenUp(q)' = TakenUp(q) /\ Told(u)' = Told(u)
      BY <1>1, <1>3, <1>13, <1>15, <2>1 DEF TakenUp, Told
    <3>2. Numbered(net[u][q], Append(applied[u], o), TakenUp(q), Told(u))
      BY <1>15, <2>1, NumberedLonger DEF Along, Ordered
    <3>3. recv[q].at = "syscall" => /\ Len(applied[q]) + 1 \in 1 .. Len(applied'[u])
                                    /\ recv[q].op = applied'[u][Len(applied[q]) + 1]
      BY <1>15, <2>1 DEF Along, Ordered
    <3> QED BY <1>1, <1>14, <2>1, <3>1, <3>2, <3>3 DEF Along, Ordered
  <2>3. FlagsOf(q)'
    BY <1>1, <2>1, FlagsStill DEF Along
  <2>4. Lists(u, q)'
    BY <1>1, <1>3, <1>13, <2>1 DEF Along, Lists, Upcoming, Gathered, GatheredParts
  <2>5. Made(q)'
    BY <1>1, <2>1, MadeStill DEF Along
  <2>6. Sizes(u, q)'
    <3>1. SUFFICES ASSUME NEW ino \in DOMAIN s PROVE s[ino].st_size = SizeAhead(u, q, ino)'
      BY <1>14 DEF Sizes
    <3>2. SizeAhead(u, q, ino)' = SizeAhead(u, q, ino)
      BY <1>1, <1>3, <1>13, <2>1 DEF SizeAhead, Awaited
    <3>3. CASE ino \in DOMAIN t
      BY <1>7, <1>10, <2>1, <3>2, <3>3 DEF SizesStay, Along, Sizes
    <3>4. CASE ino \notin DOMAIN t
      <4>1. ino \notin DOMAIN tree[q]
        BY <1>2, <1>7, <2>1, <3>4, DomainsGrow
      <4>2. SizeAhead(u, q, ino) = 0
        BY <1>3, <2>1, <4>1 DEF SizeAhead, Awaited, Along, Made
      <4> QED BY <1>10, <3>2, <3>4, <4>2 DEF SizesStay
    <3> QED BY <3>3, <3>4
  <2> QED BY <2>2, <2>3, <2>4, <2>5, <2>6 DEF Along
<1>17. Lead(u)'
  <2>1. Len(applied'[u]) \in 1 .. Len(applied'[u]) /\ fuse'[u].op = applied'[u][Len(applied'[u])]
    BY <1>13, <1>15
  <2> QED BY <1>1, <1>2, <1>13, <2>1 DEF Lead, InCall
<1>18. AllMounted' /\ crashed' = FALSE
  BY <1>1, <1>2 DEF AllMounted
<1> QED BY <1>1, <1>11, <1>16, <1>17, <1>18, AheadStep

LEMMA ReplayAgree ==
    ASSUME IInv, TypeInv, AgreeInv, NEW p \in Ranks, Replay(p)
    PROVE  AgreeInv'
<1>1. recv[p].at = "syscall" /\ (fuse[p] = At("loop") \/ ~mounted[p])
  BY DEF Replay
<1>2. PICK u \in Ranks : u = user /\ AllMounted /\ p \in Others(u) /\ Follows(u, p)
  BY <1>1, BusyFollows
<1>3. Followed(u) /\ Along(u, p) /\ crashed = FALSE
  BY <1>2, Used
<1>4. mounted[p] /\ fuse[p].at = "loop"
  BY <1>1, <1>2 DEF AllMounted, At
<1>5. PICK o : o = recv[p].op
  OBVIOUS
<1>6. Len(applied[p]) + 1 \in 1 .. Len(applied[u]) /\ o = applied[u][Len(applied[p]) + 1]
  BY <1>1, <1>3, <1>5 DEF Along, Ordered
<1>7. /\ o \in AnyOperation /\ o.type \in Announced /\ Runs(tree[p], o)
      /\ SizesStay(tree[p], Applied(tree[p], o)) /\ p # u
  BY <1>3, <1>6, NextRuns
<1>8. /\ tree' = [tree EXCEPT ![p] = Applied(@, o)] /\ applied' = [applied EXCEPT ![p] = Append(@, o)]
      /\ fuse' = [fuse EXCEPT ![p] = [at |-> "announce", op |-> Announcement(tree[p], o)]]
      /\ recv' = [recv EXCEPT ![p] = IF o.type = "CREATE_FILE"
                                     THEN [at |-> "close", type |-> "CREATE_FILE"] ELSE At("request")]
      /\ crashed' = crashed
      /\ UNCHANGED <<mounted, fromThread, blockList, exchanges, pos, user, net>>
  <2>1. KernelAllows(tree[p], o) /\ HandlerAllows(tree[p], o)
    BY <1>7 DEF Runs
  <2>2. tree' = [tree EXCEPT ![p] = Applied(@, o)]
    BY <1>4, <1>5, <2>1 DEF Replay
  <2>3. applied' = [applied EXCEPT ![p] = Append(@, o)]
    BY <1>4, <1>5, <2>1 DEF Replay
  <2>4. fuse' = [fuse EXCEPT ![p] = [at |-> "announce", op |-> Announcement(tree[p], o)]]
    BY <1>4, <1>5, <2>1 DEF Replay
  <2>5. recv' = [recv EXCEPT ![p] = IF o.type = "CREATE_FILE"
                                    THEN [at |-> "close", type |-> "CREATE_FILE"] ELSE At("request")]
    BY <1>4, <1>5 DEF Replay
  <2>6. crashed' = crashed
    BY <1>3, <1>4, <1>5, <2>1 DEF Replay
  <2>7. UNCHANGED <<mounted, fromThread, blockList, exchanges, pos, user, net>>
    BY DEF Replay, dataVars, userVars
  <2> QED BY <2>2, <2>3, <2>4, <2>5, <2>6, <2>7
<1>9. Followed(u)'
  BY <1>3, <1>6, <1>8, LogFollowed
<1>10. /\ recv'[p].at \in {"close", "request"} /\ fuse'[p].at = "announce" /\ fuse'[p].op.type = o.type
       /\ tree'[p] = Applied(tree[p], o) /\ applied'[p] = Append(applied[p], o)
       /\ \A q \in Ranks \ {p} : /\ recv'[q] = recv[q] /\ fuse'[q] = fuse[q]
                                 /\ tree'[q] = tree[q] /\ applied'[q] = applied[q]
  <2>1. Announcement(tree[p], o).type = o.type
    BY DEF Announcement
  <2>2. recv'[p].at \in {"close", "request"}
    BY <1>8 DEF At, IInv, Shape
  <2>3. fuse'[p].at = "announce" /\ fuse'[p].op.type = o.type
    BY <1>8, <2>1 DEF IInv, Shape
  <2> QED BY <1>8, <2>2, <2>3 DEF IInv, Shape, TypeInv, TreesTyped, HistoryTyped
<1>11. u \in Ranks \ {p}
  BY <1>7
<1>12. AgreeOnlyAt(u, p)
  BY <1>8, <1>10 DEF AgreeOnlyAt, SameExchange
<1>13. Ordered(u, p)'
  <2>1. applied[p] \in Seq(AnyOperation)
    BY DEF TypeInv, HistoryTyped
  <2>2. Len(applied'[p]) = Len(applied[p]) + 1
    BY <1>10, <2>1
  <2>3. TakenUp(p)' = TakenUp(p) /\ Told(u)' = Told(u)
    BY <1>1, <1>10, <1>11, <2>2 DEF TakenUp, Told
  <2> QED BY <1>3, <1>8, <1>10, <1>11, <2>3 DEF Along, Ordered
<1>14. FlagsOf(p)'
  <2>1. o.type = recv[p].type
    BY <1>1, <1>2, <1>5 DEF Follows, Repeats
  <2>2. \A type \in Announced : fromThread[p][type] => type = o.type
    BY <1>3, <1>4, <2>1 DEF Along, FlagsOf, Receiving, Repeating
  <2> QED BY <1>8, <1>10, <2>2 DEF FlagsOf, Repeating
<1>15. Lists(u, p)'
  BY <1>1, <1>3, <1>8, <1>10, <1>11 DEF Along, Lists, Upcoming, Gathered, GatheredParts
<1>16. Made(p)'
  BY <1>10 DEF Made
<1>17. Sizes(u, p)'
  <2>1. SUFFICES ASSUME NEW ino \in DOMAIN tree[u] PROVE tree[u][ino].st_size = SizeAhead(u, p, ino)'
    BY <1>10, <1>11 DEF Sizes
  <2>2. tree[u][ino].st_size = SizeAhead(u, p, ino)
    BY <1>3 DEF Along, Sizes
  <2>3. Awaited(u, p)' = Awaited(u, p) /\ fuse'[u] = fuse[u]
    BY <1>8, <1>10, <1>11 DEF Awaited
  <2>4. (IF ino \in DOMAIN tree'[p] THEN tree'[p][ino].st_size ELSE 0)
        = (IF ino \in DOMAIN tree[p] THEN tree[p][ino].st_size ELSE 0)
    BY <1>7, <1>10 DEF SizesStay
  <2> QED BY <1>1, <1>10, <2>2, <2>3, <2>4 DEF SizeAhead
<1> QED BY <1>2, <1>3, <1>8, <1>9, <1>10, <1>12, <1>13, <1>14, <1>15, <1>16, <1>17, FollowerStep DEF Along

-----------------------------------------------------------------------------
(* The collectives.                                                        *)

LEMMA ScatterAgree ==
    ASSUME IInv, TypeInv, AgreeInv, NEW u \in Ranks, FuseScatter(u)
    PROVE  AgreeInv'
<1> DEFINE c     == fuse[u].call
           n     == NumberOfBlocks(c.fileSize)
           parts == IF c.type = "WRITE" THEN Buffer(issued, n) ELSE Pointers(u, c.inode, n)
           part  == Contribution(u, c, ScatterPart(parts, u))
           e     == [call |-> c, parts |-> parts, gathered |-> [q \in {u} |-> part]]
<1>1. exchanges' = Append(exchanges, e)
  BY DEF FuseScatter
<1>2. DOMAIN e.gathered = {u}
  OBVIOUS
<1> HIDE DEF e
<1>3. /\ fuse[u].at = "scatter" /\ fuse' = [fuse EXCEPT ![u].at = "gather"]
      /\ pos' = [pos EXCEPT ![u] = @ + 1]
      /\ UNCHANGED <<recv, mounted, fromThread, crashed, blockList, user, net, tree, applied>>
  BY DEF FuseScatter, userVars
<1>4. AllMounted /\ u = user /\ Working(u) /\ Leads(u)
  BY <1>3, WhoCalls DEF Working
<1>5. Followed(u) /\ Lead(u) /\ crashed = FALSE /\ \A q \in Others(u) : Along(u, q)
  BY <1>4, Used
<1>6. PICK last \in Nat : last = Len(exchanges)
  BY SequencesThere DEF IInv
<1>7. /\ Len(exchanges') = last + 1 /\ exchanges'[last + 1] = e
      /\ \A k \in 1 .. last : exchanges'[k] = exchanges[k]
  BY <1>1, <1>6, AppendFacts DEF IInv, Shape
<1>8. pos[u] = last /\ pos'[u] = last + 1 /\ \A q \in Others(u) : pos'[q] = pos[q]
  BY <1>3, <1>4, <1>6 DEF Leads, Others, IInv, Shape
<1>9. /\ fuse'[u].at = "gather" /\ fuse'[u].call = fuse[u].call
      /\ \A q \in Others(u) : fuse'[q] = fuse[q]
  <2>1. PICK call : call = fuse[u].call /\ fuse[u] = [at |-> "scatter", call |-> call]
    BY <1>3, <1>4 DEF Leads
  <2>2. [fuse[u] EXCEPT !.at = "gather"] = [at |-> "gather", call |-> call]
    BY <2>1
  <2>3. fuse' = [fuse EXCEPT ![u] = [at |-> "gather", call |-> call]]
    BY <1>3, <2>2
  <2>4. fuse'[u] = [at |-> "gather", call |-> call]
    BY <2>3 DEF IInv, Shape
  <2>5. \A q \in Others(u) : fuse'[q] = fuse[q]
    BY <2>3 DEF Others, IInv, Shape
  <2> QED BY <2>1, <2>4, <2>5
<1>10. ASSUME NEW q \in Others(u) PROVE Along(u, q)'
  <2>1. /\ Along(u, q) /\ q \in Ranks /\ q # u /\ pos'[q] = pos[q] /\ fuse'[q] = fuse[q]
        /\ pos[q] = last
    <3>1. Contributes(u, q)
      BY <1>4 DEF Working, Follows
    <3>2. pos[q] = last
      BY <1>3, <1>6, <3>1 DEF Contributes
    <3> QED BY <1>5, <1>8, <1>9, <3>2 DEF Others
  <2>2. Ordered(u, q)'
    <3>1. Told(u)' = Told(u)
      BY <1>3, <1>9 DEF Told
    <3> QED BY <1>3, <2>1, <3>1, OrderedStill DEF Along
  <2>3. FlagsOf(q)' /\ Made(q)'
    BY <1>3, <2>1, FlagsStill, MadeStill DEF Along
  <2>4. Sizes(u, q)'
    <3>1. Awaited(u, q) = TRUE /\ Awaited(u, q)' = TRUE
      BY <1>3, <1>7, <1>9, <2>1 DEF Awaited
    <3> QED BY <1>3, <1>9, <2>1, <3>1, SizesStill DEF Along
  <2>5. Lists(u, q)'
    <3>1. ~(Gathered(u)')
      BY <1>2, <1>7, <1>8, <2>1 DEF Gathered
    <3>2. Upcoming(u, fuse[u])' = Upcoming(u, fuse[u])
      BY <1>3, <3>1 DEF Upcoming
    <3>3. recv[q].at = "gather" => exchanges'[pos[q]] = exchanges[pos[q]]
      BY <1>6, <1>7 DEF TypeInv, InNext, Others
    <3>4. recv[q].at = "gather" => Upcoming(q, recv[q])' = Upcoming(q, recv[q]) /\ Gathered(q)' = Gathered(q)
      BY <1>3, <2>1, <3>3, UpcomingStill DEF SameExchange, Upcoming, Gathered, GatheredParts
    <3>5. recv[q].at # "gather" => Upcoming(q, recv[q])' = Upcoming(q, recv[q])
      BY <1>3 DEF Upcoming
    <3>6. pos'[q] # Len(exchanges')
      BY <1>7, <2>1
    <3> QED BY <1>3, <2>1, <3>2, <3>4, <3>5, <3>6 DEF Along, Lists
  <2> QED BY <2>2, <2>3, <2>4, <2>5 DEF Along
<1>11. Lead(u)'
  BY <1>3, <1>5, <1>9 DEF Lead, InCall
<1>12. Followed(u)' /\ AllMounted' /\ crashed' = FALSE
  BY <1>3, <1>4, <1>5, FollowedSame DEF AllMounted
<1> QED BY <1>3, <1>4, <1>10, <1>11, <1>12, AheadStep

(* Who has its part of an exchange that all have given theirs to, has it   *)
(* from all.                                                               *)
LEMMA AllGave ==
    ASSUME IInv, NEW u \in Ranks, Working(u), fuse[u].at = "gather", Gathered(u), NEW q \in Ranks
    PROVE  pos[q] = Len(exchanges) /\ Gathered(q)
<1>1. PICK last \in Nat : last = Len(exchanges)
  BY SequencesThere DEF IInv
<1>2. pos[u] = last /\ last > 0
  BY <1>1 DEF Working, Leads
<1>3. DOMAIN exchanges[last].gathered = {r \in Ranks : pos[r] >= last}
  BY <1>1, <1>2 DEF IInv, PartsOfThose
<1>4. pos[q] >= last /\ pos[q] \in Nat
  BY <1>2, <1>3 DEF Gathered, IInv, Shape
<1>5. pos[q] = last
  <2>1. CASE q = u
    BY <1>2, <2>1
  <2>2. CASE q # u
    <3>1. Contributes(u, q)
      BY <2>2 DEF Working, Follows, Others
    <3> QED BY <1>1, <1>4, <3>1 DEF Contributes
  <2> QED BY <2>1, <2>2
<1> QED BY <1>1, <1>2, <1>5 DEF Gathered

LEMMA GatherAgree ==
    ASSUME IInv, TypeInv, AgreeInv, NEW u \in Ranks, FuseGather(u)
    PROVE  AgreeInv'
<1>1. /\ fuse[u].at = "gather" /\ Gathered(u) /\ fuse' = [fuse EXCEPT ![u] = At("loop")]
      /\ UNCHANGED <<recv, mounted, fromThread, crashed, exchanges, pos, user, net, tree, applied>>
  BY DEF FuseGather, userVars
<1>2. AllMounted /\ u = user /\ Working(u) /\ Leads(u)
  BY <1>1, WhoCalls DEF Working
<1>3. Followed(u) /\ Lead(u) /\ crashed = FALSE /\ \A q \in Others(u) : Along(u, q)
  BY <1>2, Used
<1>4. fuse'[u].at = "loop" /\ \A q \in Others(u) : fuse'[q] = fuse[q]
  BY <1>1 DEF At, Others, IInv, Shape
<1>5. /\ blockList'[u] = Upcoming(u, fuse[u]) /\ \A q \in Others(u) : blockList'[q] = blockList[q]
  <2>1. CASE fuse[u].call.type = "WRITE"
    <3>1. blockList' = [blockList EXCEPT ![u][fuse[u].call.inode] = Listed(@, GatheredParts(u))]
      BY <2>1 DEF FuseGather
    <3> QED BY <1>1, <2>1, <3>1 DEF Upcoming, Others, TypeInv, StoreTyped
  <2>2. CASE fuse[u].call.type # "WRITE"
    <3>1. blockList' = blockList
      BY <2>2 DEF FuseGather
    <3> QED BY <2>2, <3>1 DEF Upcoming
  <2> QED BY <2>1, <2>2
<1>6. ASSUME NEW q \in Others(u) PROVE Along(u, q)'
  <2>1. /\ Along(u, q) /\ q \in Ranks /\ q # u /\ fuse'[q] = fuse[q] /\ blockList'[q] = blockList[q]
        /\ pos[q] = Len(exchanges) /\ Gathered(q)
    BY <1>1, <1>2, <1>3, <1>4, <1>5, AllGave DEF Others
  <2>2. Ordered(u, q)'
    <3>1. Told(u)' = Told(u)
      BY <1>1, <1>4 DEF Told
    <3> QED BY <1>1, <2>1, <3>1, OrderedStill DEF Along
  <2>3. FlagsOf(q)' /\ Made(q)'
    BY <1>1, <2>1, FlagsStill, MadeStill DEF Along
  <2>4. Sizes(u, q)'
    <3>1. Awaited(u, q) = FALSE /\ Awaited(u, q)' = FALSE
      BY <1>1, <1>4, <2>1 DEF Awaited
    <3> QED BY <1>1, <2>1, <3>1, SizesStill DEF Along
  <2>5. Lists(u, q)'
    <3>1. Upcoming(u, fuse[u])' = blockList'[u]
      BY <1>4 DEF Upcoming
    <3>2. Upcoming(q, recv[q])' = Upcoming(q, recv[q]) /\ Gathered(q)' = Gathered(q)
      BY <1>1, <2>1 DEF Upcoming, Gathered, GatheredParts
    <3> QED BY <1>4, <1>5, <2>1, <3>1, <3>2 DEF Along, Lists
  <2> QED BY <2>2, <2>3, <2>4, <2>5 DEF Along
<1>7. Lead(u)'
  BY <1>1, <1>3, <1>4 DEF Lead, InCall
<1>8. Followed(u)' /\ AllMounted' /\ crashed' = FALSE
  BY <1>1, <1>2, <1>3, FollowedSame DEF AllMounted
<1> QED BY <1>1, <1>2, <1>6, <1>7, <1>8, AheadStep

LEMMA RecvGatherAgree ==
    ASSUME IInv, TypeInv, AgreeInv, NEW p \in Ranks, RecvGather(p)
    PROVE  AgreeInv'
<1>1. PICK c : c = recv[p].call
  OBVIOUS
<1>2. /\ recv[p].at = "gather" /\ Gathered(p)
      /\ recv' = [recv EXCEPT ![p] = At("request")]
      /\ blockList' = [blockList EXCEPT ![p][c.inode] = Listed(@, GatheredParts(p))]
      /\ UNCHANGED <<fuse, mounted, fromThread, exchanges, pos, user, net, applied>>
  BY <1>1 DEF RecvGather, userVars
<1>3. PICK u \in Ranks : u = user /\ AllMounted /\ p \in Others(u) /\ Follows(u, p)
  BY <1>2, BusyFollows
<1>4. Followed(u) /\ Along(u, p) /\ crashed = FALSE /\ Working(u) /\ Leads(u)
  BY <1>3, Used DEF Working
<1>5. c \in Calls /\ c.type = "WRITE" /\ c.inode \in Files /\ c.fileSize \in Nat
  BY <1>1, RecvListed DEF Calls
<1>6. c.inode \in DOMAIN tree[p]
  BY <1>1, <1>2, <1>4 DEF Along, Made
<1>7. PICK blocks \in Nat : blocks = Len(blockList'[p][c.inode])
  <2>1. blockList' \in [Ranks -> [Files -> Seq(Addresses)]]
    BY RecvListed
  <2>2. Len(blockList'[p][c.inode]) \in Nat
    BY <1>5, <2>1
  <2> QED BY <2>2
<1>8. SizeSet(p, c.inode, c.fileSize, blocks) /\ crashed' = FALSE
  <2>1. SizeSet(p, c.inode, c.fileSize, blocks)
    BY <1>1, <1>6, <1>7 DEF RecvGather, SizeSet
  <2>2. crashed' = FALSE
    BY <1>1, <1>4, <1>6 DEF RecvGather
  <2> QED BY <2>1, <2>2
<1>9. /\ \A q \in Ranks \ {p} : tree'[q] = tree[q]
      /\ Bare(tree'[p]) = Bare(tree[p])
      /\ \A other \in DOMAIN tree[p] :
            tree'[p][other].st_size = IF c.inode = other THEN c.fileSize ELSE tree[p][other].st_size
  BY <1>5, <1>6, <1>8, SizeSetBare DEF TypeInv
<1>10. DOMAIN tree'[p] = DOMAIN tree[p]
  BY <1>9, BareDomain
<1>11. u \in Ranks \ {p}
  BY <1>3 DEF Others
<1>12. Followed(u)'
  <2>1. \A q \in Ranks : Bare(tree'[q]) = Bare(tree[q])
    BY <1>9
  <2>2. Named(tree'[u])
    BY <1>4, <1>9, <1>11 DEF Followed
  <2> QED BY <1>2, <1>4, <2>1, <2>2, FollowedStill
<1>13. /\ recv'[p].at = "request" /\ blockList'[p] = Upcoming(p, recv[p])
       /\ \A q \in Ranks \ {p} : recv'[q] = recv[q] /\ blockList'[q] = blockList[q]
  <2>1. recv'[p].at = "request" /\ \A q \in Ranks \ {p} : recv'[q] = recv[q]
    BY <1>2 DEF At, IInv, Shape
  <2>2. blockList'[p] = Upcoming(p, recv[p]) /\ \A q \in Ranks \ {p} : blockList'[q] = blockList[q]
    BY <1>1, <1>2, <1>5 DEF Upcoming, TypeInv, StoreTyped
  <2> QED BY <2>1, <2>2
<1>14. AgreeOnlyAt(u, p)
  BY <1>2, <1>9, <1>13 DEF AgreeOnlyAt, SameExchange
<1>15. Ordered(u, p)'
  <2>1. TakenUp(p)' = TakenUp(p) /\ Told(u)' = Told(u)
    BY <1>2, <1>13 DEF TakenUp, Told
  <2> QED BY <1>2, <1>4, <1>13, <2>1 DEF Along, Ordered
<1>16. FlagsOf(p)' /\ Made(p)'
  BY <1>2, <1>4, <1>13 DEF Along, FlagsOf, Receiving, Repeating, Made
<1>17. Lists(u, p)'
  <2>1. Upcoming(u, fuse[u])' = Upcoming(u, fuse[u]) /\ Gathered(u)' = Gathered(u)
    BY <1>2, <1>11, <1>13 DEF Upcoming, Gathered, GatheredParts
  <2>2. Upcoming(p, recv[p])' = blockList'[p]
    BY <1>13 DEF Upcoming
  <2>3. pos[p] = Len(exchanges) => Gathered(u)
    BY <1>2, <1>4 DEF Leads, Gathered
  <2> QED BY <1>2, <1>4, <1>13, <2>1, <2>2, <2>3 DEF Along, Lists
<1>18. Sizes(u, p)'
  <2>1. SUFFICES ASSUME NEW ino \in DOMAIN tree[u] PROVE tree[u][ino].st_size = SizeAhead(u, p, ino)'
    BY <1>9, <1>11 DEF Sizes
  <2>2. tree[u][ino].st_size = SizeAhead(u, p, ino)
    BY <1>4 DEF Along, Sizes
  <2>3. Awaited(u, p)' = Awaited(u, p)
    BY <1>2 DEF Awaited
  <2>4. CASE ino = c.inode
    BY <1>1, <1>2, <1>6, <1>9, <1>10, <1>13, <2>2, <2>3, <2>4 DEF SizeAhead
  <2>5. CASE ino # c.inode
    BY <1>1, <1>2, <1>9, <1>10, <1>13, <2>2, <2>3, <2>5 DEF SizeAhead
  <2> QED BY <2>4, <2>5
<1> QED BY <1>3, <1>8, <1>12, <1>13, <1>14, <1>15, <1>16, <1>17, <1>18, FollowerStep DEF Along

LEMMA RecvScatterAgree ==
    ASSUME IInv, TypeInv, AgreeInv, NEW p \in Ranks, RecvScatter(p)
    PROVE  AgreeInv'
<1>1. PICK last : last = pos[p] + 1
  OBVIOUS
<1>2. PICK e : e = exchanges[last]
  OBVIOUS
<1>3. PICK part : /\ last \in 1 .. Len(exchanges) /\ e.call = recv[p].call
                  /\ part \in Seq(ContributedType(e.call)) /\ Len(part) = EffectiveBlocks(Len(e.parts), p)
                  /\ Replaced(exchanges, last, WithPart(e, p, part), exchanges')
  BY <1>1, <1>2, JoinedExchange
<1>4. /\ recv[p].at = "scatter" /\ pos' = [pos EXCEPT ![p] = @ + 1]
      /\ recv' = [recv EXCEPT ![p] = IF e.call.type = "WRITE" THEN [at |-> "gather", call |-> e.call]
                                     ELSE At("request")]
      /\ UNCHANGED <<fuse, mounted, fromThread, crashed, blockList, user, net, tree, applied>>
  BY <1>3 DEF RecvScatter, userVars
<1>5. PICK u \in Ranks : u = user /\ AllMounted /\ p \in Others(u) /\ Follows(u, p)
  BY <1>4, BusyFollows
<1>6. /\ Followed(u) /\ Lead(u) /\ crashed = FALSE /\ \A q \in Others(u) : Along(u, q)
      /\ Working(u) /\ Leads(u) /\ Along(u, p)
  BY <1>5, Used DEF Working
<1>7. /\ Len(exchanges) \in Nat /\ pos[p] \in Nat
      /\ fuse[u].at = "gather" /\ pos[u] = Len(exchanges) /\ last = Len(exchanges) /\ pos[p] = last - 1
      /\ exchanges[last].call = fuse[u].call /\ recv[p].call = fuse[u].call
  <2>1. Len(exchanges) \in Nat /\ pos[p] \in Nat
    BY SequencesThere DEF IInv, Shape
  <2>2. pos[p] # Len(exchanges)
    BY <1>1, <1>3, <2>1
  <2>3. fuse[u].at = "gather" /\ pos[p] = Len(exchanges) - 1
    BY <1>5, <2>2 DEF Follows, Contributes
  <2>4. last = Len(exchanges)
    BY <1>1, <2>1, <2>3
  <2> QED BY <1>1, <1>2, <1>3, <1>6, <2>1, <2>3, <2>4 DEF Leads
<1>8. /\ Len(exchanges') = Len(exchanges) /\ exchanges'[last] = WithPart(e, p, part)
      /\ \A k \in 1 .. Len(exchanges) : k # last => exchanges'[k] = exchanges[k]
  BY <1>3, ExceptFacts DEF IInv, Shape
<1>9. exchanges'[last].call = fuse[u].call
  <2>1. WithPart(e, p, part).call = e.call
    BY <1>2, <1>3, WithPartType DEF TypeInv, StoreTyped, IInv, Shape
  <2> QED BY <1>3, <1>7, <1>8, <2>1
<1>10. /\ pos'[p] = last /\ \A q \in Ranks \ {p} : pos'[q] = pos[q] /\ recv'[q] = recv[q]
       /\ IF fuse[u].call.type = "WRITE" THEN recv'[p].at = "gather" /\ recv'[p].call = fuse[u].call
          ELSE recv'[p].at = "request"
  <2>1. pos'[p] = last /\ \A q \in Ranks \ {p} : pos'[q] = pos[q] /\ recv'[q] = recv[q]
    BY <1>1, <1>4 DEF IInv, Shape
  <2>2. recv'[p] = IF fuse[u].call.type = "WRITE" THEN [at |-> "gather", call |-> fuse[u].call] ELSE At("request")
    BY <1>3, <1>4, <1>7 DEF IInv, Shape
  <2> QED BY <2>1, <2>2 DEF At
<1>11. u # p /\ pos'[u] = last /\ pos[u] = last
  BY <1>5, <1>7, <1>10 DEF Others
<1>12. ~Gathered(u)
  <2>1. DOMAIN exchanges[last].gathered = {q \in Ranks : pos[q] >= last}
    BY <1>3 DEF IInv, PartsOfThose
  <2>2. ~(pos[p] >= last)
    BY <1>7
  <2> QED BY <1>11, <2>1, <2>2 DEF Gathered
<1>13. DOMAIN exchanges'[last].gathered = (DOMAIN exchanges[last].gathered) \cup {p}
  <2>1. IsExchange(e) /\ ExchangeTyped(e)
    BY <1>2, <1>3 DEF TypeInv, StoreTyped, IInv, Shape
  <2>2. DOMAIN WithPart(e, p, part).gathered = DOMAIN e.gathered \cup {p}
    BY ONLY <1>3, <2>1, WithPartType, p \in Ranks
  <2> QED BY <1>2, <1>8, <2>2
<1>14. ASSUME NEW q \in Ranks, q # p, pos[q] # last PROVE ~(Gathered(u)')
  <2>1. pos[q] \in Nat /\ ~(pos[q] >= last)
    <3>1. CASE q = u
      BY <1>11, <1>14, <3>1
    <3>2. CASE q # u
      <4>1. Contributes(u, q)
        BY <1>6, <3>2 DEF Working, Follows, Others
      <4>2. pos[q] = last - 1
        BY <1>7, <1>14, <4>1 DEF Contributes
      <4> QED BY <1>7, <4>2 DEF IInv, Shape
    <3> QED BY <3>1, <3>2
  <2>2. DOMAIN exchanges[last].gathered = {r \in Ranks : pos[r] >= last}
    BY <1>3 DEF IInv, PartsOfThose
  <2>3. q \notin DOMAIN exchanges'[last].gathered
    BY <1>13, <1>14, <2>1, <2>2
  <2> QED BY <1>11, <2>3 DEF Gathered
(* The lists of u and of those that are in the exchange with it.           *)
<1> DEFINE next(q) == IF fuse[u].call.type = "WRITE" /\ Gathered(u)'
                      THEN [blockList[q] EXCEPT ![fuse[u].call.inode] = Listed(@, GatheredParts(u)')]
                      ELSE blockList[q]
<1>15. Upcoming(u, fuse[u]) = blockList[u] /\ Upcoming(u, fuse[u])' = next(u)
  BY <1>4, <1>7, <1>12 DEF Upcoming
<1>16. ASSUME NEW q \in Ranks, recv'[q].at = "gather", recv'[q].call = fuse[u].call, pos'[q] = last,
              fuse[u].call.type = "WRITE"
       PROVE  Upcoming(q, recv[q])' = next(q)
  <2>1. Gathered(q)' = Gathered(u)' /\ GatheredParts(q)' = GatheredParts(u)'
    BY <1>11, <1>16 DEF Gathered, GatheredParts
  <2> QED BY <1>4, <1>16, <2>1 DEF Upcoming
<1> HIDE DEF next
<1>17. ASSUME NEW q \in Others(u), q # p PROVE Lists(u, q)'
  <2>1. /\ q \in Ranks /\ q # u /\ Lists(u, q) /\ Contributes(u, q)
        /\ recv'[q] = recv[q] /\ pos'[q] = pos[q] /\ blockList'[q] = blockList[q]
    BY <1>4, <1>6, <1>10, <1>17 DEF Along, Working, Follows, Others
  <2>2. CASE pos[q] = last
    <3>1. CASE recv[q].at = "gather"
      <4>1. recv[q].call = fuse[u].call /\ fuse[u].call.type = "WRITE"
        BY <1>7, <2>1, <2>2, <3>1 DEF TypeInv, InNext
      <4>2. ~Gathered(q)
        BY <1>11, <1>12, <2>2 DEF Gathered
      <4>3. Upcoming(q, recv[q]) = blockList[q]
        BY <4>2 DEF Upcoming
      <4>4. blockList[q] = blockList[u]
        BY <1>15, <2>1, <4>3 DEF Lists
      <4>5. Upcoming(q, recv[q])' = next(q)
        BY <1>16, <2>1, <2>2, <3>1, <4>1
      <4>6. next(q) = next(u)
        BY <4>4 DEF next
      <4>7. Upcoming(u, fuse[u])' = Upcoming(q, recv[q])'
        BY <1>15, <4>5, <4>6
      <4> QED BY <1>4, <1>7, <1>8, <2>1, <2>2, <3>1, <4>7 DEF Lists
    <3>2. CASE recv[q].at # "gather"
      <4>1. fuse[u].call.type # "WRITE"
        BY <1>7, <1>12, <2>1, <2>2, <3>2 DEF Lists
      <4>2. Upcoming(q, recv[q]) = blockList[q] /\ Upcoming(q, recv[q])' = blockList[q]
        BY <2>1, <3>2 DEF Upcoming
      <4>3. next(u) = blockList[u]
        BY <4>1 DEF next
      <4>4. Upcoming(u, fuse[u])' = Upcoming(q, recv[q])'
        BY <1>15, <2>1, <4>2, <4>3 DEF Lists
      <4> QED BY <1>4, <2>1, <3>2, <4>1, <4>4 DEF Lists
    <3> QED BY <3>1, <3>2
  <2>3. CASE pos[q] # last
    <3>1. next(u) = blockList[u]
      BY <1>14, <1>17, <2>1, <2>3 DEF next
    <3>2. recv[q].at = "gather" => exchanges'[pos[q]] = exchanges[pos[q]]
      BY <1>8, <2>1, <2>3 DEF TypeInv, InNext
    <3>3. recv[q].at = "gather" => Upcoming(q, recv[q])' = Upcoming(q, recv[q]) /\ Gathered(q)' = Gathered(q)
      BY <2>1, <3>2 DEF Upcoming, Gathered, GatheredParts
    <3>4. recv[q].at # "gather" => Upcoming(q, recv[q])' = Upcoming(q, recv[q])
      BY <2>1 DEF Upcoming
    <3>5. Upcoming(u, fuse[u])' = Upcoming(q, recv[q])'
      BY <1>15, <2>1, <3>1, <3>3, <3>4 DEF Lists
    <3>6. pos[q] # Len(exchanges)
      BY <1>7, <2>3
    <3> QED BY <1>4, <1>8, <2>1, <3>3, <3>5, <3>6 DEF Lists
  <2> QED BY <2>2, <2>3
<1>18. Lists(u, p)'
  <2>1. blockList[p] = blockList[u] /\ blockList'[p] = blockList[p]
    BY <1>4, <1>6, <1>15 DEF Along, Lists, Upcoming
  <2>2. Upcoming(u, fuse[u])' = Upcoming(p, recv[p])'
    <3>1. CASE fuse[u].call.type = "WRITE"
      <4>1. Upcoming(p, recv[p])' = next(p)
        BY <1>5, <1>10, <1>16, <3>1 DEF Others
      <4>2. next(p) = next(u)
        BY <2>1 DEF next
      <4> QED BY <1>15, <4>1, <4>2
    <3>2. CASE fuse[u].call.type # "WRITE"
      <4>1. Upcoming(p, recv[p])' = blockList[p]
        BY <1>10, <2>1, <3>2 DEF Upcoming
      <4>2. next(u) = blockList[u]
        BY <3>2 DEF next
      <4> QED BY <1>15, <2>1, <4>1, <4>2
    <3> QED BY <3>1, <3>2
  <2> QED BY <1>4, <1>7, <1>8, <1>10, <2>2 DEF Lists
<1>19. Made(p)'
  <2>1. net[u][p] = <<>> /\ Numbered(net[u][p], applied[u], TakenUp(p), Told(u))
    BY <1>4, <1>6 DEF Along, Ordered
  <2>2. TakenUp(p) = Told(u)
    BY <2>1, NumberedEmpty
  <2>3. Len(applied[p]) = Len(applied[u])
    BY <1>4, <1>7, <2>2 DEF TakenUp, Told
  <2>4. Bare(tree[p]) = Bare(tree[u])
    BY <1>6, <2>3, CaughtUp DEF TypeInv
  <2>5. DOMAIN tree[p] = DOMAIN tree[u]
    BY <2>4, BareDomain
  <2>6. fuse[u].call.inode \in DOMAIN tree[p]
    BY <1>6, <1>7, <2>5 DEF Lead, InCall
  <2> QED BY <1>4, <1>10, <2>6 DEF Made
<1>20. Sizes(u, p)'
  <2>1. SUFFICES ASSUME NEW ino \in DOMAIN tree[u] PROVE tree[u][ino].st_size = SizeAhead(u, p, ino)'
    BY <1>4 DEF Sizes
  <2>2. tree[u][ino].st_size = SizeAhead(u, p, ino)
    BY <1>6 DEF Along, Sizes
  <2>3. Awaited(u, p) = TRUE /\ Awaited(u, p)' = FALSE
    <3>1. pos[p] # Len(exchanges) /\ pos'[p] = Len(exchanges')
      BY <1>7, <1>8, <1>10
    <3> QED BY <1>4, <1>7, <3>1 DEF Awaited
  <2> QED BY <1>4, <1>10, <2>2, <2>3 DEF SizeAhead
<1>21. ASSUME NEW q \in Others(u) PROVE Along(u, q)'
  <2>1. /\ Along(u, q) /\ q \in Ranks
    BY <1>6 DEF Others
  <2>2. CASE q = p
    <3>1. Ordered(u, p)'
      <4>1. TakenUp(p)' = TakenUp(p) /\ Told(u)' = Told(u)
        BY <1>4, <1>10 DEF TakenUp, Told
      <4> QED BY <1>4, <1>6, <1>10, <4>1 DEF Along, Ordered
    <3>2. FlagsOf(p)'
      BY <1>4, <1>6 DEF Along, FlagsOf, Receiving, Repeating
    <3> QED BY <1>18, <1>19, <1>20, <2>2, <3>1, <3>2 DEF Along
  <2>3. CASE q # p
    <3>1. recv'[q] = recv[q] /\ pos'[q] = pos[q]
      BY <1>10, <2>1, <2>3
    <3>2. Ordered(u, q)'
      <4>1. Told(u)' = Told(u)
        BY <1>4 DEF Told
      <4> QED BY <1>4, <2>1, <3>1, <4>1, OrderedStill DEF Along
    <3>3. FlagsOf(q)' /\ Made(q)'
      BY <1>4, <2>1, <3>1, FlagsStill, MadeStill DEF Along
    <3>4. Sizes(u, q)'
      <4>1. Awaited(u, q)' = Awaited(u, q)
        BY <1>4, <1>8, <3>1 DEF Awaited
      <4> QED BY <1>4, <2>1, <3>1, <4>1, SizesStill DEF Along
    <3> QED BY <1>17, <2>3, <3>2, <3>3, <3>4 DEF Along
  <2> QED BY <2>2, <2>3
<1>22. Lead(u)' /\ Followed(u)' /\ crashed' = FALSE /\ user' = u
  BY <1>4, <1>5, <1>6, FollowedSame DEF Lead, InCall
<1>23. AllMounted'
  <2>1. recv'[p].at # "terminated"
    BY <1>10
  <2> QED BY <1>4, <1>5, <1>10, <2>1 DEF AllMounted
<1> QED BY <1>21, <1>22, <1>23, AheadStep

-----------------------------------------------------------------------------
(* Agreement.                                                              *)

LEMMA InitAgree == ASSUME Init PROVE AgreeInv
<1>1. 0 \in Ranks /\ user = 0 /\ crashed = FALSE
  BY StripingAssumption DEF Init, Ranks
<1>2. \A p \in Ranks : /\ applied[p] = <<>> /\ tree[p] = InitialTable
                       /\ blockList[p] = [ino \in Files |-> <<>>]
                       /\ \A type \in Announced : fromThread[p][type] = FALSE
  BY DEF Init
<1>3. ~AllMounted
  BY <1>1 DEF Init, AllMounted
<1>4. Agreed
  BY <1>2 DEF Agreed, SameSizes
<1>5. Named(InitialTable)
  <2>1. DOMAIN InitialTable = {Special, Root}
    BY DEF InitialTable
  <2>2. ASSUME NEW dir \in {Special, Root}, NEW name \in Names
        PROVE  InitialTable[dir].m_children[name] = NoChild
    BY <2>2 DEF InitialTable, NewINode
  <2>3. InitialTable[Root].dir_name = <<>>
    BY DEF InitialTable, NewINode
  <2> QED BY <2>1, <2>2, <2>3 DEF Named, ChildNamed, NoChild
<1>6. Followed(0)
  <2>1. PICK trees : trees = [k \in 0 .. 0 |-> Bare(InitialTable)]
    OBVIOUS
  <2>2. Lined(trees, applied[0])
    BY <1>1, <1>2 DEF Lined
  <2>3. Where(trees)
    BY <1>2, <2>1 DEF Where
  <2>4. \A p \in Ranks : Behind(p, 0)
    BY <1>1, <1>2 DEF Behind
  <2> QED BY <1>1, <1>2, <1>5, <2>2, <2>3, <2>4 DEF Followed
<1> QED BY <1>1, <1>3, <1>4, <1>6 DEF AgreeInv

LEMMA NextAgree ==
    ASSUME IInv, TypeInv, AgreeInv, Settled, Repeatable, [Next]_vars
    PROVE  AgreeInv'
<1>1. CASE UNCHANGED vars \/ Terminating
  BY <1>1, StutterAgree DEF Terminating
<1>2. CASE \E p \in Ranks : PeerNext(p)
  <2>1. PICK p \in Ranks : UserNext(p) \/ StartNext(p) \/ FuseNext(p) \/ RecvNext(p)
    BY <1>2 DEF PeerNext
  <2>2. CASE UserNext(p)
    BY <2>2, ChangeAgree, FlushAgree, OpenAgree, EndsAgree DEF UserNext
  <2>3. CASE StartNext(p)
    <3>1. ASSUME Mount(p) PROVE AgreeInv'
      BY <3>1, MountKeeps, MountAgree
    <3> QED BY <2>3, <3>1, EndsAgree DEF StartNext
  <2>4. CASE FuseNext(p)
    BY <2>4, AnnounceAgree, ResetAgree, ScatterAgree, GatherAgree, EndsAgree DEF FuseNext
  <2>5. CASE RecvNext(p)
    <3>1. ASSUME NEW q \in Ranks, RecvHeader(q, p) \/ RecvBody(q, p) \/ RecvTerminate(q, p)
          PROVE  AgreeInv'
      BY <3>1, RecvHeaderAgree, RecvBodyAgree, EndsAgree
    <3>2. ASSUME Replay(p) \/ ReplayClose(p) \/ RecvScatter(p) \/ RecvGather(p)
          PROVE  AgreeInv'
      BY <3>2, ReplayAgree, ReplayCloseAgree, RecvScatterAgree, RecvGatherAgree
    <3> QED BY <2>5, <3>1, <3>2 DEF RecvNext
  <2> QED BY <2>1, <2>2, <2>3, <2>4, <2>5
<1> QED BY <1>1, <1>2 DEF Next

(***************************************************************************)
(* The invariant behind the agreement of the peers: every one of them is   *)
(* at some place of the log of the peer in use, the operations it has yet  *)
(* to repeat are in its messages in order, and its flags, block lists and  *)
(* sizes are those that DistributedCode::start will leave when they are    *)
(* through.                                                                *)
(***************************************************************************)
THEOREM PeersInAgreement == ASSUME Settled, Repeatable PROVE Spec => [](IInv /\ TypeInv /\ AgreeInv)
<1>1. Init => IInv /\ TypeInv /\ AgreeInv
  BY InitEstablishes, InitTyped, InitAgree
<1>2. IInv /\ TypeInv /\ AgreeInv /\ [Next]_vars => (IInv /\ TypeInv /\ AgreeInv)'
  BY NextKeeps, NextTyped, NextAgree
<1> QED BY <1>1, <1>2, PTL DEF Spec

(***************************************************************************)
(* When all have caught up no ...FromThread flag is left up: what a user   *)
(* does next is announced by the handler and not taken for an operation    *)
(* that the receiving thread repeats.                                      *)
(***************************************************************************)
THEOREM FlagsAreDown == ASSUME Settled, Repeatable PROVE Spec => []FlagsDown
<1>1. IInv /\ TypeInv /\ AgreeInv => FlagsDown
  BY Settle DEF FlagsDown, Agreed
<1> QED BY <1>1, PeersInAgreement, PTL

(* Inodes that differ in nothing but their sizes. *)
LEMMA SameButSizes ==
    ASSUME NEW numbers, NEW r \in INodeRecords(numbers), NEW others, NEW s \in INodeRecords(others),
           WithSize(r, 0, 0) = WithSize(s, 0, 0)
    PROVE  /\ r.type = s.type /\ r.st_nlink = s.st_nlink
           /\ r.m_children = s.m_children /\ r.dir_name = s.dir_name
<1>1. PICK w : w = WithSize(r, 0, 0) /\ w = WithSize(s, 0, 0)
  OBVIOUS
<1>2. /\ w.type = r.type /\ w.st_nlink = r.st_nlink
      /\ w.m_children = r.m_children /\ w.dir_name = r.dir_name
  BY <1>1, SizeFields
<1>3. /\ w.type = s.type /\ w.st_nlink = s.st_nlink
      /\ w.m_children = s.m_children /\ w.dir_name = s.dir_name
  BY <1>1, SizeFields
<1> QED BY <1>2, <1>3

(* Tables that differ in nothing but st_blocks. *)
LEMMA ShownEqual ==
    ASSUME TypeInv, NEW p \in Ranks, NEW q \in Ranks, Bare(tree[p]) = Bare(tree[q]), SameSizes(p, q)
    PROVE  Shown(p) = Shown(q)
<1>1. PICK t : t = tree[p]
  OBVIOUS
<1>2. PICK s : s = tree[q]
  OBVIOUS
<1>3. PICK n \in 2 .. MaxINodes : Table(t, n) /\ n \in Nat
  BY <1>1, TreeThere DEF TypeInv
<1>4. PICK m \in 2 .. MaxINodes : Table(s, m) /\ m \in Nat
  BY <1>2, TreeThere DEF TypeInv
<1>5. DOMAIN t = DOMAIN s /\ DOMAIN t = 0 .. n - 1 /\ DOMAIN s = 0 .. m - 1
  BY <1>1, <1>2, <1>3, <1>4, BareDomain DEF Table
<1>6. ASSUME NEW ino \in DOMAIN t
      PROVE  [t[ino] EXCEPT !.st_blocks = 0] = [s[ino] EXCEPT !.st_blocks = 0]
  <2>1. t[ino] \in INodeRecords(0 .. n - 1) /\ s[ino] \in INodeRecords(0 .. m - 1)
    BY <1>3, <1>4, <1>5 DEF Table
  <2>2. t[ino].st_size = s[ino].st_size
    BY <1>1, <1>2 DEF SameSizes
  <2>3. WithSize(t[ino], 0, 0) = WithSize(s[ino], 0, 0)
    <3>1. Bare(t)[ino] = WithSize(t[ino], 0, 0) /\ Bare(s)[ino] = WithSize(s[ino], 0, 0)
      BY <1>5 DEF Bare
    <3> QED BY <1>1, <1>2, <3>1
  <2>4. /\ t[ino].type = s[ino].type /\ t[ino].st_nlink = s[ino].st_nlink
        /\ t[ino].m_children = s[ino].m_children /\ t[ino].dir_name = s[ino].dir_name
    BY <2>1, <2>3, SameButSizes
  <2> QED BY <2>1, <2>2, <2>4 DEF INodeRecords
<1> QED BY <1>1, <1>2, <1>5, <1>6 DEF Shown

(***************************************************************************)
(* When all have caught up every mount point shows one file system: the    *)
(* tree that createFile, deleteFile, createDir, deleteDir and              *)
(* renameHandler built at each peer on its own, the inode numbers that     *)
(* writeOp and readOp send, the sizes and the block lists are the same.    *)
(***************************************************************************)
THEOREM PeersDoAgree == ASSUME Settled, Repeatable PROVE Spec => []PeersAgree
<1>1. ASSUME IInv, TypeInv, AgreeInv, AllMounted, Quiet, NEW p \in Ranks, NEW q \in Ranks
      PROVE  Shown(p) = Shown(q) /\ blockList[p] = blockList[q]
  <2>1. Agreed /\ user \in Ranks /\ Followed(user)
    BY <1>1, Settle DEF AgreeInv, IInv, Shape
  <2>2. Bare(tree[p]) = Bare(tree[user]) /\ Bare(tree[q]) = Bare(tree[user])
    BY <1>1, <2>1, CaughtUp DEF Agreed, TypeInv
  <2> QED BY <1>1, <2>1, <2>2, ShownEqual DEF Agreed
<1>2. IInv /\ TypeInv /\ AgreeInv => PeersAgree
  BY <1>1 DEF PeersAgree
<1> QED BY <1>2, PeersInAgreement, PTL

(***************************************************************************)
(* The receiving thread never fcloses a file that it could not fopen, and  *)
(* never lists the blocks of an inode that its peer has not made: what a   *)
(* peer repeats it can carry out, in the same place of the log as the peer *)
(* that announced it.                                                      *)
(***************************************************************************)
THEOREM NobodyCrashes == ASSUME Settled, Repeatable PROVE Spec => [](crashed = FALSE)
<1>1. AgreeInv => crashed = FALSE
  BY DEF AgreeInv
<1> QED BY <1>1, PeersInAgreement, PTL

-----------------------------------------------------------------------------
(* One log.                                                                *)

(* Steps of the peers are steps of the log.                                *)
LEMMA BehindPrefix ==
    ASSUME HistoryTyped, NEW p \in Ranks, NEW u \in Ranks, Behind(p, u)
    PROVE  Log!IsPrefixOf(applied[p], applied[u])
<1>1. PICK s \in Seq(AnyOperation) : s = applied[p]
  BY DEF HistoryTyped
<1>2. PICK t \in Seq(AnyOperation) : t = applied[u]
  BY DEF HistoryTyped
<1>3. Len(s) <= Len(t) /\ \A i \in 1 .. Len(s) : s[i] = t[i]
  BY <1>1, <1>2 DEF Behind
<1>4. SubSeq(t, 1, Len(s)) = s
  BY <1>3
<1> QED BY <1>1, <1>2, <1>3, <1>4 DEF Log!IsPrefixOf

LEMMA ChangeIsPerformed ==
    ASSUME IInv, TypeInv, AgreeInv, Settled, NEW u \in Ranks, NEW o \in Operations, Change(u, o)
    PROVE  Log!Perform(u, o)
<1>1. MayUse(u, o.type) /\ applied' = [applied EXCEPT ![u] = Append(@, o)] /\ user' = u
  BY DEF Change
<1>2. Followed(u)
  BY <1>1, UserAlong
<1>3. \A q \in Ranks : Log!IsPrefixOf(applied[q], applied[u])
  BY <1>2, BehindPrefix DEF Followed, TypeInv
<1> QED BY <1>1, <1>3 DEF Log!Perform

LEMMA ReplayFollows ==
    ASSUME IInv, TypeInv, AgreeInv, NEW p \in Ranks, Replay(p)
    PROVE  Log!Follow(p)
<1>1. recv[p].at = "syscall" /\ (fuse[p] = At("loop") \/ ~mounted[p])
  BY DEF Replay
<1>2. PICK u \in Ranks : u = user /\ AllMounted /\ p \in Others(u) /\ Follows(u, p)
  BY <1>1, BusyFollows
<1>3. Followed(u) /\ Along(u, p) /\ crashed = FALSE
  BY <1>2, Used
<1>4. mounted[p] /\ fuse[p].at = "loop"
  BY <1>1, <1>2 DEF AllMounted, At
<1>5. PICK o : o = recv[p].op
  OBVIOUS
<1>6. Len(applied[p]) + 1 \in 1 .. Len(applied[u]) /\ o = applied[u][Len(applied[p]) + 1]
  BY <1>1, <1>3, <1>5 DEF Along, Ordered
<1>7. Runs(tree[p], o)
  BY <1>3, <1>6, NextRuns
<1>8. applied' = [applied EXCEPT ![p] = Append(@, o)]
  BY <1>4, <1>5, <1>7 DEF Replay, Runs
<1>9. Len(applied[p]) < Len(applied[u])
  BY <1>6 DEF TypeInv, HistoryTyped
<1> QED BY <1>6, <1>8, <1>9 DEF Log!Follow

LEMMA StepsFollow ==
    ASSUME IInv, TypeInv, AgreeInv, Settled, [Next]_vars
    PROVE  [Log!Next]_applied
<1>1. CASE UNCHANGED vars \/ Terminating
  BY <1>1 DEF Terminating, vars
<1>2. CASE \E p \in Ranks : PeerNext(p)
  <2>1. PICK p \in Ranks : UserNext(p) \/ StartNext(p) \/ FuseNext(p) \/ RecvNext(p)
    BY <1>2 DEF PeerNext
  <2>2. ASSUME NEW o \in Operations, Change(p, o) PROVE Log!Next
    BY <2>2, ChangeIsPerformed DEF Log!Next
  <2>3. ASSUME Replay(p) PROVE Log!Next
    BY <2>3, ReplayFollows DEF Log!Next
  <2>4. ASSUME NEW path \in Paths, NEW size \in FileSizes, FuseFlush(p, path, size) PROVE UNCHANGED applied
    BY <2>4 DEF FuseFlush
  <2>5. ASSUME NEW path \in Paths, FuseOpen(p, path) PROVE UNCHANGED applied
    BY <2>5 DEF FuseOpen
  <2>6. ASSUME NEW q \in Ranks, RecvHeader(q, p) \/ RecvBody(q, p) \/ RecvTerminate(q, p)
        PROVE  UNCHANGED applied
    BY <2>6 DEF RecvHeader, RecvBody, RecvTerminate
  <2>7. ASSUME StartNext(p) \/ Unmount(p) \/ LoopEnds(p) \/ SendTermination(p) PROVE UNCHANGED applied
    BY <2>7 DEF StartNext, Mount, StartFails, MountFails, Unmount, LoopEnds, SendTermination
  <2>8. ASSUME Announce(p) \/ ResetFlag(p) \/ FuseScatter(p) \/ FuseGather(p) PROVE UNCHANGED applied
    BY <2>8 DEF Announce, ResetFlag, FuseScatter, FuseGather
  <2>9. ASSUME ReplayClose(p) \/ RecvScatter(p) \/ RecvGather(p) PROVE UNCHANGED applied
    BY <2>9 DEF ReplayClose, RecvScatter, RecvGather
  <2> QED BY <2>1, <2>2, <2>3, <2>4, <2>5, <2>6, <2>7, <2>8, <2>9 DEF UserNext, FuseNext, RecvNext
<1> QED BY <1>1, <1>2 DEF Next

(***************************************************************************)
(* The safety part of ImplementsOperationLog, for any number of peers and  *)
(* of operations: a user's handler adds to a log that no other peer is     *)
(* ahead of, and Replay adds nothing but the next operation of that log.   *)
(* What is not proved is that every peer follows in the end.               *)
(***************************************************************************)
THEOREM PeersKeepOneLog ==
    ASSUME Settled, Repeatable PROVE Spec => Log!Init /\ [][Log!Next]_applied
<1>1. Init => Log!Init
  BY DEF Init, Log!Init
<1>2. IInv /\ TypeInv /\ AgreeInv /\ [Next]_vars => [Log!Next]_applied
  BY StepsFollow
<1> QED BY <1>1, <1>2, PeersInAgreement, PTL DEF Spec

Logs == applied \in [Ranks -> Seq(Operations)]

(* What two replicas have both carried out in some place is the same.      *)
SameSoFar == \A r, q \in Ranks :
                \A i \in 1 .. Len(applied[r]) : i <= Len(applied[q]) => applied[r][i] = applied[q][i]

(* Of any two replicas one has carried out all that the other has, in the  *)
(* same order, and maybe more.                                             *)
NoFork == \A r, q \in Ranks :
             Log!IsPrefixOf(applied[r], applied[q]) \/ Log!IsPrefixOf(applied[q], applied[r])

LogInv == Logs /\ SameSoFar

LEMMA InitLogged == Log!Init => LogInv
  BY DEF Log!Init, LogInv, Logs, SameSoFar

(* A user's operation comes after all others, whoever carried them out. *)
LEMMA PerformLogged ==
    ASSUME LogInv, NEW r \in Ranks, NEW o \in Operations, Log!Perform(r, o)
    PROVE  LogInv'
<1>1. /\ applied \in [Ranks -> Seq(Operations)]
      /\ applied' = [applied EXCEPT ![r] = Append(applied[r], o)]
      /\ \A q \in Ranks : Len(applied[q]) <= Len(applied[r])
  BY DEF LogInv, Logs, Log!Perform, Log!IsPrefixOf
<1>2. Logs'
  BY <1>1 DEF Logs
<1>3. ASSUME NEW q \in Ranks, NEW p \in Ranks,
             NEW i \in 1 .. Len(applied'[q]), i <= Len(applied'[p])
      PROVE  applied'[q][i] = applied'[p][i]
  <2>1. CASE q = p
    BY <2>1
  <2>2. CASE q # p /\ q # r /\ p # r
    BY <1>1, <1>3, <2>2 DEF LogInv, SameSoFar
  <2>3. CASE q # p /\ (q = r \/ p = r)
    <3>1. i \in 1 .. Len(applied[q]) /\ i <= Len(applied[p])
      BY <1>1, <1>3, <2>3
    <3>2. applied'[q][i] = applied[q][i] /\ applied'[p][i] = applied[p][i]
      BY <1>1, <3>1
    <3> QED BY <3>1, <3>2 DEF LogInv, SameSoFar
  <2> QED BY <2>1, <2>2, <2>3
<1> QED BY <1>2, <1>3 DEF LogInv, SameSoFar

(* What a replica takes over is what every replica ahead of it has there. *)
LEMMA FollowLogged ==
    ASSUME LogInv, NEW r \in Ranks, Log!Follow(r)
    PROVE  LogInv'
<1>1. PICK s \in Ranks :
         /\ Len(applied[r]) < Len(applied[s])
         /\ applied' = [applied EXCEPT ![r] = Append(applied[r], applied[s][Len(applied[r]) + 1])]
  BY DEF Log!Follow
<1>2. applied \in [Ranks -> Seq(Operations)]
  BY DEF LogInv, Logs
<1> DEFINE n == Len(applied[r]) + 1
<1>3. n \in 1 .. Len(applied[s]) /\ applied[s][n] \in Operations
  BY <1>1, <1>2
<1>4. Logs'
  BY <1>1, <1>2, <1>3 DEF Logs
<1>5. ASSUME NEW q \in Ranks, NEW i \in 1 .. Len(applied'[r]), q # r, i <= Len(applied'[q])
      PROVE  applied'[r][i] = applied'[q][i]
  <2>1. applied'[q] = applied[q]
    BY <1>1, <1>2, <1>5
  <2>2. CASE i = n
    <3>1. applied'[r][i] = applied[s][n]
      BY <1>1, <1>2, <2>2
    <3>2. applied[s][n] = applied[q][n]
      BY <1>3, <1>5, <2>1, <2>2 DEF LogInv, SameSoFar
    <3> QED BY <2>1, <2>2, <3>1, <3>2
  <2>3. CASE i # n
    <3>1. i \in 1 .. Len(applied[r]) /\ applied'[r][i] = applied[r][i]
      BY <1>1, <1>2, <2>3
    <3> QED BY <1>5, <2>1, <3>1 DEF LogInv, SameSoFar
  <2> QED BY <2>2, <2>3
<1>6. ASSUME NEW q \in Ranks, NEW p \in Ranks,
             NEW i \in 1 .. Len(applied'[q]), i <= Len(applied'[p])
      PROVE  applied'[q][i] = applied'[p][i]
  <2>1. CASE q = p
    BY <2>1
  <2>2. CASE q # p /\ q = r
    BY <1>5, <1>6, <2>2
  <2>3. CASE q # p /\ p = r
    <3>1. i \in 1 .. Len(applied'[r]) /\ i <= Len(applied'[q])
      BY <1>4, <1>6, <2>3 DEF Logs
    <3> QED BY <1>5, <2>3, <3>1
  <2>4. CASE q # r /\ p # r
    BY <1>1, <1>2, <1>6, <2>4 DEF LogInv, SameSoFar
  <2> QED BY <2>1, <2>2, <2>3, <2>4
<1> QED BY <1>4, <1>6 DEF LogInv, SameSoFar

LEMMA NextLogged == LogInv /\ [Log!Next]_applied => LogInv'
<1>1. LogInv /\ UNCHANGED applied => LogInv'
  BY DEF LogInv, Logs, SameSoFar
<1> QED BY <1>1, PerformLogged, FollowLogged DEF Log!Next

(* What the promise of OperationLog is worth: of two replicas that keep    *)
(* it, one has carried out all that the other has, in the same order, and  *)
(* maybe more.                                                             *)
LEMMA ReplicasNeverFork == Log!Init /\ [][Log!Next]_applied => []NoFork
<1>1. ASSUME LogInv, NEW r \in Ranks, NEW q \in Ranks, Len(applied[r]) <= Len(applied[q])
      PROVE  Log!IsPrefixOf(applied[r], applied[q])
  <2>1. applied[r] \in Seq(Operations) /\ applied[q] \in Seq(Operations)
    BY <1>1 DEF LogInv, Logs
  <2>2. \A i \in 1 .. Len(applied[r]) : applied[r][i] = applied[q][i]
    BY <1>1, <2>1 DEF LogInv, SameSoFar
  <2>3. SubSeq(applied[q], 1, Len(applied[r])) = applied[r]
    BY <1>1, <2>1, <2>2
  <2> QED BY <1>1, <2>3 DEF Log!IsPrefixOf
<1>2. ASSUME LogInv, NEW r \in Ranks, NEW q \in Ranks
      PROVE  Len(applied[r]) <= Len(applied[q]) \/ Len(applied[q]) <= Len(applied[r])
  BY <1>2 DEF LogInv, Logs
<1>3. LogInv => NoFork
  BY <1>1, <1>2 DEF NoFork
<1> QED BY <1>3, InitLogged, NextLogged, PTL

(***************************************************************************)
(* And the peers keep it: whatever createFile, deleteFile, createDir,      *)
(* deleteDir and renameHandler have carried out at two of them, at any     *)
(* time, one has done what the other has, in the same order.               *)
(***************************************************************************)
THEOREM PeersNeverFork == ASSUME Settled, Repeatable PROVE Spec => []NoFork
  BY PeersKeepOneLog, ReplicasNeverFork, PTL
-----------------------------------------------------------------------------
(* One store.                                                              *)

(* The block x is at the address a of rank r. *)
IsBlock(r, a, x) == IsLocal(r, a) /\ heap[r][a.id] = x
BlocksStay == \A r \in Ranks : \A a, x : IsBlock(r, a, x) => IsBlock(r, a, x)'

(* The first n addresses of a list are those of blocks that are there.     *)
Valid(list, n) == /\ n <= Len(list)
                  /\ \A b \in 1 .. n : list[b].rank \in Ranks /\ IsLocal(list[b].rank, list[b])
Contents(list, n) == [b \in 1 .. n |-> heap[list[b].rank][list[b].id]]

(* What was last written to a file can be followed from the list of the    *)
(* peer in use.                                                            *)
Held == /\ written \in [Files -> Nat]
        /\ \A ino \in Files : Valid(blockList[user][ino], written[ino])

(* A writer's peers have answered with the addresses of the blocks of      *)
(* their shares, a reader's with the blocks at the addresses of theirs.    *)
Answers(e) ==
    \A r \in DOMAIN e.gathered : \A i \in DOMAIN e.gathered[r] :
        IF e.call.type = "WRITE" THEN IsBlock(r, e.gathered[r][i], ScatterPart(e.parts, r)[i])
        ELSE IsBlock(r, ScatterPart(e.parts, r)[i], e.gathered[r][i])
Answered == \A k \in 1 .. Len(exchanges) : Answers(exchanges[k])

(* What the root has cut up: its buffer, or its list as far as the call    *)
(* goes.                                                                   *)
CutUp(c) == IF c.type = "WRITE" THEN Buffer(issued, NumberOfBlocks(c.fileSize))
            ELSE Pointers(user, c.inode, NumberOfBlocks(c.fileSize))
BegunWith == fuse[user].at = "gather" => exchanges[Len(exchanges)].parts = CutUp(fuse[user].call)

(* The sizes of files are those of writes. *)
Bounded == \A ino \in DOMAIN tree[user] : tree[user][ino].st_size \in FileSizes \cup {0}

StoreInv == Held /\ Answered /\ BegunWith /\ Bounded

(* What stays where it is, and what is new.                                *)
LEMMA HeapGrows ==
    ASSUME heap \in [Ranks -> Seq(Blobs)], NEW p \in Ranks, NEW c \in Calls, NEW share \in Seq(PartsType(c)),
           heap' = Stored(p, c, share), NEW part, part = Contribution(p, c, share)
    PROVE  /\ BlocksStay
           /\ c.type = "WRITE" => \A i \in DOMAIN part : IsBlock(p, part[i], share[i])'
           /\ c.type # "WRITE" => \A i \in DOMAIN part : IsLocal(p, share[i]) => IsBlock(p, share[i], part[i])'
<1>1. \A r \in Ranks : heap[r] \in Seq(Blobs) /\ Len(heap[r]) \in Nat
  OBVIOUS
<1>2. CASE c.type = "WRITE"
  <2>1. share \in Seq(Blobs) /\ Len(share) \in Nat
    BY <1>2 DEF PartsType
  <2>2. heap' = [heap EXCEPT ![p] = @ \o share]
    BY <1>2 DEF Stored
  <2>3. /\ Len(heap'[p]) = Len(heap[p]) + Len(share) /\ \A r \in Ranks : r # p => heap'[r] = heap[r]
        /\ \A i \in 1 .. Len(heap[p]) : heap'[p][i] = heap[p][i]
        /\ \A i \in 1 .. Len(share) : heap'[p][Len(heap[p]) + i] = share[i]
    BY <1>1, <2>1, <2>2
  <2>4. ASSUME NEW r \in Ranks, NEW a, NEW x, IsBlock(r, a, x) PROVE IsBlock(r, a, x)'
    BY <1>1, <2>1, <2>3, <2>4 DEF IsBlock, IsLocal
  <2>5. part = NewAddresses(p, Len(share))
    BY <1>2 DEF Contribution
  <2>6. DOMAIN part = 1 .. Len(share) /\ \A i \in 1 .. Len(share) : part[i] = [rank |-> p, id |-> Len(heap[p]) + i]
    BY <2>5 DEF NewAddresses
  <2>7. ASSUME NEW i \in DOMAIN part PROVE IsBlock(p, part[i], share[i])'
    <3>1. Len(heap[p]) + i \in 1 .. Len(heap'[p]) /\ heap'[p][Len(heap[p]) + i] = share[i]
      BY <1>1, <2>1, <2>3, <2>6
    <3>2. part[i].rank = p /\ part[i].id = Len(heap[p]) + i
      BY <2>6
    <3> QED BY <3>1, <3>2 DEF IsBlock, IsLocal
  <2> QED BY <1>2, <2>4, <2>7 DEF BlocksStay
<1>3. CASE c.type # "WRITE"
  <2>1. heap' = heap /\ part = [i \in DOMAIN share |-> Deref(p, share[i])]
    BY <1>3 DEF Stored, Contribution
  <2>2. BlocksStay
    BY <2>1 DEF BlocksStay, IsBlock, IsLocal
  <2>3. ASSUME NEW i \in DOMAIN part, IsLocal(p, share[i]) PROVE IsBlock(p, share[i], part[i])'
    <3>1. part[i] = heap[p][share[i].id]
      BY <2>1, <2>3 DEF Deref
    <3> QED BY <2>1, <2>3, <3>1 DEF IsBlock, IsLocal
  <2> QED BY <1>3, <2>2, <2>3
<1> QED BY <1>2, <1>3

LEMMA ContentsStay ==
    ASSUME BlocksStay, NEW list, NEW n, Valid(list, n)
    PROVE  Valid(list, n)' /\ Contents(list, n)' = Contents(list, n)
<1>1. ASSUME NEW b \in 1 .. n
      PROVE  /\ list[b].rank \in Ranks /\ IsLocal(list[b].rank, list[b])'
             /\ heap'[list[b].rank][list[b].id] = heap[list[b].rank][list[b].id]
  <2>1. PICK r \in Ranks : r = list[b].rank /\ IsLocal(r, list[b])
    BY DEF Valid
  <2>2. PICK x : x = heap[r][list[b].id]
    OBVIOUS
  <2>3. IsBlock(r, list[b], x)
    BY <2>1, <2>2 DEF IsBlock
  <2>4. IsBlock(r, list[b], x)'
    BY <2>3 DEF BlocksStay
  <2> QED BY <2>1, <2>2, <2>4 DEF IsBlock
<1>2. Valid(list, n)'
  BY <1>1 DEF Valid
<1>3. Contents(list, n)' = Contents(list, n)
  BY <1>1 DEF Contents
<1> QED BY <1>2, <1>3

LEMMA AnswersStay ==
    ASSUME BlocksStay, NEW e, DOMAIN e.gathered \subseteq Ranks, Answers(e)
    PROVE  Answers(e)'
<1>1. ASSUME NEW r \in DOMAIN e.gathered, NEW i \in DOMAIN e.gathered[r]
      PROVE  IF e.call.type = "WRITE" THEN IsBlock(r, e.gathered[r][i], ScatterPart(e.parts, r)[i])'
             ELSE IsBlock(r, ScatterPart(e.parts, r)[i], e.gathered[r][i])'
  <2>1. PICK given, asked : given = e.gathered[r][i] /\ asked = ScatterPart(e.parts, r)[i]
    OBVIOUS
  <2>2. IF e.call.type = "WRITE" THEN IsBlock(r, given, asked) ELSE IsBlock(r, asked, given)
    BY <2>1 DEF Answers
  <2>3. IF e.call.type = "WRITE" THEN IsBlock(r, given, asked)' ELSE IsBlock(r, asked, given)'
    BY <2>2 DEF BlocksStay
  <2> QED BY <2>1, <2>3
<1> QED BY <1>1 DEF Answers

(* The store that the peers are, and the call that is under way.           *)
StoreOfPeers == [ino \in Files |-> StoredBlocks(ino)]
CallUnderWay == IF ~InCall(fuse[user]) THEN [op |-> "none"]
                ELSE LET c == fuse[user].call
                     IN  [op |-> IF c.type = "WRITE" THEN "write" ELSE "read",
                          inode |-> c.inode, blocks |-> NumberOfBlocks(c.fileSize)]

LEMMA StoredContents ==
    ASSUME NEW ino \in Files
    PROVE  StoreOfPeers[ino] = StoredBlocks(ino) /\ StoredBlocks(ino) = Contents(blockList[user][ino], written[ino])
<1>1. StoredBlocks(ino) = Contents(blockList[user][ino], written[ino])
  BY DEF StoredBlocks, Contents
<1> QED BY <1>1 DEF StoreOfPeers

(* The contents are still there if blocks stay and the lists of the peer   *)
(* in use, whoever that is, are what they were.                            *)
LEMMA HeldStays ==
    ASSUME Held, BlocksStay, written' = written, user \in Ranks, blockList'[user'] = blockList[user]
    PROVE  Held' /\ StoreOfPeers' = StoreOfPeers
<1>1. ASSUME NEW ino \in Files
      PROVE  Valid(blockList[user][ino], written[ino])' /\ StoredBlocks(ino)' = StoredBlocks(ino)
  <2>1. PICK list, n : list = blockList[user][ino] /\ n = written[ino]
    OBVIOUS
  <2>2. Valid(list, n)
    BY <2>1 DEF Held
  <2>3. Valid(list, n)' /\ Contents(list, n)' = Contents(list, n)
    BY <2>2, ContentsStay
  <2>4. blockList'[user'][ino] = list /\ written'[ino] = n
    BY <2>1
  <2>5. StoredBlocks(ino) = Contents(list, n)
    BY <2>1, StoredContents
  <2>6. StoredBlocks(ino)' = Contents(list, n)'
    BY <2>4 DEF StoredBlocks, Contents
  <2> QED BY <2>3, <2>4, <2>5, <2>6
<1>2. Held'
  BY <1>1 DEF Held
<1> QED BY <1>1, <1>2 DEF StoreOfPeers

LEMMA SameHeap == ASSUME UNCHANGED heap PROVE BlocksStay
  BY DEF BlocksStay, IsBlock, IsLocal

LEMMA AnsweredStays ==
    ASSUME IInv, Answered, BlocksStay, UNCHANGED exchanges
    PROVE  Answered'
<1>1. ASSUME NEW k \in 1 .. Len(exchanges) PROVE Answers(exchanges[k])'
  <2>1. PICK e : e = exchanges[k]
    OBVIOUS
  <2>2. DOMAIN e.gathered \subseteq Ranks /\ Answers(e)
    BY <2>1 DEF IInv, PartsOfThose, Answered
  <2>3. Answers(e)'
    BY <2>2, AnswersStay
  <2> QED BY <2>1, <2>3 DEF Answers, IsBlock, IsLocal
<1> QED BY <1>1 DEF Answered

(* A table whose sizes are those it had, or none. *)
LEMMA SizesBounded ==
    ASSUME Bounded, SizesKept(tree[user], tree'[user'])
    PROVE  Bounded'
  BY DEF Bounded, SizesKept

(* Steps that move no data, and neither begin nor end a call of the user.  *)
LEMMA QuietStore ==
    ASSUME IInv, StoreInv, UNCHANGED <<blockList, heap, exchanges, readBuff, written, issued, user>>,
           InCall(fuse[user]) \/ InCall(fuse'[user]) => fuse'[user] = fuse[user],
           SizesKept(tree[user], tree'[user])
    PROVE  StoreInv' /\ UNCHANGED Store!vars
<1>1. user \in Ranks
  BY DEF IInv, Shape
<1>2. Held' /\ StoreOfPeers' = StoreOfPeers
  BY <1>1, SameHeap, HeldStays DEF StoreInv
<1>3. Answered'
  BY SameHeap, AnsweredStays DEF StoreInv
<1>4. BegunWith'
  BY DEF StoreInv, BegunWith, InCall, CutUp, Pointers
<1>5. Bounded'
  BY SizesBounded DEF StoreInv
<1>6. CallUnderWay' = CallUnderWay
  BY DEF CallUnderWay
<1> QED BY <1>2, <1>3, <1>4, <1>5, <1>6 DEF StoreInv, Store!vars, StoreOfPeers, CallUnderWay

LEMMA ThreadsStore ==
    ASSUME IInv, TypeInv, StoreInv, NEW p \in Ranks,
           \/ Mount(p) \/ StartFails(p) \/ MountFails(p) \/ Unmount(p) \/ LoopEnds(p) \/ SendTermination(p)
           \/ Announce(p) \/ ResetFlag(p) \/ ReplayClose(p)
           \/ \E q \in Ranks : RecvHeader(q, p) \/ RecvBody(q, p) \/ RecvTerminate(q, p)
    PROVE  StoreInv' /\ UNCHANGED Store!vars
<1>1. UNCHANGED <<tree, blockList, heap, exchanges>> /\ TransfersStill
  BY ThreadsStill
<1>2. UNCHANGED <<readBuff, written, issued, user>>
  BY DEF Mount, StartFails, MountFails, Unmount, LoopEnds, SendTermination, Announce, ResetFlag, ReplayClose,
         RecvHeader, RecvBody, RecvTerminate, dataVars, userVars
<1>3. SizesKept(tree[user], tree'[user'])
  BY <1>1, <1>2 DEF SizesKept
<1>4. user \in Ranks
  BY DEF IInv, Shape
<1> QED BY <1>1, <1>2, <1>3, <1>4, QuietStore DEF TransfersStill

LEMMA StutterStore ==
    ASSUME IInv, TypeInv, StoreInv, UNCHANGED vars
    PROVE  StoreInv' /\ UNCHANGED Store!vars
<1>1. UNCHANGED <<tree, blockList, heap, exchanges, readBuff, written, issued, user, fuse>>
  BY DEF vars, threadVars, dataVars, userVars
<1>2. SizesKept(tree[user], tree'[user'])
  BY <1>1 DEF SizesKept
<1> QED BY <1>1, <1>2, QuietStore

(* A repeated operation is not one of the peer in use. *)
LEMMA ReplayStore ==
    ASSUME IInv, TypeInv, StoreInv, NEW p \in Ranks, Replay(p)
    PROVE  StoreInv' /\ UNCHANGED Store!vars
<1>1. /\ UNCHANGED <<blockList, heap, exchanges, readBuff, written, issued, user>>
      /\ recv[p].at = "syscall"
      /\ \A q \in Ranks : q # p => tree'[q] = tree[q] /\ fuse'[q] = fuse[q]
  BY DEF Replay, dataVars, userVars, TypeInv, ThreadsTyped, TreesTyped
<1>2. user \in Ranks /\ user # p
  BY <1>1, BusyFollows DEF Others
<1>3. SizesKept(tree[user], tree'[user'])
  BY <1>1, <1>2 DEF SizesKept
<1> QED BY <1>1, <1>2, <1>3, QuietStore

(* Who is used next has the lists and the sizes of who was used last.      *)
LEMMA NextUser ==
    ASSUME Settled, IInv, TypeInv, AgreeInv, StoreInv, NEW p \in Ranks, NEW type, MayUse(p, type)
    PROVE  /\ user \in Ranks /\ fuse[p] = At("loop") /\ ~InCall(fuse[p]) /\ ~InCall(fuse[user])
           /\ blockList[p] = blockList[user]
           /\ \A ino \in DOMAIN tree[p] : tree[p][ino].st_size \in FileSizes \cup {0}
<1>1. user \in Ranks /\ AllMounted /\ fuse[p] = At("loop") /\ (Quiet \/ user = p)
  BY DEF IInv, Shape, MayUse, Settled
<1>2. ~InCall(fuse[p])
  BY <1>1 DEF InCall, At
<1>3. CASE user = p
  BY <1>1, <1>2, <1>3 DEF StoreInv, Bounded
<1>4. CASE Quiet
  <2>1. Agreed
    BY <1>1, <1>4, Settle
  <2>2. blockList[p] = blockList[user] /\ SameSizes(p, user) /\ applied[p] = applied[user]
    BY <1>1, <2>1 DEF Agreed
  <2>3. DOMAIN tree[p] = DOMAIN tree[user]
    <3>1. Followed(user)
      BY DEF AgreeInv
    <3>2. Bare(tree[p]) = Bare(tree[user])
      BY <1>1, <2>2, <3>1, CaughtUp DEF TypeInv
    <3> QED BY <3>2, BareDomain
  <2>4. ~InCall(fuse[user])
    BY <1>1, <1>4 DEF Quiet, InCall
  <2> QED BY <1>1, <1>2, <2>2, <2>3, <2>4 DEF StoreInv, Bounded, SameSizes
<1> QED BY <1>1, <1>3, <1>4

LEMMA ChangeStore ==
    ASSUME Settled, IInv, TypeInv, AgreeInv, StoreInv, NEW p \in Ranks, NEW o \in Operations, Change(p, o)
    PROVE  StoreInv' /\ UNCHANGED Store!vars
<1>1. /\ UNCHANGED <<blockList, heap, exchanges, readBuff, written, issued>> /\ user' = p
      /\ MayUse(p, o.type) /\ KernelAllows(tree[p], o)
  BY DEF Change, dataVars
<1>2. /\ user \in Ranks /\ ~InCall(fuse[p]) /\ ~InCall(fuse[user]) /\ blockList[p] = blockList[user]
      /\ \A ino \in DOMAIN tree[p] : tree[p][ino].st_size \in FileSizes \cup {0}
  BY <1>1, NextUser
<1>3. PICK f : f = [at |-> "announce", op |-> Announcement(tree[p], o)]
  OBVIOUS
<1>4. ~InCall(f) /\ (fuse' = fuse \/ fuse' = [fuse EXCEPT ![p] = f])
  BY <1>3 DEF Change, InCall
<1>5. ~InCall(fuse'[p])
  BY <1>2, <1>4 DEF TypeInv, ThreadsTyped
<1>6. PICK n \in 2 .. MaxINodes : Table(tree[p], n) /\ n \in Nat /\ n > 1
  BY TreeThere DEF TypeInv
<1>7. SizesKept(tree[p], Applied(tree[p], o))
  BY <1>1, <1>6, AnyOperations, AppliedKeeps
<1>8. tree'[p] = Applied(tree[p], o)
  BY DEF Change, TypeInv, TreesTyped
<1>9. Bounded'
  BY <1>1, <1>2, <1>7, <1>8 DEF Bounded, SizesKept
<1>10. Held' /\ StoreOfPeers' = StoreOfPeers
  BY <1>1, <1>2, SameHeap, HeldStays DEF StoreInv
<1>11. Answered'
  BY <1>1, SameHeap, AnsweredStays DEF StoreInv
<1>12. BegunWith'
  BY <1>1, <1>5 DEF BegunWith, InCall
<1>13. CallUnderWay' = CallUnderWay
  BY <1>1, <1>2, <1>5 DEF CallUnderWay
<1> QED BY <1>1, <1>9, <1>10, <1>11, <1>12, <1>13 DEF StoreInv, Store!vars, StoreOfPeers, CallUnderWay

(* The calls of users: no file is larger than the largest size written.    *)
Largest == CHOOSE s \in FileSizes : \A t \in FileSizes : t <= s
HasLargest == \E s \in FileSizes : \A t \in FileSizes : t <= s

LEMMA BlocksBounded ==
    ASSUME HasLargest, NEW size \in FileSizes \cup {0}
    PROVE  NumberOfBlocks(size) \in 0 .. NumberOfBlocks(Largest)
<1>1. Largest \in FileSizes /\ \A t \in FileSizes : t <= Largest
  BY DEF Largest, HasLargest
<1>2. PICK top \in Nat : top = Largest
  BY <1>1, PeerToPeerAssumption
<1>3. size \in Nat /\ size <= top
  BY <1>1, <1>2, PeerToPeerAssumption
<1>4. NumberOfBlocks(size) \in Nat /\ NumberOfBlocks(top) \in Nat
  BY <1>3, NumberOfBlocksType
<1>5. NumberOfBlocks(size) <= NumberOfBlocks(top)
  <2> BlockSize \in Nat \ {0}
    BY StripingAssumption
  <2>1. PICK q \in Nat, m \in Nat : q = size \div BlockSize /\ m = size % BlockSize /\ m < BlockSize
                                    /\ size = BlockSize * q + m
    BY <1>3
  <2>2. PICK u \in Nat, v \in Nat : u = top \div BlockSize /\ v = top % BlockSize /\ v < BlockSize
                                    /\ top = BlockSize * u + v
    BY <1>2
  <2>3. q <= u
    <3> SUFFICES ASSUME q >= u + 1 PROVE FALSE
      BY <2>1, <2>2
    <3>1. BlockSize * q >= BlockSize * (u + 1)
      OBVIOUS
    <3>2. BlockSize * (u + 1) = BlockSize * u + BlockSize
      OBVIOUS
    <3> QED BY <1>3, <2>1, <2>2, <3>1, <3>2
  <2>4. CASE q = u
    BY <1>3, <2>1, <2>2, <2>4 DEF NumberOfBlocks
  <2>5. CASE q + 1 <= u
    BY <2>1, <2>2, <2>5 DEF NumberOfBlocks
  <2> QED BY <2>1, <2>2, <2>3, <2>4, <2>5
<1> QED BY <1>2, <1>4, <1>5

LEMMA CallMade ==
    ASSUME HasLargest, NEW p \in Ranks, ~InCall(fuse[user]), user' = p,
           NEW op \in {"write", "read"}, NEW ino \in Files, NEW size \in FileSizes \cup {0},
           fuse'[p].at = "scatter", fuse'[p].call.inode = ino, fuse'[p].call.fileSize = size,
           op = IF fuse'[p].call.type = "WRITE" THEN "write" ELSE "read",
           StoreOfPeers' = StoreOfPeers, readBuff' = readBuff, issued' = issued + 1
    PROVE  Store!Next
<1>1. PICK n \in 0 .. NumberOfBlocks(Largest) : n = NumberOfBlocks(size)
  BY BlocksBounded
<1>2. CallUnderWay = [op |-> "none"]
  BY DEF CallUnderWay
<1>3. CallUnderWay' = [op |-> op, inode |-> ino, blocks |-> n]
  BY <1>1 DEF CallUnderWay, InCall
<1>4. Store!Call(op, ino, n)
  BY <1>2, <1>3 DEF Store!Call, Store!Idle, Store!CallOf, CallUnderWay, StoreOfPeers
<1> QED BY <1>1, <1>4 DEF Store!Next, Largest

LEMMA FlushStore ==
    ASSUME HasLargest, Settled, IInv, TypeInv, AgreeInv, StoreInv,
           NEW p \in Ranks, NEW path \in Paths, NEW size \in FileSizes, FuseFlush(p, path, size)
    PROVE  StoreInv' /\ Store!Next
<1>1. PICK ino : ino = INodeAt(tree[p], path)
  OBVIOUS
<1>2. PICK c : c = [type |-> "WRITE", source |-> p, inode |-> ino, fileSize |-> size]
  OBVIOUS
<1>3. /\ UNCHANGED <<blockList, heap, exchanges, readBuff, written>> /\ issued' = issued + 1 /\ user' = p
      /\ MayUse(p, "WRITE") /\ IsFile(tree[p], ino)
      /\ fuse' = [fuse EXCEPT ![p] = [at |-> "scatter", call |-> c]]
      /\ SizeSet(p, ino, size, NumberOfBlocks(size))
  BY <1>1, <1>2 DEF FuseFlush, dataVars, SizeSet
<1>4. /\ user \in Ranks /\ ~InCall(fuse[user]) /\ blockList[p] = blockList[user]
      /\ \A other \in DOMAIN tree[p] : tree[p][other].st_size \in FileSizes \cup {0}
  BY <1>3, NextUser
<1>5. fuse'[p] = [at |-> "scatter", call |-> c]
  BY <1>3 DEF TypeInv, ThreadsTyped
<1>6. ino \in Files /\ ino \in DOMAIN tree[p]
  BY <1>1, <1>3, FileNumber DEF TypeInv
<1>7. Bounded'
  <2>1. PICK n \in 2 .. MaxINodes : Table(tree[p], n) /\ n \in Nat /\ n > 1
    BY TreeThere DEF TypeInv
  <2>2. ino \in 0 .. n - 1 /\ DOMAIN tree[p] = 0 .. n - 1
    BY <1>6, <2>1, TableFacts
  <2>3. PICK old : old = tree[p]
    OBVIOUS
  <2>4. PICK blocks \in Nat : blocks = NumberOfBlocks(size) /\ size \in Nat
    BY PeerToPeerAssumption, NumberOfBlocksType
  <2>5. PICK t : t = SetSize(old, ino, size, blocks)
    OBVIOUS
  <2>6. t[ino].st_size = size
    <3>1. Table(old, n)
      BY <2>1, <2>3
    <3> QED BY ONLY <2>1, <2>2, <2>4, <2>5, <3>1, SizeSetTo
  <2>7. DOMAIN t = DOMAIN old /\ \A other \in DOMAIN old : other # ino => t[other] = old[other]
    BY <2>5 DEF SetSize
  <2>8. tree' = [tree EXCEPT ![p] = t]
    BY <1>3, <2>1, <2>2, <2>3, <2>4, <2>5, SizeIsSet DEF TypeInv, TreesTyped
  <2>9. tree'[p] = t
    BY <2>8 DEF TypeInv, TreesTyped
  <2> QED BY <1>3, <1>4, <2>3, <2>6, <2>7, <2>9 DEF Bounded
<1>8. Held' /\ StoreOfPeers' = StoreOfPeers
  BY <1>3, <1>4, SameHeap, HeldStays DEF StoreInv
<1>9. Answered'
  BY <1>3, SameHeap, AnsweredStays DEF StoreInv
<1>10. BegunWith'
  BY <1>3, <1>5 DEF BegunWith
<1>11. Store!Next
  BY <1>2, <1>3, <1>4, <1>5, <1>6, <1>8, CallMade
<1> QED BY <1>7, <1>8, <1>9, <1>10, <1>11 DEF StoreInv

LEMMA OpenStore ==
    ASSUME HasLargest, Settled, IInv, TypeInv, AgreeInv, StoreInv,
           NEW p \in Ranks, NEW path \in Paths, FuseOpen(p, path)
    PROVE  StoreInv' /\ Store!Next
<1>1. PICK ino : ino = INodeAt(tree[p], path)
  OBVIOUS
<1>2. PICK size : size = tree[p][ino].st_size
  OBVIOUS
<1>3. PICK c : c = [type |-> "READ", source |-> p, inode |-> ino, fileSize |-> size]
  OBVIOUS
<1>4. /\ UNCHANGED <<tree, blockList, heap, exchanges, written>> /\ issued' = issued + 1 /\ user' = p
      /\ MayUse(p, "READ") /\ IsFile(tree[p], ino)
      /\ fuse' = IF size = 0 THEN fuse ELSE [fuse EXCEPT ![p] = [at |-> "scatter", call |-> c]]
      /\ readBuff' = IF size = 0 THEN <<>> ELSE readBuff
  BY <1>1, <1>2, <1>3 DEF FuseOpen
<1>5. /\ user \in Ranks /\ ~InCall(fuse[p]) /\ ~InCall(fuse[user]) /\ blockList[p] = blockList[user]
      /\ \A other \in DOMAIN tree[p] : tree[p][other].st_size \in FileSizes \cup {0}
  BY <1>4, NextUser
<1>6. ino \in Files /\ ino \in DOMAIN tree[p] /\ size \in FileSizes \cup {0}
  BY <1>1, <1>2, <1>4, <1>5, FileNumber DEF TypeInv
<1>7. IF size = 0 THEN fuse'[p] = fuse[p] ELSE fuse'[p] = [at |-> "scatter", call |-> c]
  BY <1>4 DEF TypeInv, ThreadsTyped
<1>8. Bounded'
  BY <1>4, <1>5 DEF Bounded
<1>9. Held' /\ StoreOfPeers' = StoreOfPeers
  BY <1>4, <1>5, SameHeap, HeldStays DEF StoreInv
<1>10. Answered'
  BY <1>4, SameHeap, AnsweredStays DEF StoreInv
<1>11. BegunWith'
  BY <1>4, <1>5, <1>7 DEF BegunWith, InCall
<1>12. CASE size # 0
  <2>1. Store!Next
    BY <1>3, <1>4, <1>5, <1>6, <1>7, <1>9, <1>12, CallMade
  <2> QED BY <1>8, <1>9, <1>10, <1>11, <2>1 DEF StoreInv
<1>13. CASE size = 0
  <2>1. CallUnderWay = [op |-> "none"] /\ CallUnderWay' = CallUnderWay
    BY <1>4, <1>5, <1>7, <1>13 DEF CallUnderWay
  <2>2. Store!ReadNothing
    BY <1>4, <1>9, <1>13, <2>1 DEF Store!ReadNothing, Store!Idle, CallUnderWay, StoreOfPeers
  <2> QED BY <1>8, <1>9, <1>10, <1>11, <2>2 DEF StoreInv, Store!Next
<1> QED BY <1>12, <1>13

(* The collectives.                                                        *)
LEMMA ScatterStore ==
    ASSUME IInv, TypeInv, LocalInv, StoreInv, NEW p \in Ranks, FuseScatter(p)
    PROVE  StoreInv' /\ UNCHANGED Store!vars
<1>1. PICK c \in Calls : c = fuse[p].call
  BY FuseStateFacts DEF TypeInv, ThreadsTyped, FuseScatter
<1>2. PICK parts : parts = IF c.type = "WRITE" THEN Buffer(issued, NumberOfBlocks(c.fileSize))
                           ELSE Pointers(p, c.inode, NumberOfBlocks(c.fileSize))
  OBVIOUS
<1>3. PICK share : share = ScatterPart(parts, p)
  OBVIOUS
<1>4. PICK part : part = Contribution(p, c, share)
  OBVIOUS
<1>5. PICK e : e = [call |-> c, parts |-> parts, gathered |-> [q \in {p} |-> part]]
  OBVIOUS
<1>6. /\ UNCHANGED <<tree, blockList, readBuff, written, issued, user>> /\ fuse[p].at = "scatter"
      /\ exchanges' = Append(exchanges, e) /\ heap' = Stored(p, c, share)
      /\ fuse' = [fuse EXCEPT ![p].at = "gather"]
  BY <1>1, <1>2, <1>3, <1>4, <1>5 DEF FuseScatter, userVars
<1>7. p = user
  BY <1>6, WhoCalls
<1>8. share \in Seq(PartsType(c)) /\ c.type \in {"WRITE", "READ"}
  <2>1. NumberOfBlocks(c.fileSize) \in Nat /\ c.inode \in Files
    BY NumberOfBlocksType DEF Calls
  <2>2. parts \in Seq(PartsType(c))
    BY <1>2, <2>1, BufferType, PointersType DEF PartsType, TypeInv, StoreTyped
  <2> QED BY <1>3, <2>2, ScatterPartType DEF Calls
<1>9. /\ BlocksStay
      /\ c.type = "WRITE" => \A i \in DOMAIN part : IsBlock(p, part[i], share[i])'
      /\ c.type # "WRITE" => \A i \in DOMAIN part : IsLocal(p, share[i]) => IsBlock(p, share[i], part[i])'
  BY <1>4, <1>6, <1>8, HeapGrows DEF TypeInv, StoreTyped
<1>10. /\ Len(exchanges) \in Nat /\ Len(exchanges') = Len(exchanges) + 1
       /\ \A k \in 1 .. Len(exchanges) : exchanges'[k] = exchanges[k]
       /\ exchanges'[Len(exchanges) + 1] = e
  BY <1>6, AppendFacts, SeqFacts DEF IInv, Shape
<1>11. fuse'[p].at = "gather" /\ fuse'[p].call = c
  <2>1. fuse[p] = [at |-> "scatter", call |-> c]
    BY <1>1, <1>6 DEF TypeInv, ThreadsTyped, FuseStates
  <2>2. fuse'[p] = [fuse[p] EXCEPT !.at = "gather"]
    BY <1>6 DEF TypeInv, ThreadsTyped
  <2> QED BY <2>1, <2>2
<1>12. Answers(e)'
  <2>1. e.call = c /\ e.parts = parts /\ DOMAIN e.gathered = {p} /\ e.gathered[p] = part
    BY <1>5
  <2>2. ASSUME NEW i \in DOMAIN part
        PROVE  IF c.type = "WRITE" THEN IsBlock(p, part[i], share[i])' ELSE IsBlock(p, share[i], part[i])'
    <3>1. CASE c.type = "WRITE"
      BY <1>9, <3>1
    <3>2. CASE c.type # "WRITE"
      <4>1. DOMAIN part = DOMAIN share
        BY <1>4, <3>2 DEF Contribution
      <4>2. c.type = "READ" /\ parts = Pointers(p, c.inode, NumberOfBlocks(c.fileSize))
        BY <1>2, <1>8, <3>2
      <4>3. IsLocal(p, share[i])
        BY <1>1, <1>3, <1>6, <4>1, <4>2, ReaderDeals
      <4> QED BY <1>9, <3>2, <4>3
    <3> QED BY <3>1, <3>2
  <2>3. ASSUME NEW r \in DOMAIN e.gathered, NEW i \in DOMAIN e.gathered[r]
        PROVE  IF e.call.type = "WRITE" THEN IsBlock(r, e.gathered[r][i], ScatterPart(e.parts, r)[i])'
               ELSE IsBlock(r, ScatterPart(e.parts, r)[i], e.gathered[r][i])'
    BY <1>3, <2>1, <2>2
  <2> QED BY <2>3 DEF Answers
<1>13. Answered'
  <2>1. ASSUME NEW k \in 1 .. Len(exchanges') PROVE Answers(exchanges[k])'
    <3>1. PICK d : d = exchanges'[k]
      OBVIOUS
    <3>2. Answers(d)'
      <4>1. CASE k = Len(exchanges) + 1
        BY <1>10, <1>12, <3>1, <4>1
      <4>2. CASE k \in 1 .. Len(exchanges)
        <5>1. d = exchanges[k] /\ Answers(d) /\ DOMAIN d.gathered \subseteq Ranks
          BY <1>10, <3>1, <4>2 DEF StoreInv, Answered, IInv, PartsOfThose
        <5> QED BY <1>9, <5>1, AnswersStay
      <4> QED BY <1>10, <4>1, <4>2
    <3> QED BY <3>1, <3>2 DEF Answers, IsBlock, IsLocal
  <2> QED BY <2>1 DEF Answered, Answers, IsBlock, IsLocal
<1>14. BegunWith'
  <2>1. exchanges'[Len(exchanges')].parts = parts
    BY <1>5, <1>10
  <2>2. CutUp(c)' = parts
    BY <1>2, <1>6, <1>7 DEF CutUp, Pointers
  <2>3. fuse'[user'].call = c
    BY <1>6, <1>7, <1>11
  <2> QED BY <2>1, <2>2, <2>3 DEF BegunWith, CutUp, Pointers
<1>15. Held' /\ StoreOfPeers' = StoreOfPeers
  BY <1>6, <1>7, <1>9, HeldStays DEF StoreInv
<1>16. Bounded'
  BY <1>6 DEF StoreInv, Bounded
<1>17. CallUnderWay' = CallUnderWay
  BY <1>1, <1>6, <1>7, <1>11 DEF CallUnderWay, InCall
<1> QED BY <1>6, <1>13, <1>14, <1>15, <1>16, <1>17 DEF StoreInv, Store!vars, StoreOfPeers, CallUnderWay

LEMMA RecvScatterStore ==
    ASSUME IInv, TypeInv, LocalInv, StoreInv, NEW p \in Ranks, RecvScatter(p)
    PROVE  StoreInv' /\ UNCHANGED Store!vars
<1>1. PICK k : k = pos[p] + 1
  OBVIOUS
<1>2. PICK e : e = exchanges[k]
  OBVIOUS
<1>3. PICK share : share = ScatterPart(e.parts, p)
  OBVIOUS
<1>4. PICK part : part = Contribution(p, e.call, share)
  OBVIOUS
<1>5. /\ k \in 1 .. Len(exchanges) /\ e.call \in Calls /\ share \in Seq(PartsType(e.call))
      /\ part \in Seq(ContributedType(e.call)) /\ Len(part) = EffectiveBlocks(Len(e.parts), p)
      /\ Replaced(exchanges, k, WithPart(e, p, part), exchanges')
      /\ heap' = Stored(p, e.call, share)
  BY <1>1, <1>2, <1>3, <1>4, JoinedExchange
<1>6. UNCHANGED <<fuse, tree, blockList, readBuff, written, issued, user>>
  BY DEF RecvScatter, userVars
<1>7. user \in Ranks
  BY DEF IInv, Shape
<1>8. /\ BlocksStay
      /\ e.call.type = "WRITE" => \A i \in DOMAIN part : IsBlock(p, part[i], share[i])'
      /\ e.call.type # "WRITE" => \A i \in DOMAIN part : IsLocal(p, share[i]) => IsBlock(p, share[i], part[i])'
  BY <1>4, <1>5, HeapGrows DEF TypeInv, StoreTyped
<1>9. PICK w : w = WithPart(e, p, part)
  OBVIOUS
<1>10. /\ w.call = e.call /\ w.parts = e.parts /\ w.gathered[p] = part
       /\ DOMAIN w.gathered = DOMAIN e.gathered \cup {p}
       /\ \A q \in DOMAIN e.gathered : q # p => w.gathered[q] = e.gathered[q]
  <2>1. IsExchange(e)
    BY <1>2, <1>5 DEF IInv, Shape
  <2>2. w = [call |-> e.call, parts |-> e.parts,
             gathered |-> [q \in DOMAIN e.gathered \cup {p} |-> IF q = p THEN part ELSE e.gathered[q]]]
    BY <1>9, <2>1 DEF WithPart, IsExchange
  <2> QED BY <2>2
<1>11. /\ Len(exchanges') = Len(exchanges) /\ exchanges'[k] = w
       /\ \A i \in 1 .. Len(exchanges) : i # k => exchanges'[i] = exchanges[i]
  BY <1>5, <1>9, ExceptFacts DEF IInv, Shape
<1>12. ASSUME NEW i \in DOMAIN part
       PROVE  IF e.call.type = "WRITE" THEN IsBlock(p, part[i], share[i])' ELSE IsBlock(p, share[i], part[i])'
  <2>1. CASE e.call.type = "WRITE"
    BY <1>8, <2>1
  <2>2. CASE e.call.type # "WRITE"
    <3>1. DOMAIN part = DOMAIN share
      BY <1>4, <2>2 DEF Contribution
    <3>2. e.call.type = "READ"
      BY <1>5, <2>2 DEF Calls
    <3>3. IsLocal(p, share[i])
      BY <1>2, <1>3, <1>5, <3>1, <3>2 DEF LocalInv, PointerLocality
    <3> QED BY <1>8, <2>2, <3>3
  <2> QED BY <2>1, <2>2
<1>13. Answers(e) /\ DOMAIN e.gathered \subseteq Ranks
  BY <1>2, <1>5 DEF StoreInv, Answered, IInv, PartsOfThose
<1>14. Answers(w)'
  <2>1. Answers(e)'
    BY <1>8, <1>13, AnswersStay
  <2>2. ASSUME NEW r \in DOMAIN w.gathered, NEW i \in DOMAIN w.gathered[r]
        PROVE  IF w.call.type = "WRITE" THEN IsBlock(r, w.gathered[r][i], ScatterPart(w.parts, r)[i])'
               ELSE IsBlock(r, ScatterPart(w.parts, r)[i], w.gathered[r][i])'
    <3>1. CASE r = p
      BY <1>3, <1>10, <1>12, <2>2, <3>1
    <3>2. CASE r # p
      <4>1. r \in DOMAIN e.gathered /\ w.gathered[r] = e.gathered[r]
        BY <1>10, <2>2, <3>2
      <4> QED BY <1>10, <2>1, <2>2, <4>1 DEF Answers
    <3> QED BY <3>1, <3>2
  <2> QED BY <2>2 DEF Answers
<1>15. Answered'
  <2>1. ASSUME NEW j \in 1 .. Len(exchanges') PROVE Answers(exchanges[j])'
    <3>1. PICK d : d = exchanges'[j]
      OBVIOUS
    <3>2. Answers(d)'
      <4>1. CASE j = k
        BY <1>11, <1>14, <3>1, <4>1
      <4>2. CASE j # k
        <5>1. d = exchanges[j] /\ Answers(d) /\ DOMAIN d.gathered \subseteq Ranks
          BY <1>11, <3>1, <4>2 DEF StoreInv, Answered, IInv, PartsOfThose
        <5> QED BY <1>8, <5>1, AnswersStay
      <4> QED BY <4>1, <4>2
    <3> QED BY <3>1, <3>2 DEF Answers, IsBlock, IsLocal
  <2> QED BY <2>1 DEF Answered, Answers, IsBlock, IsLocal
<1>16. BegunWith'
  <2>1. ASSUME fuse[user].at = "gather" PROVE exchanges'[Len(exchanges')].parts = exchanges[Len(exchanges)].parts
    <3>1. PICK last \in 1 .. Len(exchanges) : last = Len(exchanges)
      BY <1>5, SeqFacts DEF IInv, Shape
    <3>2. exchanges'[last].parts = exchanges[last].parts
      BY <1>2, <1>10, <1>11
    <3> QED BY <1>11, <3>1, <3>2
  <2>2. fuse[user].at = "gather" => exchanges'[Len(exchanges')].parts = CutUp(fuse[user].call)
    BY <2>1 DEF StoreInv, BegunWith
  <2> QED BY <1>6, <2>2 DEF BegunWith, CutUp, Pointers
<1>17. Held' /\ StoreOfPeers' = StoreOfPeers
  BY <1>6, <1>7, <1>8, HeldStays DEF StoreInv
<1>18. Bounded'
  BY <1>6 DEF StoreInv, Bounded
<1>19. CallUnderWay' = CallUnderWay
  BY <1>6 DEF CallUnderWay
<1> QED BY <1>6, <1>15, <1>16, <1>17, <1>18, <1>19 DEF StoreInv, Store!vars, StoreOfPeers, CallUnderWay

(* Who follows is not the peer in use. *)
LEMMA RecvGatherStore ==
    ASSUME IInv, TypeInv, StoreInv, NEW p \in Ranks, RecvGather(p)
    PROVE  StoreInv' /\ UNCHANGED Store!vars
<1>1. /\ UNCHANGED <<fuse, heap, exchanges, readBuff, written, issued, user>> /\ recv[p].at = "gather"
      /\ blockList' = [blockList EXCEPT ![p][recv[p].call.inode] = Listed(@, GatheredParts(p))]
  BY DEF RecvGather, userVars
<1>2. user \in Ranks /\ user # p
  BY <1>1, BusyFollows DEF Others
<1>3. blockList'[user] = blockList[user]
  BY <1>1, <1>2 DEF TypeInv, StoreTyped
<1>4. tree'[user] = tree[user]
  BY <1>2 DEF RecvGather, TypeInv, TreesTyped
<1>5. Held' /\ StoreOfPeers' = StoreOfPeers
  BY <1>1, <1>2, <1>3, SameHeap, HeldStays DEF StoreInv
<1>6. Answered'
  BY <1>1, SameHeap, AnsweredStays DEF StoreInv
<1>7. BegunWith'
  BY <1>1, <1>3 DEF StoreInv, BegunWith, CutUp, Pointers
<1>8. Bounded'
  BY <1>1, <1>4 DEF StoreInv, Bounded
<1>9. CallUnderWay' = CallUnderWay
  BY <1>1 DEF CallUnderWay
<1> QED BY <1>1, <1>5, <1>6, <1>7, <1>8, <1>9 DEF StoreInv, Store!vars, StoreOfPeers, CallUnderWay

(* What the root has when all have given their parts: for each block of    *)
(* the call the answer that it asked for.                                  *)
LEMMA AnswerGathered ==
    ASSUME IInv, TypeInv, StoreInv, NEW p \in Ranks, FuseGather(p), NEW c \in Calls, c = fuse[p].call,
           NEW n, n = NumberOfBlocks(c.fileSize), NEW parts, parts = GatheredParts(p)
    PROVE  /\ p = user /\ n \in Nat /\ parts \in Seq(ContributedType(c)) /\ Len(parts) = n
           /\ parts = [b \in 1 .. n |-> parts[b]]
           /\ Len(exchanges[pos[p]].parts) = n
           /\ \A b \in 1 .. n : \E r \in Ranks :
                 IF c.type = "WRITE" THEN IsBlock(r, parts[b], CutUp(c)[b])
                 ELSE IsBlock(r, CutUp(c)[b], parts[b])
<1>1. fuse[p].at = "gather" /\ Gathered(p)
  BY DEF FuseGather
<1>2. p = user /\ Working(p)
  BY <1>1, WhoCalls
<1>3. PICK last \in Nat : last = Len(exchanges)
  BY SequencesThere DEF IInv
<1>4. pos[p] = last /\ last \in 1 .. Len(exchanges) /\ exchanges[last].call = c
  BY <1>1, <1>2, <1>3 DEF Working, Leads
<1>5. PICK e : e = exchanges[last]
  OBVIOUS
<1>6. e.parts = CutUp(c) /\ e.call = c /\ Answers(e) /\ DOMAIN e.gathered = Ranks
  BY <1>1, <1>2, <1>3, <1>4, <1>5 DEF StoreInv, BegunWith, Answered, Gathered
<1>7. n \in Nat
  BY NumberOfBlocksType DEF Calls
<1>8. Len(e.parts) = n /\ \A r \in Ranks : DOMAIN e.gathered[r] = 1 .. EffectiveBlocks(n, r)
  <2>1. ExchangeTyped(e)
    BY <1>4, <1>5 DEF TypeInv, StoreTyped
  <2>2. Len(e.parts) = n
    BY <1>6, <2>1 DEF ExchangeTyped
  <2>3. ASSUME NEW r \in Ranks PROVE DOMAIN e.gathered[r] = 1 .. EffectiveBlocks(n, r)
    BY <1>6, <2>1, <2>2, <2>3 DEF ExchangeTyped
  <2> QED BY <2>2, <2>3
<1>9. /\ parts \in Seq(ContributedType(c)) /\ Len(parts) = n
      /\ \A r \in Ranks : \A i \in 1 .. EffectiveBlocks(n, r) : parts[Displ(n, r) + i] = e.gathered[r][i]
  BY <1>1, <1>4, <1>5, GatheredType DEF TypeInv
<1>10. ASSUME NEW b \in 1 .. n
       PROVE  \E r \in Ranks : IF c.type = "WRITE" THEN IsBlock(r, parts[b], CutUp(c)[b])
                               ELSE IsBlock(r, CutUp(c)[b], parts[b])
  <2>1. PICK r \in Ranks : b \in Share(n, r)
    BY <1>7, EveryBlockHasOwner
  <2>2. Displ(n, r) \in Nat /\ EffectiveBlocks(n, r) \in Nat
    BY <1>7, ShareType, RanksNatural
  <2>3. PICK i \in 1 .. EffectiveBlocks(n, r) : b = Displ(n, r) + i
    <3>1. b - Displ(n, r) \in 1 .. EffectiveBlocks(n, r) /\ b = Displ(n, r) + (b - Displ(n, r))
      BY <2>1, <2>2 DEF Share
    <3> QED BY <3>1
  <2>4. parts[b] = e.gathered[r][i]
    BY <1>9, <2>3
  <2>5. ScatterPart(e.parts, r)[i] = CutUp(c)[b]
    BY <1>6, <1>8, <2>3 DEF ScatterPart
  <2>6. r \in DOMAIN e.gathered /\ i \in DOMAIN e.gathered[r]
    BY <1>6, <1>8
  <2> QED BY <1>6, <2>4, <2>5, <2>6 DEF Answers
<1>11. parts = [b \in 1 .. n |-> parts[b]]
  BY <1>7, <1>9
<1> QED BY <1>2, <1>4, <1>5, <1>7, <1>8, <1>9, <1>10, <1>11

(* The Allgatherv of a write puts its blocks in the store.                 *)
LEMMA WriteGathered ==
    ASSUME IInv, TypeInv, StoreInv, NEW p \in Ranks, FuseGather(p), fuse[p].call.type = "WRITE"
    PROVE  Held' /\ Store!CompleteWrite
<1>1. PICK c \in Calls : c = fuse[p].call /\ c.inode \in Files
  BY FuseStateFacts DEF TypeInv, ThreadsTyped, FuseGather, Calls
<1>2. PICK n, parts : n = NumberOfBlocks(c.fileSize) /\ parts = GatheredParts(p)
  OBVIOUS
<1>3. /\ p = user /\ n \in Nat /\ parts \in Seq(Addresses) /\ Len(parts) = n /\ Len(exchanges[pos[p]].parts) = n
      /\ \A b \in 1 .. n : \E r \in Ranks : IsBlock(r, parts[b], CutUp(c)[b])
  BY <1>1, <1>2, AnswerGathered DEF ContributedType
<1>4. PICK ino \in Files : ino = c.inode
  BY <1>1
<1>5. PICK list : list = Listed(blockList[p][ino], parts)
  OBVIOUS
<1>6. /\ blockList' = [blockList EXCEPT ![p][ino] = list] /\ written' = [written EXCEPT ![ino] = n]
      /\ UNCHANGED <<heap, exchanges, readBuff, issued, user>> /\ fuse[p].at = "gather"
      /\ fuse' = [fuse EXCEPT ![p] = At("loop")]
  BY <1>1, <1>2, <1>3, <1>4, <1>5 DEF FuseGather, userVars
<1>7. n <= Len(list) /\ Len(list) \in Nat /\ \A b \in 1 .. n : list[b] = parts[b]
  BY <1>3, <1>5, ListedType DEF TypeInv, StoreTyped
<1>8. blockList'[p][ino] = list /\ written'[ino] = n
  BY <1>6 DEF TypeInv, StoreTyped, StoreInv, Held
<1>9. \A f \in Files : f # ino => blockList'[p][f] = blockList[p][f] /\ written'[f] = written[f]
  BY <1>6 DEF TypeInv, StoreTyped, StoreInv, Held
<1>10. CutUp(c) = Buffer(issued, n)
  BY <1>1, <1>2 DEF CutUp
<1>11. ASSUME NEW b \in 1 .. n
       PROVE  /\ list[b].rank \in Ranks /\ IsLocal(list[b].rank, list[b])
              /\ heap[list[b].rank][list[b].id] = [write |-> issued, block |-> b]
  <2>1. PICK r \in Ranks : IsBlock(r, list[b], Buffer(issued, n)[b])
    BY <1>3, <1>7, <1>10
  <2>2. Buffer(issued, n)[b] = [write |-> issued, block |-> b]
    BY DEF Buffer
  <2> QED BY <2>1, <2>2 DEF IsBlock, IsLocal
<1>12. Valid(list, n)'
  BY <1>6, <1>7, <1>11 DEF Valid, IsLocal
<1>13. Contents(list, n)' = Buffer(issued, n)
  BY <1>6, <1>11 DEF Contents, Buffer
<1>14. StoredBlocks(ino)' = Buffer(issued, n)
  BY <1>3, <1>6, <1>8, <1>13 DEF StoredBlocks, Contents
<1>15. ASSUME NEW f \in Files, f # ino
       PROVE  Valid(blockList[user][f], written[f])' /\ StoredBlocks(f)' = StoredBlocks(f)
  <2>1. Valid(blockList[user][f], written[f])
    BY DEF StoreInv, Held
  <2> QED BY <1>3, <1>6, <1>9, <1>15, <2>1 DEF Valid, IsLocal, StoredBlocks
<1>16. Held'
  <2>1. written' \in [Files -> Nat]
    BY <1>3, <1>6 DEF StoreInv, Held
  <2>2. Valid(blockList[user][ino], written[ino])'
    BY <1>3, <1>6, <1>8, <1>12
  <2> QED BY <1>15, <2>1, <2>2 DEF Held
<1>17. StoreOfPeers' = [StoreOfPeers EXCEPT ![ino] = Buffer(issued, n)]
  BY <1>14, <1>15 DEF StoreOfPeers
<1>18. CallUnderWay = [op |-> "write", inode |-> ino, blocks |-> n]
  BY <1>1, <1>2, <1>3, <1>4, <1>6 DEF CallUnderWay, InCall
<1>19. CallUnderWay' = [op |-> "none"]
  BY <1>3, <1>6 DEF CallUnderWay, InCall, At, TypeInv, ThreadsTyped
<1>20. Store!CompleteWrite
  BY <1>6, <1>17, <1>18, <1>19 DEF Store!CompleteWrite, Store!Idle, Store!Buffer, Buffer, CallUnderWay, StoreOfPeers
<1> QED BY <1>16, <1>20

(* The Gatherv of a read gives what the store has, if it was asked for all *)
(* of it.                                                                  *)
LEMMA ReadGathered ==
    ASSUME IInv, TypeInv, StoreInv, NEW p \in Ranks, FuseGather(p), fuse[p].call.type = "READ"
    PROVE  Held' /\ Store!CompleteRead
<1>1. PICK c \in Calls : c = fuse[p].call /\ c.inode \in Files
  BY FuseStateFacts DEF TypeInv, ThreadsTyped, FuseGather, Calls
<1>2. PICK n, parts : n = NumberOfBlocks(c.fileSize) /\ parts = GatheredParts(p)
  OBVIOUS
<1>3. /\ p = user /\ n \in Nat /\ Len(parts) = n /\ parts = [b \in 1 .. n |-> parts[b]]
      /\ \A b \in 1 .. n : \E r \in Ranks : IsBlock(r, CutUp(c)[b], parts[b])
  BY <1>1, <1>2, AnswerGathered
<1>4. PICK ino \in Files : ino = c.inode
  BY <1>1
<1>5. /\ UNCHANGED <<blockList, heap, exchanges, written, issued, user>> /\ fuse[p].at = "gather"
      /\ readBuff' = parts /\ fuse' = [fuse EXCEPT ![p] = At("loop")]
  BY <1>1, <1>2 DEF FuseGather, userVars
<1>6. user \in Ranks /\ Held' /\ StoreOfPeers' = StoreOfPeers
  <2>1. user \in Ranks
    BY <1>3
  <2> QED BY <1>5, <2>1, SameHeap, HeldStays DEF StoreInv
<1>7. PICK list : list = blockList[user][ino]
  OBVIOUS
<1>8. CutUp(c) = Pointers(user, ino, n)
  BY <1>1, <1>2, <1>4 DEF CutUp
<1>9. ASSUME n = written[ino] PROVE parts = StoredBlocks(ino)
  <2>1. Valid(list, n)
    BY <1>7, <1>9 DEF StoreInv, Held
  <2>2. ASSUME NEW b \in 1 .. n PROVE parts[b] = heap[list[b].rank][list[b].id]
    <3>1. Pointers(user, ino, n)[b] = list[b]
      <4>1. list \in Seq(Addresses)
        BY <1>6, <1>7 DEF TypeInv, StoreTyped
      <4>2. b <= Len(list)
        BY <1>3, <2>1, <4>1 DEF Valid
      <4> QED BY <1>7, <4>2 DEF Pointers
    <3>2. PICK r \in Ranks : IsBlock(r, list[b], parts[b])
      BY <1>3, <1>8, <3>1
    <3> QED BY <3>2 DEF IsBlock, IsLocal
  <2>3. StoredBlocks(ino) = [b \in 1 .. n |-> heap[list[b].rank][list[b].id]]
    BY <1>7, <1>9 DEF StoredBlocks
  <2>4. [b \in 1 .. n |-> parts[b]] = [b \in 1 .. n |-> heap[list[b].rank][list[b].id]]
    BY <2>2
  <2> QED BY <1>3, <2>3, <2>4
<1>10. StoreOfPeers[ino] = StoredBlocks(ino) /\ Len(StoreOfPeers[ino]) = written[ino]
  <2>1. written[ino] \in Nat
    BY DEF StoreInv, Held
  <2>2. Len(StoredBlocks(ino)) = written[ino]
    BY <2>1 DEF StoredBlocks
  <2> QED BY <2>2, StoredContents
<1>11. CallUnderWay = [op |-> "read", inode |-> ino, blocks |-> n]
  BY <1>1, <1>2, <1>3, <1>4, <1>5 DEF CallUnderWay, InCall
<1>12. CallUnderWay' = [op |-> "none"]
  BY <1>3, <1>5 DEF CallUnderWay, InCall, At, TypeInv, ThreadsTyped
<1>13. n = Len(StoreOfPeers[ino]) => readBuff' = StoreOfPeers[ino]
  BY <1>5, <1>9, <1>10
<1>14. Store!CompleteRead
  BY <1>5, <1>6, <1>11, <1>12, <1>13
     DEF Store!CompleteRead, Store!WellAsked, Store!Idle, CallUnderWay, StoreOfPeers
<1> QED BY <1>6, <1>14

LEMMA GatherStore ==
    ASSUME IInv, TypeInv, StoreInv, NEW p \in Ranks, FuseGather(p)
    PROVE  StoreInv' /\ Store!Next
<1>1. /\ fuse[p].at = "gather" /\ fuse' = [fuse EXCEPT ![p] = At("loop")]
      /\ UNCHANGED <<heap, exchanges, tree, user>>
  BY DEF FuseGather, userVars
<1>2. p = user
  BY <1>1, WhoCalls
<1>3. fuse[p].call.type \in {"WRITE", "READ"}
  BY FuseStateFacts DEF TypeInv, ThreadsTyped, FuseGather, Calls
<1>4. Held' /\ (Store!CompleteWrite \/ Store!CompleteRead)
  BY <1>3, WriteGathered, ReadGathered
<1>5. Answered'
  BY <1>1, SameHeap, AnsweredStays DEF StoreInv
<1>6. BegunWith'
  BY <1>1, <1>2 DEF BegunWith, At, TypeInv, ThreadsTyped
<1>7. Bounded'
  BY <1>1 DEF StoreInv, Bounded
<1> QED BY <1>4, <1>5, <1>6, <1>7 DEF StoreInv, Store!Next

LEMMA InitStore == ASSUME Init PROVE StoreInv /\ Store!Init
<1>1. user = 0 /\ user \in Ranks /\ exchanges = <<>> /\ fuse[user] = At("starting") /\ tree[user] = InitialTable
  BY StripingAssumption DEF Init, Ranks
<1>2. Held
  BY <1>1 DEF Init, Held, Valid
<1>3. Answered
  BY <1>1 DEF Answered
<1>4. ~InCall(fuse[user])
  BY <1>1 DEF InCall, At
<1>5. BegunWith
  BY <1>4 DEF BegunWith, InCall
<1>6. Bounded
  BY <1>1 DEF Bounded, InitialTable, NewINode
<1>7. StoreOfPeers = [ino \in Files |-> <<>>]
  <2>1. ASSUME NEW ino \in Files PROVE StoredBlocks(ino) = <<>>
    <3>1. written[ino] = 0
      BY DEF Init
    <3> QED BY <3>1 DEF StoredBlocks
  <2> QED BY <2>1 DEF StoreOfPeers
<1>8. CallUnderWay = [op |-> "none"]
  BY <1>4 DEF CallUnderWay
<1>9. Store!Init
  BY <1>7, <1>8 DEF Init, Store!Init, Store!Idle, StoreOfPeers, CallUnderWay
<1> QED BY <1>2, <1>3, <1>5, <1>6, <1>9 DEF StoreInv

LEMMA NextStore ==
    ASSUME HasLargest, Settled, IInv, TypeInv, LocalInv, AgreeInv, StoreInv, [Next]_vars
    PROVE  StoreInv' /\ [Store!Next]_Store!vars
<1>1. CASE UNCHANGED vars \/ Terminating
  BY <1>1, StutterStore DEF Terminating
<1>2. CASE \E p \in Ranks : PeerNext(p)
  <2>1. PICK p \in Ranks : UserNext(p) \/ StartNext(p) \/ FuseNext(p) \/ RecvNext(p)
    BY <1>2 DEF PeerNext
  <2>2. CASE UserNext(p)
    BY <2>2, ChangeStore, FlushStore, OpenStore, ThreadsStore DEF UserNext
  <2>3. CASE StartNext(p)
    BY <2>3, ThreadsStore DEF StartNext
  <2>4. CASE FuseNext(p)
    BY <2>4, ScatterStore, GatherStore, ThreadsStore DEF FuseNext
  <2>5. CASE RecvNext(p)
    BY <2>5, ReplayStore, RecvScatterStore, RecvGatherStore, ThreadsStore DEF RecvNext
  <2> QED BY <2>1, <2>2, <2>3, <2>4, <2>5
<1> QED BY <1>1, <1>2 DEF Next

(***************************************************************************)
(* The peers together are the one store that the master and the nodes of   *)
(* the client-server version are: a DAGonFS_Read that a user makes through *)
(* any mount point, of as many blocks as were last written, gives back the *)
(* blocks of the last DAGonFS_Write of the file, whichever peer made it    *)
(* and wherever the blocks lie. File sizes are bounded, as an off_t is.    *)
(***************************************************************************)
THEOREM PeersAreOneStore ==
    ASSUME Settled, Repeatable, \E s \in FileSizes : \A t \in FileSizes : t <= s
    PROVE  Spec => ImplementsBlockStore
<1>1. HasLargest
  BY DEF HasLargest
<1>2. Init => TypeInv /\ LocalInv /\ StoreInv /\ Store!Init
  BY InitTyped, InitLocal, InitStore
<1>3. /\ IInv /\ TypeInv /\ AgreeInv /\ LocalInv /\ StoreInv /\ [Next]_vars
      => LocalInv' /\ StoreInv' /\ [Store!Next]_Store!vars
  BY <1>1, NextLocal, NextStore
<1> QED BY <1>2, <1>3, PeersInAgreement, PTL DEF Spec, ImplementsBlockStore, Store!Spec
=============================================================================
