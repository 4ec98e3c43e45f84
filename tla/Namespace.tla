----------------------------- MODULE Namespace -----------------------------
(***************************************************************************)
(* The inode table and the directory tree of the client-server version:    *)
(* Nodes, INode, Directory and the handlers of FileSystem that make, name, *)
(* look up, forget and remove inodes.  The FUSE loop is single-threaded,   *)
(* so a handler is one step.                                               *)
(*                                                                         *)
(* Two counts decide when an inode number may be used again: st_nlink, the *)
(* names (and, for a directory, subdirectories) of an inode, and m_nlookup,*)
(* the references the kernel holds.  An inode with neither goes into the   *)
(* queue DeletedINodes when the kernel forgets it.                         *)
(*                                                                         *)
(* The kernel is the only caller.  It looks every name up before it acts   *)
(* on it, so that it never makes a name that is there, or removes one that *)
(* is not; it does not act in a removed directory.                         *)
(***************************************************************************)
EXTENDS Integers, Sequences, FiniteSets

CONSTANTS Names,        \* file names
          MaxINodes,    \* bound on the size of the inode table
          MaxLookups,   \* bound on the references the kernel holds to an inode
          Threshold,    \* kINodeReclamationThreshold
          LinkModulus,  \* st_nlink is an unsigned integer: 2^w
          Renames       \* the renames users make, of RenameKinds

(* A rename to a free name that leaves a directory in its parent; one that *)
(* moves a directory to another; one to a name that is in use.             *)
RenameKinds == {"rename", "move_directory", "replace"}

ASSUME NamespaceAssumption == /\ MaxINodes \in Nat
                              /\ MaxLookups \in Nat
                              /\ Threshold \in Nat
                              /\ LinkModulus \in Nat /\ LinkModulus > 3
                              /\ Renames \subseteq RenameKinds

VARIABLES INodes,               \* the table: inode number -> inode
          DeletedINodes,        \* the queue of numbers to use again
          m_reclaimingINodes    \* are they being used again?

vars == <<INodes, DeletedINodes, m_reclaimingINodes>>

Special == 0
Root == 1
NoChild == -1
Types == {"SPECIAL", "DIRECTORY", "REGULAR_FILE", "SYMBOLIC_LINK"}

(* An inode as InitializeINode leaves it; the constructor did the rest.    *)
NewINode(type, links) == [type              |-> type,
                          st_nlink          |-> links,
                          m_nlookup         |-> 0,
                          markedForDeletion |-> FALSE,
                          m_children        |-> [name \in Names |-> NoChild]]
-----------------------------------------------------------------------------
(* What the methods of INode and Directory make of the table t. *)

Lookup(t, ino) == [t EXCEPT ![ino].m_nlookup = @ + 1]

AddHardLink(t, ino) == [t EXCEPT ![ino].st_nlink = (@ + 1) % LinkModulus]

(* Slip: the last link but one already marks the inode. *)
RemoveHardLink_atOne(t, ino) ==
    LET left == (t[ino].st_nlink - 1) % LinkModulus
    IN  [t EXCEPT ![ino].st_nlink = left,
                  ![ino].markedForDeletion = @ \/ left <= 1]

(* The count is unsigned: what lies below 0 is the largest count there is. *)
RemoveHardLink(t, ino) ==
    LET left == (t[ino].st_nlink - 1) % LinkModulus
    IN  [t EXCEPT ![ino].st_nlink = left,
                  ![ino].markedForDeletion = @ \/ left = 0]

(* The loop of rmdir: RemoveHardLink until there are none. *)
RemoveAllHardLinks(t, ino) ==
    [t EXCEPT ![ino].markedForDeletion = @ \/ t[ino].st_nlink # 0,
              ![ino].st_nlink = 0]

UpdateChild(t, dir, name, ino) == [t EXCEPT ![dir].m_children[name] = ino]
DeleteChild(t, dir, name) == [t EXCEPT ![dir].m_children[name] = NoChild]
ChildINodeNumberWithName(dir, name) == INodes[dir].m_children[name]
HasChildren(ino) == \E name \in Names : INodes[ino].m_children[name] # NoChild

IsDirectory(ino) == INodes[ino].type = "DIRECTORY"
HasNoLinks(ino) == INodes[ino].st_nlink = 0
-----------------------------------------------------------------------------
(* RegisterINode: the number it gives out, and the table it leaves.        *)
Reclaiming == m_reclaimingINodes /\ DeletedINodes # <<>>

(* Slip: a vector is counted from one. *)
NextINode_fromOne == IF Reclaiming THEN Head(DeletedINodes) ELSE Cardinality(DOMAIN INodes) + 1
NextINode == IF Reclaiming THEN Head(DeletedINodes) ELSE Cardinality(DOMAIN INodes)
Registered(t, type, links) ==
    [ino \in DOMAIN t \cup {NextINode} |->
        IF ino = NextINode THEN NewINode(type, links) ELSE t[ino]]

(* Slip: the deleted inode is looked at but stays in the queue. *)
RegisterINode_notPopped == /\ m_reclaimingINodes' = Reclaiming
                           /\ DeletedINodes' = DeletedINodes

RegisterINode == /\ m_reclaimingINodes' = Reclaiming
                 /\ DeletedINodes' = IF Reclaiming THEN Tail(DeletedINodes) ELSE DeletedINodes
-----------------------------------------------------------------------------
(* What the kernel knows and asks. *)

NamesOf(ino) == {entry \in (DOMAIN INodes) \X Names :
                    INodes[entry[1]].m_children[entry[2]] = ino}
Named(ino) == ino = Root \/ NamesOf(ino) # {}
Held(ino) == ino = Root \/ INodes[ino].m_nlookup > 0

(* A directory the kernel works in. *)
Usable(dir) == IsDirectory(dir) /\ Named(dir) /\ Held(dir)
Free(dir, name) == ChildINodeNumberWithName(dir, name) = NoChild
(* A name that the kernel has looked up, and that still stands for ino.    *)
Found(dir, name, ino) == ~Free(dir, name) /\ ino = ChildINodeNumberWithName(dir, name) /\ Held(ino)

(* dir is ino or lies in the tree below it. *)
Within(ino, dir) ==
    \A S \in SUBSET DOMAIN INodes :
        (dir \in S /\ \A q \in S : \A entry \in NamesOf(q) : entry[1] \in S) => ino \in S

RoomForINode == Reclaiming \/ Cardinality(DOMAIN INodes) < MaxINodes
RoomForLookup(ino) == INodes[ino].m_nlookup < MaxLookups

RenameKind(dir, ino, newdir, newname) ==
    IF ~Free(newdir, newname) THEN "replace"
    ELSE IF IsDirectory(ino) /\ dir # newdir THEN "move_directory" ELSE "rename"

KernelMakes(dir, name) == Usable(dir) /\ Free(dir, name)
KernelRenames(dir, name, newdir, newname) ==
    LET ino    == ChildINodeNumberWithName(dir, name)
        target == ChildINodeNumberWithName(newdir, newname)
    IN  /\ Usable(dir) /\ Found(dir, name, ino)
        /\ Usable(newdir)
        /\ ~(IsDirectory(ino) /\ Within(ino, newdir))
        /\ ~Free(newdir, newname) => /\ target # ino
                                     /\ Held(target)
                                     /\ IsDirectory(target) = IsDirectory(ino)
                                     /\ ~Within(target, dir)
        /\ RenameKind(dir, ino, newdir, newname) \in Renames
-----------------------------------------------------------------------------
(* FuseInit. *)
Init == /\ INodes = [ino \in {Special, Root} |->
                        IF ino = Special THEN NewINode("SPECIAL", 0) ELSE NewINode("DIRECTORY", 3)]
        /\ DeletedINodes = <<>>
        /\ m_reclaimingINodes = FALSE

FuseLookup(parent, name) ==
    LET ino == ChildINodeNumberWithName(parent, name)
    IN  /\ ~Free(parent, name)
        /\ RoomForLookup(ino)
        /\ INodes' = Lookup(INodes, ino)
        /\ UNCHANGED <<DeletedINodes, m_reclaimingINodes>>

(* Slip: the links that are left are not looked at. *)
FuseForget_linked(ino, n) ==
    /\ INodes' = [INodes EXCEPT ![ino].m_nlookup = @ - n]
    /\ IF INodes[ino].m_nlookup = n
       THEN /\ DeletedINodes' = Append(DeletedINodes, ino)
            /\ m_reclaimingINodes' = (m_reclaimingINodes \/ Len(DeletedINodes) + 1 > Threshold)
       ELSE UNCHANGED <<DeletedINodes, m_reclaimingINodes>>

FuseForget(ino, n) ==
    /\ INodes' = [INodes EXCEPT ![ino].m_nlookup = @ - n]
    /\ IF INodes[ino].m_nlookup = n /\ HasNoLinks(ino)
       THEN /\ DeletedINodes' = Append(DeletedINodes, ino)
            /\ m_reclaimingINodes' = (m_reclaimingINodes \/ Len(DeletedINodes) + 1 > Threshold)
       ELSE UNCHANGED <<DeletedINodes, m_reclaimingINodes>>

(* mknod of a file or a directory; any other kind is refused.              *)
FuseMknod(parent, name, type) ==
    LET t == IF type = "DIRECTORY"
             THEN Registered(AddHardLink(INodes, parent), type, 2)
             ELSE Registered(INodes, type, 1)
    IN  /\ type \in {"DIRECTORY", "REGULAR_FILE"}
        /\ INodes' = Lookup(UpdateChild(t, parent, name, NextINode), NextINode)
        /\ RegisterINode

(* Slip: the new directory's .. is not counted. *)
FuseMkdir_parentNotLinked(parent, name) ==
    LET t == UpdateChild(Registered(INodes, "DIRECTORY", 2), parent, name, NextINode)
    IN  /\ INodes' = Lookup(t, NextINode)
        /\ RegisterINode

FuseMkdir(parent, name) ==
    LET t == UpdateChild(Registered(INodes, "DIRECTORY", 2), parent, name, NextINode)
    IN  /\ INodes' = Lookup(AddHardLink(t, parent), NextINode)
        /\ RegisterINode

FuseSymlink(parent, name) ==
    LET t == UpdateChild(Registered(INodes, "SYMBOLIC_LINK", 1), parent, name, NextINode)
    IN  /\ INodes' = Lookup(t, NextINode)
        /\ RegisterINode

FuseCreate(parent, name) ==
    LET t == UpdateChild(Registered(INodes, "REGULAR_FILE", 1), parent, name, NextINode)
    IN  /\ INodes' = Lookup(t, NextINode)
        /\ RegisterINode

FuseUnlink(parent, name) ==
    LET ino == ChildINodeNumberWithName(parent, name)
    IN  /\ ~Free(parent, name)
        /\ INodes' = DeleteChild(RemoveHardLink(INodes, ino), parent, name)
        /\ UNCHANGED <<DeletedINodes, m_reclaimingINodes>>

(* Slip: a directory with entries is removed. *)
FuseRmdir_notEmpty(parent, name) ==
    LET ino == ChildINodeNumberWithName(parent, name)
    IN  /\ ~Free(parent, name)
        /\ IsDirectory(ino)
        /\ INodes' = DeleteChild(RemoveAllHardLinks(RemoveHardLink(INodes, parent), ino),
                                 parent, name)
        /\ UNCHANGED <<DeletedINodes, m_reclaimingINodes>>

FuseRmdir(parent, name) ==
    LET ino == ChildINodeNumberWithName(parent, name)
    IN  /\ ~Free(parent, name)
        /\ IsDirectory(ino)
        /\ ~HasChildren(ino)
        /\ INodes' = DeleteChild(RemoveAllHardLinks(RemoveHardLink(INodes, parent), ino),
                                 parent, name)
        /\ UNCHANGED <<DeletedINodes, m_reclaimingINodes>>

(* A directory that is replaced moves a link from the one parent to the    *)
(* other; the links of what is replaced, or moved, are not touched.        *)
FuseRename(parent, name, newparent, newname) ==
    LET ino      == ChildINodeNumberWithName(parent, name)
        existing == ChildINodeNumberWithName(newparent, newname)
        t == IF existing > 0 /\ IsDirectory(existing)
             THEN AddHardLink(RemoveHardLink(INodes, parent), newparent)
             ELSE INodes
    IN  /\ ~Free(parent, name)
        /\ INodes' = DeleteChild(UpdateChild(t, newparent, newname, ino), parent, name)
        /\ UNCHANGED <<DeletedINodes, m_reclaimingINodes>>

(* EEXIST is replied for a name in use, and the link is made all the same. *)
FuseLink(ino, newparent, newname) ==
    /\ RoomForLookup(ino)
    /\ INodes' = Lookup(AddHardLink(UpdateChild(INodes, newparent, newname, ino), ino), ino)
    /\ UNCHANGED <<DeletedINodes, m_reclaimingINodes>>
-----------------------------------------------------------------------------
Make == \E dir \in DOMAIN INodes, name \in Names :
           /\ KernelMakes(dir, name)
           /\ RoomForINode
           /\ \/ \E type \in {"DIRECTORY", "REGULAR_FILE"} : FuseMknod(dir, name, type)
              \/ FuseMkdir(dir, name)
              \/ FuseSymlink(dir, name)
              \/ FuseCreate(dir, name)

LookUp == \E dir \in DOMAIN INodes, name \in Names :
             Usable(dir) /\ FuseLookup(dir, name)

Forget == \E ino \in DOMAIN INodes \ {Special, Root} :
             \E n \in 1 .. INodes[ino].m_nlookup : FuseForget(ino, n)

Link == \E ino, dir \in DOMAIN INodes, name \in Names :
           /\ ~IsDirectory(ino) /\ Held(ino) /\ Named(ino)
           /\ KernelMakes(dir, name)
           /\ FuseLink(ino, dir, name)

Remove == \E dir, ino \in DOMAIN INodes, name \in Names :
             /\ Usable(dir) /\ Found(dir, name, ino)
             /\ IF IsDirectory(ino) THEN FuseRmdir(dir, name) ELSE FuseUnlink(dir, name)

Rename == \E dir, newdir \in DOMAIN INodes, name, newname \in Names :
             /\ KernelRenames(dir, name, newdir, newname)
             /\ FuseRename(dir, name, newdir, newname)

Next == Make \/ LookUp \/ Forget \/ Link \/ Remove \/ Rename

Spec == Init /\ [][Next]_vars
-----------------------------------------------------------------------------
(* Properties. *)

INodeRecords(numbers) ==
    [type : Types, st_nlink : 0 .. LinkModulus - 1, m_nlookup : 0 .. MaxLookups,
     markedForDeletion : BOOLEAN, m_children : [Names -> numbers \cup {NoChild}]]

TypeOK == /\ \E n \in 2 .. MaxINodes \cup {2} : DOMAIN INodes = 0 .. n - 1
          /\ INodes \in [DOMAIN INodes -> INodeRecords(DOMAIN INodes)]
          /\ DeletedINodes \in Seq(DOMAIN INodes)
          /\ m_reclaimingINodes \in BOOLEAN

Subdirectories(dir) == {name \in Names : /\ ~Free(dir, name)
                                         /\ IsDirectory(ChildINodeNumberWithName(dir, name))}

(***************************************************************************)
(* st_nlink is kept by increments in one handler and decrements in         *)
(* another, never recomputed: it is nevertheless the number of names of a  *)
(* file, and of names, "." and ".." of a directory (the root was given     *)
(* three).                                                                 *)
(***************************************************************************)
LinkCount(ino) ==
    IF ~IsDirectory(ino) THEN Cardinality(NamesOf(ino))
    ELSE IF Named(ino) THEN (IF ino = Root THEN 3 ELSE 2) + Cardinality(Subdirectories(ino))
    ELSE 0
LinkCountsExact == \A ino \in DOMAIN INodes \ {Special} : INodes[ino].st_nlink = LinkCount(ino)

(***************************************************************************)
(* The queue holds no number twice, and exactly the numbers that neither   *)
(* the kernel nor a directory knows: one too many and two files share an   *)
(* inode, one too few and an inode is lost for good.                       *)
(***************************************************************************)
InQueue(ino) == \E i \in 1 .. Len(DeletedINodes) : DeletedINodes[i] = ino
NoNumberTwice == \A i, j \in 1 .. Len(DeletedINodes) :
                     DeletedINodes[i] = DeletedINodes[j] => i = j
QueueUnused == \A ino \in DOMAIN INodes : InQueue(ino) => ~Named(ino) /\ ~Held(ino)
NoINodeLost == \A ino \in DOMAIN INodes \ {Special} :
                   ~Named(ino) /\ ~Held(ino) => InQueue(ino)
QueueExact == NoNumberTwice /\ QueueUnused /\ NoINodeLost

(* FuseAccess answers ENOENT for an inode with the flag set: none that has *)
(* a name may have it.                                                     *)
DeletedHaveNoName == \A ino \in DOMAIN INodes : INodes[ino].markedForDeletion => ~Named(ino)

(***************************************************************************)
(* Directories form a tree: none has two names, and every one that has a   *)
(* name hangs below the root.  hasChildren is the only guard that keeps    *)
(* rmdir from cutting a branch off.                                        *)
(***************************************************************************)
Tree == \A ino \in DOMAIN INodes :
           /\ IsDirectory(ino) => Cardinality(NamesOf(ino)) <= 1
           /\ Named(ino) => Within(Root, ino)

(***************************************************************************)
(* What survives renames over names in use, where the counts go wrong but  *)
(* only upwards: no inode has fewer links than its count should say, and   *)
(* what is in the queue, or given out again, is not in use.                *)
(***************************************************************************)
LinksNeverShort == \A ino \in DOMAIN INodes \ {Special} : INodes[ino].st_nlink >= LinkCount(ino)

(***************************************************************************)
(* A number that RegisterINode gives out again was not in use: no name and *)
(* no reference of the kernel changes its meaning under its user.          *)
(***************************************************************************)
ReusedWereUnused ==
    [][Len(DeletedINodes') < Len(DeletedINodes) =>
          LET ino == Head(DeletedINodes) IN ~Named(ino) /\ ~Held(ino)]_vars
=============================================================================
