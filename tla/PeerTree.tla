------------------------------ MODULE PeerTree ------------------------------
(***************************************************************************)
(* The inode table of one peer of the peer-to-peer version, and what the   *)
(* handlers make of it.  Every peer has a table of its own and numbers its *)
(* inodes for itself; a change made through one mount point is repeated by *)
(* the others through theirs, on a path that the handler puts together     *)
(* from the name a directory was given when it was made (dir_name).        *)
(*                                                                         *)
(* A table t maps inode numbers to inodes; a path is a sequence of names.  *)
(* An operation o has a type, a path and, for a rename, the path it ends   *)
(* at.  Left out: m_nlookup and the queue of numbers to use again, which a *)
(* peer turns to when more than kINodeReclamationThreshold (256) removed   *)
(* files were forgotten.                                                   *)
(***************************************************************************)
EXTENDS Integers, Sequences, FiniteSets

CONSTANT Names          \* file names

Special == 0
Root == 1
NoChild == -1

(* The operations that a handler announces to the other peers; the others  *)
(* of these stay with the peer they were made at.                          *)
Announced == {"CREATE_FILE", "DELETE_FILE", "CREATE_DIR", "DELETE_DIR", "RENAME"}
TreeTypes == Announced \cup {"SYMLINK", "MKNOD", "TRUNCATE"}

Parent(path) == SubSeq(path, 1, Len(path) - 1)
Leaf(path) == path[Len(path)]
IsWithin(dir, path) == Len(dir) <= Len(path) /\ SubSeq(path, 1, Len(dir)) = dir

NewINode(type, links) == [type       |-> type,
                          st_nlink   |-> links,
                          m_children |-> [name \in Names |-> NoChild],
                          dir_name   |-> <<>>,
                          st_size    |-> 0,
                          st_blocks  |-> 0]

IsDirectory(t, ino) == ino # NoChild /\ t[ino].type = "DIRECTORY"
IsFile(t, ino) == ino # NoChild /\ t[ino].type = "REGULAR_FILE"

ChildINodeNumberWithName(t, ino, name) ==
    IF IsDirectory(t, ino) THEN t[ino].m_children[name] ELSE NoChild

(* The inode at the end of a path, as the kernel looks it up. *)
INodeAt(t, path) ==
    LET at[i \in 0 .. Len(path)] ==
            IF i = 0 THEN Root ELSE ChildINodeNumberWithName(t, at[i - 1], path[i])
    IN  at[Len(path)]

HasChildren(t, ino) == \E name \in Names : t[ino].m_children[name] # NoChild
-----------------------------------------------------------------------------
(* The kernel asks the handler for these only; the rest it refuses.        *)
Makes == {"CREATE_FILE", "CREATE_DIR", "SYMLINK", "MKNOD"}
KernelRenames(t, o) ==
    LET ino    == INodeAt(t, o.path)
        target == INodeAt(t, o.to)
    IN  /\ ino # NoChild
        /\ IsDirectory(t, INodeAt(t, Parent(o.to)))
        /\ ino # target
        /\ target # NoChild => IsDirectory(t, ino) = IsDirectory(t, target)
        /\ ~IsWithin(o.path, o.to) /\ ~IsWithin(o.to, o.path)

KernelAllows(t, o) ==
    LET ino == INodeAt(t, o.path)
    IN  /\ IsDirectory(t, INodeAt(t, Parent(o.path)))
        /\ o.type \in Makes => ino = NoChild
        /\ o.type = "DELETE_FILE" => ino # NoChild /\ ~IsDirectory(t, ino)
        /\ o.type = "TRUNCATE" => IsFile(t, ino)
        /\ o.type = "DELETE_DIR" => IsDirectory(t, ino)
        /\ o.type = "RENAME" => KernelRenames(t, o)

(* FuseRmdir ends early for a directory with entries.                      *)
HandlerAllows(t, o) == o.type = "DELETE_DIR" => ~HasChildren(t, INodeAt(t, o.path))
-----------------------------------------------------------------------------
(* The handlers.                                                           *)

(* Slip: one number is left out. *)
NextINode_skipsOne(t) == Cardinality(DOMAIN t) + 1

(* RegisterINode: the next number is the size of the vector. *)
NextINode(t) == Cardinality(DOMAIN t)
Registered(t, inode) ==
    [ino \in DOMAIN t \cup {NextINode(t)} |-> IF ino = NextINode(t) THEN inode ELSE t[ino]]

(* Insert the new inode at the path.                                       *)
Inserted(t, path, inode) ==
    [Registered(t, inode) EXCEPT ![INodeAt(t, Parent(path))].m_children[Leaf(path)] = NextINode(t)]

FuseCreate(t, path) == Inserted(t, path, NewINode("REGULAR_FILE", 1))
FuseMknod(t, path) == Inserted(t, path, NewINode("REGULAR_FILE", 1))
FuseSymlink(t, path) == Inserted(t, path, NewINode("SYMBOLIC_LINK", 1))

FuseMkdir(t, path) ==
    LET parent == INodeAt(t, Parent(path))
        dir    == [NewINode("DIRECTORY", 2) EXCEPT !.dir_name = Append(t[parent].dir_name, Leaf(path))]
    IN  [Inserted(t, path, dir) EXCEPT ![parent].st_nlink = @ + 1]

FuseUnlink(t, path) ==
    [t EXCEPT ![INodeAt(t, path)].st_nlink = @ - 1,
              ![INodeAt(t, Parent(path))].m_children[Leaf(path)] = NoChild]

FuseRmdir(t, path) ==
    LET dir      == INodeAt(t, Parent(path))
        unlinked == [[t EXCEPT ![INodeAt(t, path)].st_nlink = 0] EXCEPT ![dir].st_nlink = @ - 1]
    IN  [unlinked EXCEPT ![dir].m_children[Leaf(path)] = NoChild]

(* The dir_name of a directory that is renamed stays what it was. *)
FuseRename(t, path, to) ==
    LET dir     == INodeAt(t, Parent(path))
        newdir  == INodeAt(t, Parent(to))
        ino     == INodeAt(t, path)
        relinked == IF IsDirectory(t, INodeAt(t, to))
                    THEN [[t EXCEPT ![dir].st_nlink = @ - 1] EXCEPT ![newdir].st_nlink = @ + 1]
                    ELSE t
    IN  [[relinked EXCEPT ![newdir].m_children[Leaf(to)] = ino]
             EXCEPT ![dir].m_children[Leaf(path)] = NoChild]

(* FuseOpen with O_TRUNC. *)
Truncated(t, path) == [t EXCEPT ![INodeAt(t, path)].st_size = 0,
                                ![INodeAt(t, path)].st_blocks = 0]

Applied(t, o) ==
    CASE o.type = "CREATE_FILE" -> FuseCreate(t, o.path)
      [] o.type = "DELETE_FILE" -> FuseUnlink(t, o.path)
      [] o.type = "CREATE_DIR"  -> FuseMkdir(t, o.path)
      [] o.type = "DELETE_DIR"  -> FuseRmdir(t, o.path)
      [] o.type = "RENAME"      -> FuseRename(t, o.path, o.to)
      [] o.type = "SYMLINK"     -> FuseSymlink(t, o.path)
      [] o.type = "MKNOD"       -> FuseMknod(t, o.path)
      [] o.type = "TRUNCATE"    -> Truncated(t, o.path)

(* FuseInit. *)
InitialTable == [ino \in {Special, Root} |->
                    IF ino = Special THEN NewINode("SPECIAL", 0) ELSE NewINode("DIRECTORY", 3)]
-----------------------------------------------------------------------------
(* Slip: only the name is sent. *)
SentPath_nameOnly(t, path) == <<Leaf(path)>>

(* The paths a handler sends: dir_name of the directory and the name, or,  *)
(* for rmdir, the dir_name of the directory that is removed.               *)
SentPath(t, path) == Append(t[INodeAt(t, Parent(path))].dir_name, Leaf(path))
Announcement(t, o) ==
    [type |-> o.type,
     path |-> IF o.type = "DELETE_DIR" THEN t[INodeAt(t, o.path)].dir_name ELSE SentPath(t, o.path),
     to   |-> IF o.type = "RENAME" THEN SentPath(t, o.to) ELSE <<>>]
=============================================================================
