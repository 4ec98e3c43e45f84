---------------------------- MODULE MCPeerToPeer ----------------------------
(* Small instances of PeerToPeer: two names, a directory below the root,   *)
(* files of one block and of more blocks than peers.                       *)
EXTENDS PeerToPeer

CONSTANTS a, b

MCNames == {a, b}
MCPaths == {<<a>>, <<b>>, <<a, b>>}
MCFileSizes == {1, 5}
Replicated == (UserKinds \ {"SYMLINK", "MKNOD", "TRUNCATE", "RENAME_DIRECTORY"})
Directories == {"CREATE_DIR"}
=============================================================================
