---------------------------- MODULE MCFileTable -----------------------------
(* Instance of FileTable: two processes that share files by fork, too      *)
(* few files and descriptors for what they ask.                            *)
EXTENDS FileTable
=============================================================================
