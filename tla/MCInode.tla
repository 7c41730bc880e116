------------------------------- MODULE MCInode ------------------------------
(* Instance of Inode: two processes, a root with two names and directories *)
(* below it, and inodes that run out.                                      *)
EXTENDS Inode, TLC

CONSTANTS t1, t2

Abs(p) == [abs |-> TRUE, elems |-> p]
Rel(p) == [abs |-> FALSE, elems |-> p]

MCPaths == {Abs(<<"a", "b">>), Rel(<<"a">>)}
Symm == Permutations(Threads)
=============================================================================
