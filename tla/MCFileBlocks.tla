--------------------------- MODULE MCFileBlocks -----------------------------
(* Instance of FileBlocks: two processes share the offset of f1; f2 is     *)
(* another file on a disk with room for one full file only.                *)
EXTENDS FileBlocks, TLC

MCIno == [f \in Files |-> f]
Symm == Permutations(Procs)
=============================================================================
