-------------------------------- MODULE MCVm --------------------------------
(* Instance of Vm: two processes in a memory that one exec() or one fork() *)
(* nearly fills, so that each kalloc() of every call fails in some run.    *)
EXTENDS Vm

CONSTANTS a, b

MCIncrements == {1, 3, -1, -2}

(* A text segment; text and data that end inside the same page. *)
MCPrograms ==
  {<<[vaddr |-> 0, end |-> 1, perm |-> {"X"}],
     [vaddr |-> 2, end |-> 4, perm |-> {"W"}]>>}
=============================================================================
