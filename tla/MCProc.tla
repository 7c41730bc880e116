------------------------------- MODULE MCProc -------------------------------
(* The instance of Proc for TLC: processes make every system call. *)
EXTENDS Proc

EveryCall == {"fork", "clone", "exit", "wait", "kill", "ps_list"}
=============================================================================
