------------------------------ MODULE MCSched -------------------------------
(* Instances of Sched for TLC: the mixes of system calls they make. *)
EXTENDS Sched

Parents == {"wait", "kill", "exit"}
NoSleep == Parents \cup {"getpid"}
EveryCall == NoSleep \cup {"sleep", "ps_info"}
=============================================================================
