------------------------------ MODULE MCConsole -----------------------------
(* Instance of Console: buffers of two or three slots whose indices wrap   *)
(* around, and one byte of each FIFO for each processor that may use it.   *)
EXTENDS Console

CONSTANTS r1, w1, x
=============================================================================
