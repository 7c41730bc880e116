------------------------------- MODULE MCDisk -------------------------------
(* Instance of Disk.  With five descriptors alloc3_desc() fails half way   *)
(* while another request is in flight; with six, two requests are in       *)
(* flight and complete in either order.                                    *)
EXTENDS Disk

CONSTANTS t1, t2, b1, b2, k1, k2, d1, d2
=============================================================================
