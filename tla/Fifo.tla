-------------------------------- MODULE Fifo --------------------------------
(* What a pipe promises: a bounded queue of bytes with two ends that close. *)
EXTENDS Naturals, Sequences

CONSTANTS Bytes, Capacity

VARIABLES queue, readopen, writeopen

vars == <<queue, readopen, writeopen>>

Init == queue = << >> /\ readopen = TRUE /\ writeopen = TRUE

Put(ch) == /\ readopen /\ writeopen
           /\ Len(queue) < Capacity
           /\ queue' = Append(queue, ch)
           /\ UNCHANGED <<readopen, writeopen>>

Get == /\ readopen /\ queue # << >>
       /\ queue' = Tail(queue)
       /\ UNCHANGED <<readopen, writeopen>>

CloseRead == readopen' = FALSE /\ UNCHANGED <<queue, writeopen>>

CloseWrite == writeopen' = FALSE /\ UNCHANGED <<queue, readopen>>

Next == (\E ch \in Bytes : Put(ch)) \/ Get \/ CloseRead \/ CloseWrite

Spec == Init /\ [][Next]_vars
=============================================================================
