----------------------------- MODULE AtomicDisk -----------------------------
(* What the file system expects of the log: blocks of which the operations *)
(* write a current version, and a durable version that changes as a whole, *)
(* when no operation is in progress, and that a crash falls back to.       *)

CONSTANTS Threads, Blocks, Data

VARIABLES durable, \* what the disk holds after a crash
          view,    \* what a reader sees
          active   \* the threads between begin_op() and end_op()

vars == <<durable, view, active>>

Init == /\ durable \in [Blocks -> Data]
        /\ view = durable
        /\ active = {}

Begin(t) == /\ t \notin active
            /\ active' = active \cup {t}
            /\ UNCHANGED <<durable, view>>

Write(t, b, d) == /\ t \in active
                  /\ view' = [view EXCEPT ![b] = d]
                  /\ UNCHANGED <<durable, active>>

End(t) == /\ t \in active
          /\ active' = active \ {t}
          /\ UNCHANGED <<durable, view>>

Commit == /\ active = {}
          /\ durable' = view
          /\ UNCHANGED <<view, active>>

Crash == /\ view' = durable
         /\ active' = {}
         /\ UNCHANGED durable

Next == \/ \E t \in Threads : Begin(t) \/ End(t)
        \/ \E t \in Threads, b \in Blocks, d \in Data : Write(t, b, d)
        \/ Commit
        \/ Crash

Spec == Init /\ [][Next]_vars
=============================================================================
