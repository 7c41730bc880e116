-------------------------------- MODULE Pipe --------------------------------
(* A pipe of kernel/pipe.c.  pi->lock is held from the acquire() of a call *)
(* to its sleep() or return; killed() and the copies between kernel and    *)
(* user memory are outside its protection.                                 *)
EXTENDS Integers, Sequences

CONSTANTS Readers, Writers,  \* the threads that use the two ends
          Killable,          \* the threads kill() may name
          Bytes,             \* contents of a byte
          PIPESIZE,
          UINT,              \* the number of values of a uint
          MaxCount           \* bytes in a call

Threads == Readers \cup Writers

ASSUME PipeAssumption ==
  /\ PIPESIZE \in Nat \ {0} /\ UINT \in Nat \ {0} /\ MaxCount \in Nat
  /\ UINT % PIPESIZE = 0 /\ UINT > PIPESIZE
  /\ Readers \cap Writers = {}

VARIABLES
  data, nread, nwrite, readopen, writeopen,  \* struct pipe
  lock,                                      \* who holds pi->lock (none or one)
  killed,                                    \* the threads that have been killed
  pc, n, i                                   \* where a thread is, and its locals

pipeVars == <<data, nread, nwrite>>
openVars == <<readopen, writeopen>>
vars == <<pipeVars, openVars, lock, killed, pc, n, i>>

Pcs == {"user", "write", "write_sleep", "write_asleep", "write_woken",
        "read", "read_sleep", "read_asleep", "read_woken", "copy"}

Goto(t, l) == pc' = [pc EXCEPT ![t] = l]

(* A call releases pi->lock and gives up its locals. *)
Return(t) == /\ lock' = {}
             /\ n' = [n EXCEPT ![t] = 0] /\ i' = [i EXCEPT ![t] = 0]

(* Thread t wakes the threads asleep at l and goes on to m. *)
WakeupGoto(l, w, t, m) ==
  pc' = [u \in Threads |-> IF u = t THEN m ELSE IF pc[u] = l THEN w ELSE pc[u]]

(* Mutant: the wrong channel. *)
WakeReaders_Writers(t, m) == WakeupGoto("write_asleep", "write_woken", t, m)

(* wakeup(&pi->nread) and wakeup(&pi->nwrite) *)
WakeReaders(t, m) == WakeupGoto("read_asleep", "read_woken", t, m)
WakeWriters(t, m) == WakeupGoto("write_asleep", "write_woken", t, m)

(* Mutant: off by one. *)
Full_PlusOne == nwrite = (nread + PIPESIZE + 1) % UINT

Empty == nread = nwrite
Full == nwrite = (nread + PIPESIZE) % UINT
More(t) == i[t] < n[t]

Init == /\ data \in [0 .. PIPESIZE - 1 -> Bytes]   \* kalloc() fills it with junk
        /\ nread = 0 /\ nwrite = 0 /\ readopen = TRUE /\ writeopen = TRUE
        /\ lock = {} /\ killed = {}
        /\ pc = [t \in Threads |-> "user"]
        /\ n = [t \in Threads |-> 0] /\ i = [t \in Threads |-> 0]

-----------------------------------------------------------------------------
(* pipewrite() *)

pipewrite(t, k) ==
  /\ t \in Writers /\ writeopen /\ pc[t] = "user" /\ lock = {}
  /\ t \notin killed
  /\ lock' = {t} /\ Goto(t, "write")
  /\ n' = [n EXCEPT ![t] = k] /\ i' = [i EXCEPT ![t] = 0]
  /\ UNCHANGED <<pipeVars, openVars, killed>>

(* The reading end is closed, or the writer has been killed. *)
WriteFails(t) ==
  /\ pc[t] = "write" /\ More(t)
  /\ ~readopen \/ t \in killed
  /\ Return(t) /\ Goto(t, "user")
  /\ UNCHANGED <<pipeVars, openVars, killed>>

WriteFull(t) ==
  /\ pc[t] = "write" /\ More(t) /\ readopen /\ t \notin killed
  /\ Full
  /\ WakeReaders(t, "write_sleep")
  /\ UNCHANGED <<pipeVars, openVars, lock, killed, n, i>>

(* copyin() and the store. *)
WriteByte(t, ch) ==
  /\ pc[t] = "write" /\ More(t) /\ readopen /\ t \notin killed
  /\ ~Full
  /\ data' = [data EXCEPT ![nwrite % PIPESIZE] = ch]
  /\ nwrite' = (nwrite + 1) % UINT
  /\ i' = [i EXCEPT ![t] = @ + 1]
  /\ UNCHANGED <<nread, openVars, lock, killed, pc, n>>

(* All bytes are written, or copyin() fails. *)
WriteReturns(t) ==
  /\ pc[t] = "write"
  /\ ~More(t) \/ (readopen /\ t \notin killed /\ ~Full)
  /\ Return(t) /\ WakeReaders(t, "user")
  /\ UNCHANGED <<pipeVars, openVars, killed>>

-----------------------------------------------------------------------------
(* piperead() *)

piperead(t, k) ==
  /\ t \in Readers /\ readopen /\ pc[t] = "user" /\ lock = {}
  /\ t \notin killed
  /\ lock' = {t} /\ Goto(t, "read")
  /\ n' = [n EXCEPT ![t] = k] /\ i' = [i EXCEPT ![t] = 0]
  /\ UNCHANGED <<pipeVars, openVars, killed>>

(* The condition of the first loop. *)
NothingYet == Empty /\ writeopen

ReadFails(t) ==
  /\ pc[t] = "read" /\ NothingYet /\ t \in killed
  /\ Return(t) /\ Goto(t, "user")
  /\ UNCHANGED <<pipeVars, openVars, killed>>

ReadEmpty(t) ==
  /\ pc[t] = "read" /\ NothingYet /\ t \notin killed
  /\ Goto(t, "read_sleep")
  /\ UNCHANGED <<pipeVars, openVars, lock, killed, n, i>>

ReadReady(t) ==
  /\ pc[t] = "read" /\ ~NothingYet
  /\ Goto(t, "copy")
  /\ UNCHANGED <<pipeVars, openVars, lock, killed, n, i>>

(* A byte is taken and copyout() succeeds. *)
ReadByte(t) ==
  /\ pc[t] = "copy" /\ More(t) /\ ~Empty
  /\ nread' = (nread + 1) % UINT
  /\ i' = [i EXCEPT ![t] = @ + 1]
  /\ UNCHANGED <<data, nwrite, openVars, lock, killed, pc, n>>

(* A byte is taken and copyout() fails. *)
CopyoutFails(t) ==
  /\ pc[t] = "copy" /\ More(t) /\ ~Empty
  /\ nread' = (nread + 1) % UINT
  /\ Return(t) /\ WakeWriters(t, "user")
  /\ UNCHANGED <<data, nwrite, openVars, killed>>

ReadReturns(t) ==
  /\ pc[t] = "copy"
  /\ ~More(t) \/ Empty
  /\ Return(t) /\ WakeWriters(t, "user")
  /\ UNCHANGED <<pipeVars, openVars, killed>>

-----------------------------------------------------------------------------
(* sleep(), kill() and pipeclose() *)

(* The end of sleep() that releases pi->lock. *)
Sleep(t) ==
  /\ \/ pc[t] = "write_sleep" /\ Goto(t, "write_asleep")
     \/ pc[t] = "read_sleep" /\ Goto(t, "read_asleep")
  /\ lock' = {}
  /\ UNCHANGED <<pipeVars, openVars, killed, n, i>>

(* Mutant: piperead() tests the pipe once, before it sleeps. *)
Resume_NoRecheck(t) ==
  /\ lock = {}
  /\ \/ pc[t] = "write_woken" /\ Goto(t, "write")
     \/ pc[t] = "read_woken" /\ Goto(t, "copy")
  /\ lock' = {t}
  /\ UNCHANGED <<pipeVars, openVars, killed, n, i>>

(* A thread that was woken up has pi->lock again. *)
Resume(t) ==
  /\ lock = {}
  /\ \/ pc[t] = "write_woken" /\ Goto(t, "write")
     \/ pc[t] = "read_woken" /\ Goto(t, "read")
  /\ lock' = {t}
  /\ UNCHANGED <<pipeVars, openVars, killed, n, i>>

kill(t) ==
  /\ t \in Killable /\ t \notin killed
  /\ killed' = killed \cup {t}
  /\ pc' = [pc EXCEPT ![t] = CASE @ = "write_asleep" -> "write_woken"
                               [] @ = "read_asleep" -> "read_woken"
                               [] OTHER -> @]
  /\ UNCHANGED <<pipeVars, openVars, lock, n, i>>

(* Mutant: pipeclose() without the wakeup of the readers. *)
CloseWrite_NoWakeup ==
  /\ writeopen /\ lock = {} /\ \A t \in Writers : pc[t] = "user"
  /\ writeopen' = FALSE
  /\ UNCHANGED <<pipeVars, readopen, lock, killed, pc, n, i>>

(* pipeclose(): the last reference to an end goes when nobody is inside a  *)
(* call on it, because a call holds a reference to its file.               *)
CloseWrite ==
  /\ writeopen /\ lock = {} /\ \A t \in Writers : pc[t] = "user"
  /\ writeopen' = FALSE
  /\ pc' = [u \in Threads |-> IF pc[u] = "read_asleep" THEN "read_woken" ELSE pc[u]]
  /\ UNCHANGED <<pipeVars, readopen, lock, killed, n, i>>

CloseRead ==
  /\ readopen /\ lock = {} /\ \A t \in Readers : pc[t] = "user"
  /\ readopen' = FALSE
  /\ pc' = [u \in Threads |-> IF pc[u] = "write_asleep" THEN "write_woken" ELSE pc[u]]
  /\ UNCHANGED <<pipeVars, writeopen, lock, killed, n, i>>

-----------------------------------------------------------------------------
(* The steps of a thread that is inside a call. *)
Inside(t) ==
  \/ WriteFails(t) \/ WriteFull(t) \/ WriteReturns(t)
  \/ \E ch \in Bytes : WriteByte(t, ch)
  \/ ReadFails(t) \/ ReadEmpty(t) \/ ReadReady(t)
  \/ ReadByte(t) \/ CopyoutFails(t) \/ ReadReturns(t)
  \/ Sleep(t) \/ Resume(t)

Next ==
  \/ \E t \in Threads : Inside(t) \/ kill(t)
  \/ \E t \in Threads, k \in 0 .. MaxCount : pipewrite(t, k) \/ piperead(t, k)
  \/ CloseWrite \/ CloseRead

Spec == Init /\ [][Next]_vars

-----------------------------------------------------------------------------
(* The bytes between nread and nwrite, in the order in which they were written. *)
Used == (nwrite - nread) % UINT
Queue == [k \in 1 .. Used |-> data[(nread + k - 1) % PIPESIZE]]

(* A pipe is a bounded queue, also when its counters wrap around: bytes     *)
(* come out in the order in which they went in, none twice.                 *)
F == INSTANCE Fifo WITH queue <- Queue, Capacity <- PIPESIZE
IsFifo == F!Spec

(* Nobody sleeps for want of a wakeup.  While nobody is inside the pipe, a  *)
(* writer that sleeps has no room and somebody who may still read, and a    *)
(* reader that sleeps has nothing to read and somebody who may still write, *)
(* unless a writer was killed: such a writer returns without the wakeup()   *)
(* for the bytes it has stored.                                             *)
SleepersAwaited ==
  lock = {} =>
    /\ \A t \in Writers : pc[t] = "write_asleep" => Full /\ readopen
    /\ Writers \cap killed = {} =>
         \A t \in Readers : pc[t] = "read_asleep" => NothingYet

(* A read() of some bytes that returns none has met the end of the file.    *)
EndOfFile ==
  [][\A t \in Readers :
       /\ pc[t] = "copy" /\ pc'[t] = "user"
       /\ n[t] > 0 /\ i[t] = 0 /\ nread' = nread
       => Empty /\ ~writeopen]_vars

(* The scheduler runs every thread that is inside a call and can go on.     *)
FairSpec == Spec /\ \A t \in Threads : WF_vars(Inside(t))

(* Once the other end is closed a call returns: a reader meets the end of   *)
(* the file and a writer an error, asleep or not, unless other threads keep *)
(* taking pi->lock from it with calls of their own.                         *)
Alone(t) == <>[](\A u \in Threads \ {t} : pc[u] = "user")
HangupNoticed ==
  /\ \A t \in Readers : Alone(t) => (pc[t] # "user" /\ ~writeopen ~> pc[t] = "user")
  /\ \A t \in Writers : Alone(t) => (pc[t] # "user" /\ ~readopen ~> pc[t] = "user")
=============================================================================
