----------------------------- MODULE SchedProofs ----------------------------
(***************************************************************************)
(* The lock discipline of the scheduler, for every number of CPUs and      *)
(* processes. The invariant says for every place in the code which locks   *)
(* the CPU holds (LocksHeld), whether its interrupts are on and what       *)
(* pop_off() will restore (Interrupts), why it is there (Reasons) and in   *)
(* which state the process is (States); and what is saved of a process     *)
(* that is on no CPU (Waits). A step of one CPU keeps what is said of the  *)
(* others because every change is made under a lock that they do not hold  *)
(* (OtherCpu).                                                             *)
(***************************************************************************)
EXTENDS Sched, TLAPS

ProcStates == {"UNUSED", "SLEEPING", "RUNNABLE", "RUNNING", "ZOMBIE"}

Chans == Procs \cup {TicksChan, None}

TypeOK ==
  /\ lk \in [Locks -> CPUs \cup {None}]
  /\ intr \in [CPUs -> BOOLEAN] /\ intena \in [CPUs -> BOOLEAN]
  /\ run \in [CPUs -> Threads] /\ next \in [CPUs -> 1 .. NPROC + 1]
  /\ state \in [Procs -> ProcStates] /\ chan \in [Procs -> Chans]
  /\ call \in [Procs -> Calls \cup {"timer", None}]
  /\ pc \in [Threads -> Pcs]
  /\ nested \in [Procs -> BOOLEAN] /\ saved \in [Procs -> BOOLEAN]
  /\ look \in [Threads -> 1 .. NPROC + 1]

(* A CPU runs its own scheduler, or the process that this has picked. *)
SchedPcs == {"loop", "pick", "switched", "tick", "wakeup", "wakeup_time"}
ProcPcs == Pcs \ {"loop", "pick", "switched", "zombie"}

Off(p) == \A c \in CPUs : run[c] # p

Place(c) ==
  /\ run[c] = c => pc[c] \in SchedPcs
  /\ run[c] # c => /\ run[c] \in Procs /\ pc[run[c]] \in ProcPcs
                   /\ pc[c] = "switched" /\ next[c] = run[c]
  /\ pc[c] \in {"pick", "switched"} => next[c] \in Procs
  /\ run[c] = c /\ pc[c] \in {"pick", "switched"} => Off(next[c])

OneThread == \A c, d \in CPUs : run[c] = run[d] => c = d

(* The lock that wakeup() was called under. *)
WakeLock(c) == IF InClock(c) THEN tickslock ELSE wait_lock

Owns == {"forkret", "yielded", "asleep", "yield_time", "sched", "sleep_time"}
Nothing == {"loop", "woken", "user", "trapin", "kernel", "trap", "trapout", "tick",
            "yield", "exit", "ps_lock"}
CallPcs == {"sleep_loop", "sleep", "sleep_time", "wait_loop", "freeproc",
            "kill_time", "ps_wait", "ps_parent", "ps_time"}
Looks == {"wakeup_time", "freeproc", "kill_time", "ps_lock", "ps_wait", "ps_parent",
          "ps_time"}

(* The locks that the code of a CPU holds where it is. *)
LocksHeld(c) ==
  LET t == run[c] IN
  /\ pc[t] \in Nothing => Held(c) = {}
  /\ pc[t] \in {"pick", "switched"} => Held(c) = {next[c]}
  /\ pc[t] \in Owns => Held(c) = {t}
  /\ pc[t] = "wakeup" => Held(c) = {WakeLock(c)}
  /\ pc[t] = "wakeup_time" => Held(c) = {WakeLock(c), look[t]}
  /\ pc[t] = "sleep_loop" => Held(c) = {tickslock}
  /\ pc[t] = "sleep" => Held(c) = {CondLock(t)}
  /\ pc[t] = "wait_loop" => Held(c) = {wait_lock}
  /\ pc[t] \in {"freeproc", "ps_parent"} => Held(c) = {look[t], wait_lock}
  /\ pc[t] \in {"kill_time", "ps_wait", "ps_time"} => Held(c) = {look[t]}
  /\ pc[t] = "exit_time" => Held(c) = {wait_lock, t}
  /\ pc[t] \in Looks => look[t] \in Procs

(* Interrupts are off while a lock is held; intena is what the process had *)
(* before its first acquire().                                             *)
Interrupts(c) ==
  LET t == run[c] IN
  /\ Held(c) # {} => ~intr[c]
  /\ pc[t] = "yield" => ~intr[c]
  /\ pc[t] \in {"kernel", "trap", "trapout"} => intr[c] = (call[t] # "timer")
  /\ pc[t] \in {"woken", "ps_lock"} => intr[c]
  /\ pc[t] \in CallPcs => intena[c]
  /\ pc[t] = "yield_time" => ~intena[c]
  /\ pc[t] = "sched" => /\ state[t] = "RUNNABLE" => ~intena[c]
                        /\ state[t] = "SLEEPING" => intena[c]
  /\ pc[t] = "yielded" => ~saved[t]
  /\ pc[t] = "asleep" => saved[t]

(* Why a process is where it is. *)
InTimer(c) ==
  LET t == run[c] IN
  \/ pc[t] \in {"tick", "yield", "yield_time", "yielded"}
  \/ pc[t] \in {"wakeup", "wakeup_time"} /\ InClock(c)
  \/ pc[t] = "sched" /\ state[t] = "RUNNABLE"
InExit(c) ==
  LET t == run[c] IN
  \/ pc[t] \in {"exit", "exit_time"}
  \/ pc[t] \in {"wakeup", "wakeup_time"} /\ ~InClock(c)
  \/ pc[t] = "sched" /\ state[t] = "ZOMBIE"

Reasons(c) ==
  LET t == run[c] IN
  /\ t \notin Procs /\ pc[t] \in {"wakeup", "wakeup_time"} => InClock(c)
  /\ t \in Procs =>
       /\ InTimer(c) => nested[t] = (call[t] # "timer")
       /\ ~InTimer(c) => ~nested[t]
       /\ \/ InTimer(c) \/ InExit(c)
          \/ pc[t] \in {"forkret", "user", "trapin", "trap", "trapout"}
          \/ call[t] # "timer"
       /\ pc[t] = "sleep_loop" => call[t] = "sleep"
       /\ pc[t] = "wait_loop" => call[t] # "sleep"

(* The state of the process on a CPU, and of the zombie it frees. *)
States(c) ==
  LET t == run[c] IN
  /\ t \in Procs =>
       /\ pc[t] \notin {"yield_time", "sched"} => state[t] = "RUNNING"
       /\ pc[t] = "yield_time" => state[t] = "RUNNABLE"
       /\ pc[t] = "sched" => state[t] \in {"RUNNABLE", "SLEEPING", "ZOMBIE"}
  /\ pc[t] = "freeproc" => state[look[t]] = "ZOMBIE"
  /\ pc[t] = "pick" => state[next[c]] = "RUNNING"

(* A process that is on no CPU. *)
Picked(p) == \E c \in CPUs : run[c] = c /\ pc[c] = "pick" /\ next[c] = p

Waits(p) ==
  /\ pc[p] \in {"forkret", "yielded", "asleep", "zombie"}
  /\ pc[p] = "zombie" <=> state[p] \in {"ZOMBIE", "UNUSED"}
  /\ state[p] = "SLEEPING" => pc[p] = "asleep"
  /\ state[p] = "RUNNING" => Picked(p)
  /\ pc[p] = "yielded" => ~saved[p] /\ nested[p] = (call[p] # "timer")
  /\ pc[p] = "asleep" => saved[p] /\ ~nested[p] /\ call[p] # "timer"
  /\ pc[p] = "forkret" => ~nested[p]

(* Without sys_sleep() nobody waits for the clock. *)
NoSleeper ==
  "sleep" \notin Calls =>
    /\ \A p \in Procs : call[p] # "sleep" /\ chan[p] # TicksChan
    /\ \A c \in CPUs : pc[run[c]] = "wakeup_time" => ~InClock(c)

CpuInv(c) ==
  Place(c) /\ LocksHeld(c) /\ Interrupts(c) /\ Reasons(c) /\ States(c)

IInv ==
  /\ TypeOK /\ OneThread /\ NoSleeper
  /\ \A c \in CPUs : CpuInv(c)
  /\ \A p \in Procs : Off(p) => Waits(p)

-----------------------------------------------------------------------------
(* spinlock.c *)

(* What an operation of CPU c on spinlocks leaves alone. *)
LockOp(c) ==
  /\ lk' \in [Locks -> CPUs \cup {None}]
  /\ intr' \in [CPUs -> BOOLEAN] /\ intena' \in [CPUs -> BOOLEAN]
  /\ \A d \in CPUs \ {c} : intr'[d] = intr[d] /\ intena'[d] = intena[d]
  /\ \A l \in Locks : lk'[l] # lk[l] => lk[l] \in {c, None} /\ lk'[l] \in {c, None}

(* acquire() takes a free lock, turns interrupts off and remembers in      *)
(* intena what they were if it is the first lock.                          *)
LEMMA acquireOp ==
  ASSUME TypeOK, NEW c \in CPUs, NEW l \in Locks, acquire(c, l)
  PROVE  /\ LockOp(c) /\ l \notin Held(c)
         /\ Held(c)' = Held(c) \cup {l}
         /\ intr'[c] = FALSE
         /\ Held(c) = {} => intena'[c] = intr[c]
         /\ Held(c) # {} => intena'[c] = intena[c]
<1> USE SchedAssumption
<1>1. /\ lk[l] = None /\ lk' = [lk EXCEPT ![l] = c]
      /\ intr' = [intr EXCEPT ![c] = FALSE]
      /\ Held(c) = {} => intena' = [intena EXCEPT ![c] = intr[c]]
      /\ Held(c) # {} => intena' = intena
  BY DEF acquire, push_off
<1>2. LockOp(c)
  BY <1>1 DEF LockOp, TypeOK
<1>3. Held(c)' = Held(c) \cup {l}
  BY <1>1 DEF Held, TypeOK
<1> QED BY <1>1, <1>2, <1>3 DEF Held, TypeOK

(* release() of locks that the CPU holds; with the last one pop_off()      *)
(* gives interrupts back as intena says.                                   *)
LEMMA releaseOp ==
  ASSUME TypeOK, NEW c \in CPUs, NEW L, L \subseteq Held(c), release(c, L)
  PROVE  /\ LockOp(c)
         /\ Held(c)' = Held(c) \ L
         /\ Held(c) = L => intr'[c] = intena[c]
         /\ Held(c) # L => intr'[c] = intr[c]
         /\ intena' = intena
<1> USE SchedAssumption
<1>1. /\ lk' = [l \in Locks |-> IF l \in L THEN None ELSE lk[l]]
      /\ intr' = [intr EXCEPT ![c] = IF Held(c) = L THEN intena[c] ELSE @]
      /\ intena' = intena
  <2>1. Held(c) \subseteq L <=> Held(c) = L
    BY Zenon
  <2> QED BY <2>1, ZenonT(40) DEF release
<1>2. LockOp(c)
  BY <1>1 DEF LockOp, TypeOK, Held
<1>3. Held(c)' = Held(c) \ L
  BY <1>1 DEF Held, TypeOK
<1> QED BY <1>1, <1>2, <1>3 DEF TypeOK

(* A lock that is taken and released at once changes nothing but intena,   *)
(* and that only if no other lock is held.                                 *)
LEMMA TouchOp ==
  ASSUME TypeOK, NEW c \in CPUs, NEW l, Touch(c, l)
  PROVE  /\ LockOp(c) /\ lk' = lk /\ intr' = intr
         /\ Held(c)' = Held(c)
         /\ Held(c) # {} => intena'[c] = intena[c]
<1>1. /\ lk' = lk /\ intr' = intr
      /\ Held(c) = {} => intena' = [intena EXCEPT ![c] = intr[c]]
      /\ Held(c) # {} => intena' = intena
  BY DEF Touch
<1> QED BY <1>1 DEF LockOp, TypeOK, Held

(* Taking one lock and releasing another leaves the interrupts as they     *)
(* are.                                                                    *)
LEMMA ExchangeOp ==
  ASSUME TypeOK, NEW c \in CPUs, NEW l \in Locks, NEW m \in Held(c), l # m,
         Exchange(c, l, m)
  PROVE  /\ LockOp(c) /\ intr' = intr /\ intena' = intena
         /\ Held(c)' = (Held(c) \ {m}) \cup {l}
<1> USE SchedAssumption
<1>1. /\ lk' = [lk EXCEPT ![l] = c, ![m] = None] /\ lk[l] = None
      /\ intr' = intr /\ intena' = intena
  BY DEF Exchange
<1> QED BY <1>1 DEF LockOp, TypeOK, Held

-----------------------------------------------------------------------------
(* What a step of CPU c leaves alone *)

(* The process table outside the process on the CPU: another one only     *)
(* changes its state, under its lock, when it is woken, freed or picked.   *)
Mine(c) ==
  /\ chan' \in [Procs -> Chans] /\ call' \in [Procs -> Calls \cup {"timer", None}]
  /\ nested' \in [Procs -> BOOLEAN] /\ saved' \in [Procs -> BOOLEAN]
  /\ look' \in [Threads -> 1 .. NPROC + 1] /\ state' \in [Procs -> ProcStates]
  /\ \A t \in Threads \ {run[c]} : look'[t] = look[t]
  /\ \A p \in Procs \ {run[c]} :
       call'[p] = call[p] /\ nested'[p] = nested[p] /\ saved'[p] = saved[p]
  /\ \A p \in Procs \ {run[c]} : state'[p] # state[p] =>
       /\ lk[p] \in {c, None}
       /\ \/ state[p] = "SLEEPING" /\ state'[p] = "RUNNABLE"
          \/ state[p] = "ZOMBIE" /\ state'[p] = "UNUSED"
          \/ /\ state[p] = "RUNNABLE" /\ state'[p] = "RUNNING"
             /\ run'[c] = c /\ pc'[c] = "pick" /\ next'[c] = p

(* The CPU c and its thread. *)
Moves(c) ==
  /\ run' \in [CPUs -> Threads] /\ next' \in [CPUs -> 1 .. NPROC + 1]
  /\ pc' \in [Threads -> Pcs]
  /\ \A d \in CPUs \ {c} : run'[d] = run[d] /\ next'[d] = next[d]
  /\ \A t \in Threads \ {run[c]} : pc'[t] = pc[t]

Local(c) == LockOp(c) /\ Mine(c) /\ Moves(c)

(* Two CPUs run different threads. *)
LEMMA Apart ==
  ASSUME IInv, NEW c \in CPUs, NEW d \in CPUs, d # c
  PROVE  /\ run[d] \in Threads \ {run[c]} /\ d \in Threads \ {run[c]}
         /\ run[d] \in Procs => run[d] \in Procs \ {run[c]}
<1>1. /\ run \in [CPUs -> Threads] /\ OneThread
      /\ run[c] # c => run[c] \in Procs
  BY ZenonT(40) DEF IInv, TypeOK, CpuInv, Place
<1>2. run[c] # run[d]
  BY ZenonT(40), <1>1 DEF OneThread
<1>3. run[d] \in Threads /\ d \in Threads
  BY ZenonT(40), <1>1 DEF Threads
<1>4. run[c] # d
  BY ZenonT(40), <1>1, SchedAssumption
<1> QED BY ZenonT(40), <1>2, <1>3, <1>4

(* The locks of another CPU stay where they are. *)
LEMMA HeldByOthers ==
  ASSUME TypeOK, NEW c \in CPUs, NEW d \in CPUs, d # c, LockOp(c)
  PROVE  /\ Held(d)' = Held(d) /\ InClock(d)' = InClock(d)
         /\ WakeLock(d)' = WakeLock(d)
<1>1. \A l \in Locks : lk'[l] = d <=> lk[l] = d
  <2> TAKE l \in Locks
  <2>1. d # c /\ d # None
    BY ZenonT(40), SchedAssumption
  <2>2. lk'[l] = lk[l] \/ (lk[l] \in {c, None} /\ lk'[l] \in {c, None})
    BY ZenonT(40) DEF LockOp
  <2> QED BY ZenonT(40), <2>1, <2>2
<1>2. Held(d)' = Held(d)
  BY ZenonT(40), <1>1 DEF Held
<1>3. InClock(d)' = InClock(d)
  BY <1>1 DEF InClock, Locks
<1> QED BY ZenonT(40), <1>2, <1>3 DEF WakeLock

(* A process that another CPU runs, frees or has picked keeps its state. *)
LEMMA StatesOfOthers ==
  ASSUME IInv, NEW c \in CPUs, NEW d \in CPUs, d # c, Mine(c)
  PROVE  /\ run[d] \in Procs => state'[run[d]] = state[run[d]]
         /\ pc[run[d]] = "freeproc" => state'[look[run[d]]] = state[look[run[d]]]
         /\ pc[run[d]] = "pick" => state'[next[d]] = state[next[d]]
<1>1. /\ CpuInv(c) /\ CpuInv(d) /\ TypeOK
  BY ZenonT(40) DEF IInv
<1>2. \A p \in Procs : p \in Held(d) => lk[p] = d /\ lk[p] \notin {c, None}
  BY ZenonT(40), SchedAssumption DEF Held
<1>3. \A p \in Procs \ {run[c]} :
        p \in Held(d) \/ state[p] = "RUNNING" => state'[p] = state[p]
  BY ZenonT(40), <1>2 DEF Mine
<1>4. run[d] \in Procs => state'[run[d]] = state[run[d]]
  <2>1. ASSUME run[d] \in Procs PROVE run[d] \in Held(d) \/ state[run[d]] = "RUNNING"
    BY ZenonT(40), <1>1, <2>1 DEF CpuInv, LocksHeld, States, Owns
  <2> QED BY ZenonT(40), <1>3, <2>1, Apart
<1>5. ASSUME pc[run[d]] = "freeproc" PROVE state'[look[run[d]]] = state[look[run[d]]]
  <2> DEFINE q == look[run[d]]
  <2>1. q \in Procs /\ q \in Held(d) /\ state[q] = "ZOMBIE"
    BY ZenonT(40), <1>1, <1>5 DEF CpuInv, LocksHeld, States, Looks
  <2>2. q # run[c]
    <3>1. ASSUME q = run[c] PROVE FALSE
      <4>1. pc[run[c]] = "sched"
        BY ZenonT(40), <1>1, <2>1, <3>1 DEF CpuInv, States
      <4>2. Held(c) = {run[c]}
        BY ZenonT(40), <1>1, <4>1 DEF CpuInv, LocksHeld, Owns
      <4> QED BY ZenonT(40), <1>2, <2>1, <3>1, <4>2 DEF Held
    <3> QED BY <3>1
  <2> QED BY ZenonT(40), <1>3, <2>1, <2>2
<1>6. ASSUME pc[run[d]] = "pick" PROVE state'[next[d]] = state[next[d]]
  <2>1. run[d] = d
    BY ZenonT(40), <1>1, <1>6 DEF CpuInv, Place, ProcPcs
  <2>2. next[d] \in Procs /\ next[d] # run[c] /\ next[d] \in Held(d)
    BY ZenonT(40), <1>1, <1>6, <2>1 DEF CpuInv, Place, LocksHeld, Off
  <2> QED BY ZenonT(40), <1>3, <2>2
<1> QED BY ZenonT(40), <1>4, <1>5, <1>6

(* The thread that c goes on with is its own, or one whose lock it holds. *)
Entitled(c) == run'[c] \in {run[c], c} \/ lk[run'[c]] = c

(* A step of one CPU that changes only what it is entitled to keeps what   *)
(* the invariant says of another CPU.                                      *)
LEMMA OtherCpu ==
  ASSUME IInv, NEW c \in CPUs, NEW d \in CPUs, d # c, Local(c), Entitled(c)
  PROVE  CpuInv(d)'
<1>1. CpuInv(d) /\ TypeOK
  BY ZenonT(40) DEF IInv
<1>2. /\ run'[d] = run[d] /\ next'[d] = next[d]
      /\ intr'[d] = intr[d] /\ intena'[d] = intena[d]
  BY ZenonT(40) DEF Local, Moves, LockOp
<1>3. /\ pc'[run[d]] = pc[run[d]] /\ look'[run[d]] = look[run[d]] /\ pc'[d] = pc[d]
  BY ZenonT(40), Apart DEF Local, Moves, Mine
<1>4. run[d] \in Procs => /\ call'[run[d]] = call[run[d]]
                          /\ nested'[run[d]] = nested[run[d]]
                          /\ saved'[run[d]] = saved[run[d]]
  BY ZenonT(40), Apart DEF Local, Mine
<1>5. /\ Held(d)' = Held(d) /\ InClock(d)' = InClock(d)
      /\ WakeLock(d)' = WakeLock(d)
  BY ZenonT(40), <1>1, HeldByOthers DEF Local
<1>6. /\ run[d] \in Procs => state'[run[d]] = state[run[d]]
      /\ pc[run[d]] = "freeproc" => state'[look[run[d]]] = state[look[run[d]]]
      /\ pc[run[d]] = "pick" => state'[next[d]] = state[next[d]]
  BY ZenonT(40), StatesOfOthers DEF Local
<1>7. run[d] \in Procs \/ (run[d] = d /\ pc[run[d]] \in SchedPcs)
  <2>1. CASE run[d] = d
    BY <1>1, <2>1 DEF CpuInv, Place
  <2>2. run[d] # d => run[d] \in Procs
    BY <1>1 DEF CpuInv, Place
  <2> QED BY <2>1, <2>2
<1>8. Place(d)'
  <2>1. run[d] = d /\ pc[d] \in {"pick", "switched"} => Off(next[d])'
    <3> HAVE run[d] = d /\ pc[d] \in {"pick", "switched"}
    <3>1. Off(next[d]) /\ Held(d) = {next[d]} /\ next[d] \in Procs
      BY ZenonT(40), <1>1 DEF CpuInv, Place, LocksHeld
    <3>2. run'[c] # next[d]
      <4>1. lk[next[d]] = d
        BY ZenonT(40), <3>1 DEF Held
      <4>2. c # next[d]
        BY ZenonT(40), <3>1, SchedAssumption
      <4> QED BY ZenonT(40), <3>1, <4>1, <4>2 DEF Entitled, Off
    <3>3. \A e \in CPUs \ {c} : run'[e] # next[d]
      BY ZenonT(40), <3>1 DEF Off, Local, Moves
    <3> QED BY ZenonT(40), <1>2, <3>2, <3>3 DEF Off
  <2> QED BY ZenonT(40), <1>1, <1>2, <1>3, <2>1 DEF CpuInv, Place
<1>9. LocksHeld(d)'
  <2>1. pc[run[d]] = "sleep" => CondLock(run[d])' = CondLock(run[d])
    BY ZenonT(40), <1>2, <1>4, <1>7 DEF CondLock, SchedPcs
  <2> QED BY ZenonT(40), <1>1, <1>2, <1>3, <1>5, <2>1 DEF CpuInv, LocksHeld
<1>10. Interrupts(d)'
  <2>1. pc[run[d]] \in {"kernel", "trap", "trapout", "sched", "yielded", "asleep"} =>
          run[d] \in Procs
    BY ZenonT(40), <1>7 DEF SchedPcs
  <2> QED BY ZenonT(40), <1>1, <1>2, <1>3, <1>4, <1>5, <1>6, <2>1 DEF CpuInv, Interrupts
<1>11. Reasons(d)'
  <2>1. run[d] \in Procs => /\ InTimer(d)' = InTimer(d)
                            /\ InExit(d)' = InExit(d)
    BY ZenonT(40), <1>2, <1>3, <1>5, <1>6 DEF InTimer, InExit
  <2> QED BY ZenonT(40), <1>1, <1>2, <1>3, <1>4, <1>5, <2>1 DEF CpuInv, Reasons
<1>12. States(d)'
  BY ZenonT(40), <1>1, <1>2, <1>3, <1>6 DEF CpuInv, States
<1> QED BY ZenonT(40), <1>8, <1>9, <1>10, <1>11, <1>12 DEF CpuInv

(* A process that waits for a CPU is left alone, or woken, freed or picked. *)
LEMMA OffProc ==
  ASSUME IInv, NEW c \in CPUs, NEW p \in Procs, Off(p), Local(c),
         pc[run[c]] = "pick" => p # next[c]
  PROVE  Waits(p)'
<1>1. Waits(p) /\ TypeOK /\ Place(c) /\ p \in Procs \ {run[c]} /\ p \in Threads
  BY ZenonT(40) DEF IInv, Off, Threads, CpuInv
<1>2. /\ pc'[p] = pc[p] /\ call'[p] = call[p] /\ nested'[p] = nested[p]
      /\ saved'[p] = saved[p]
  BY ZenonT(40), <1>1 DEF Local, Moves, Mine
<1>3. \/ state'[p] = state[p]
      \/ state[p] = "SLEEPING" /\ state'[p] = "RUNNABLE"
      \/ state[p] = "ZOMBIE" /\ state'[p] = "UNUSED"
      \/ /\ state[p] = "RUNNABLE" /\ state'[p] = "RUNNING"
         /\ run'[c] = c /\ pc'[c] = "pick" /\ next'[c] = p
  BY ZenonT(40), <1>1 DEF Local, Mine
<1>4. Picked(p) => Picked(p)'
  <2>1. ASSUME NEW d \in CPUs, run[d] = d, pc[d] = "pick", next[d] = p
        PROVE  run'[d] = d /\ pc'[d] = "pick" /\ next'[d] = p
    <3>1. d # c
      BY ZenonT(40), <2>1
    <3> QED BY ZenonT(40), <2>1, <3>1, Apart DEF Local, Moves
  <2> QED BY ZenonT(40), <2>1 DEF Picked
<1>5. state'[p] = "RUNNING" => Picked(p)'
  BY ZenonT(40), <1>1, <1>3, <1>4 DEF Waits, Picked
<1> QED BY ZenonT(40), <1>1, <1>2, <1>3, <1>5 DEF Waits

(* So a step that does not change what a CPU runs keeps the invariant if   *)
(* it keeps the part about its own CPU.                                    *)
LEMMA LocalStep ==
  ASSUME IInv, NEW c \in CPUs, Local(c), run' = run, pc[run[c]] # "pick",
         CpuInv(c)', NoSleeper'
  PROVE  IInv'
<1>1. \A d \in CPUs : CpuInv(d)'
  BY ZenonT(40), OtherCpu DEF Entitled
<1>2. \A p \in Procs : Off(p)' => Waits(p)'
  BY ZenonT(40), OffProc DEF Off
<1>3. TypeOK'
  BY ZenonT(40) DEF TypeOK, Local, LockOp, Mine, Moves
<1>4. OneThread'
  BY ZenonT(40) DEF OneThread, IInv
<1> QED BY ZenonT(40), <1>1, <1>2, <1>3, <1>4 DEF IInv

-----------------------------------------------------------------------------
(* The shapes of the steps *)

(* A process outside the pcs of a scheduler is a process. *)
LEMMA OnProc ==
  ASSUME IInv, NEW c \in CPUs, pc[run[c]] \notin SchedPcs
  PROVE  /\ run[c] \in Procs /\ run[c] # c /\ run[c] \in Threads /\ run[c] \in Locks
         /\ pc[c] = "switched" /\ next[c] = run[c]
<1>1. Place(c) /\ run[c] # c
  <2>1. Place(c)
    BY ZenonT(40) DEF IInv, CpuInv
  <2>2. ASSUME run[c] = c PROVE FALSE
    BY <2>1, <2>2 DEF Place
  <2> QED BY <2>1, <2>2
<1> QED BY ZenonT(40), <1>1 DEF Place, Locks, Threads

(* A process in a system call, or a scheduler in its loop, goes to l. *)
LEMMA GotoMoves ==
  ASSUME IInv, NEW c \in CPUs, NEW l \in Pcs, Goto(c, l), UNCHANGED <<run, next>>
  PROVE  Moves(c) /\ pc'[run[c]] = l
BY DEF Goto, Moves, IInv, TypeOK

(* A CPU whose thread goes on inside its own code still runs that thread. *)
LEMMA PlaceKept ==
  ASSUME IInv, NEW c \in CPUs, NEW l \in Pcs, Goto(c, l), UNCHANGED <<run, next>>,
         run[c] \in Procs => l \in ProcPcs,
         run[c] = c => l \in SchedPcs \ {"pick", "switched"}
  PROVE  Place(c)'
<1>1. Place(c) /\ TypeOK /\ c \in Threads
  BY ZenonT(40) DEF IInv, CpuInv, Threads
<1>2. pc'[run[c]] = l /\ (run[c] # c => pc'[c] = pc[c])
  BY <1>1 DEF Goto, TypeOK
<1>3. CASE run[c] = c
  <2>1. run'[c] = c /\ pc'[c] = l
    BY ZenonT(40), <1>2, <1>3
  <2> QED BY ZenonT(40), <1>3, <2>1 DEF Place
<1>4. CASE run[c] # c
  BY ZenonT(40), <1>1, <1>2, <1>4 DEF Place
<1> QED BY <1>3, <1>4

(* A step that changes no field of a process. *)
LEMMA SameFields ==
  ASSUME IInv, NEW c \in CPUs, UNCHANGED <<state, chan, call, nested, saved, look>>
  PROVE  Mine(c)
BY ZenonT(40) DEF IInv, TypeOK, Mine

(* A step that moves no process between states is one that its CPU may     *)
(* make.                                                                   *)
LEMMA SameStates ==
  ASSUME IInv, NEW c \in CPUs, NEW k \in 1 .. NPROC + 1,
         look' = [look EXCEPT ![run[c]] = k], UNCHANGED <<state, chan, call, nested, saved>>
  PROVE  Mine(c) /\ look'[run[c]] = k
<1>1. /\ \A t \in Threads \ {run[c]} : look'[t] = look[t]
      /\ look' \in [Threads -> 1 .. NPROC + 1] /\ look'[run[c]] = k
  BY DEF IInv, TypeOK
<1> QED BY ZenonT(40), <1>1 DEF IInv, TypeOK, Mine

(* So is a change of the state of the process on the CPU, *)
LEMMA OwnState ==
  ASSUME IInv, NEW c \in CPUs, run[c] \in Procs, NEW s \in ProcStates,
         state' = [state EXCEPT ![run[c]] = s],
         UNCHANGED <<chan, call, nested, saved, look>>
  PROVE  Mine(c) /\ state'[run[c]] = s
<1>1. /\ state' \in [Procs -> ProcStates] /\ state'[run[c]] = s
      /\ \A p \in Procs \ {run[c]} : state'[p] = state[p]
  BY DEF IInv, TypeOK
<1> QED BY ZenonT(40), <1>1 DEF IInv, TypeOK, Mine

(* the waking of a sleeper or the freeing of a zombie, under its lock, *)
LEMMA OtherState ==
  ASSUME IInv, NEW c \in CPUs, NEW q \in Procs, q # run[c], NEW s,
         state' = [state EXCEPT ![q] = s], lk[q] \in {c, None},
         \/ state[q] = "SLEEPING" /\ s = "RUNNABLE"
         \/ state[q] = "ZOMBIE" /\ s = "UNUSED",
         NEW k \in 1 .. NPROC + 1, look' = [look EXCEPT ![run[c]] = k],
         UNCHANGED <<chan, call, nested, saved>>
  PROVE  /\ Mine(c) /\ look'[run[c]] = k
         /\ run[c] \in Procs => state'[run[c]] = state[run[c]]
<1>1. /\ \A t \in Threads \ {run[c]} : look'[t] = look[t]
      /\ look' \in [Threads -> 1 .. NPROC + 1] /\ look'[run[c]] = k
  BY DEF IInv, TypeOK
<1>2. state' \in [Procs -> ProcStates] /\ \A p \in Procs \ {q} : state'[p] = state[p]
  BY DEF IInv, TypeOK, ProcStates
<1>3. state'[q] = s
  BY DEF IInv, TypeOK
<1> QED BY ZenonT(40), <1>1, <1>2, <1>3 DEF IInv, TypeOK, Mine

(* the entry to or the exit from an interrupt in the kernel, *)
LEMMA OwnNested ==
  ASSUME IInv, NEW c \in CPUs, run[c] \in Procs, NEW b \in BOOLEAN,
         nested' = [nested EXCEPT ![run[c]] = b],
         UNCHANGED <<state, chan, call, saved, look>>
  PROVE  Mine(c) /\ nested'[run[c]] = b
<1>1. /\ nested' \in [Procs -> BOOLEAN] /\ nested'[run[c]] = b
      /\ \A p \in Procs \ {run[c]} : nested'[p] = nested[p]
  BY DEF IInv, TypeOK
<1> QED BY ZenonT(40), <1>1 DEF IInv, TypeOK, Mine

(* the start of a system call or of an interrupt, *)
LEMMA OwnCall ==
  ASSUME IInv, NEW c \in CPUs, NEW x \in Calls \cup {"timer", None},
         call' = [call EXCEPT ![run[c]] = x], UNCHANGED <<state, chan, nested, saved, look>>
  PROVE  Mine(c)
<1>1. /\ call' \in [Procs -> Calls \cup {"timer", None}]
      /\ \A p \in Procs \ {run[c]} : call'[p] = call[p]
  BY ZenonT(40) DEF IInv, TypeOK
<1> QED BY ZenonT(40), <1>1 DEF IInv, TypeOK, Mine

(* and the choice of a channel to sleep on. *)
LEMMA SameButChan ==
  ASSUME IInv, NEW c \in CPUs, NEW x \in Chans,
         chan' = [chan EXCEPT ![run[c]] = x], UNCHANGED <<state, call, nested, saved, look>>
  PROVE  Mine(c)
<1>1. chan' \in [Procs -> Chans]
  BY ZenonT(40) DEF IInv, TypeOK
<1> QED BY ZenonT(40), <1>1 DEF IInv, TypeOK, Mine

(* Nobody falls asleep on the clock. *)
Awake == "sleep" \notin Calls =>
           \A p \in Procs : call'[p] # "sleep" /\ chan'[p] # TicksChan

(* A step that changes neither calls nor channels adds nobody who waits    *)
(* for the clock.                                                          *)
LEMMA SameAwake == ASSUME IInv, UNCHANGED <<call, chan>> PROVE Awake
BY ZenonT(40) DEF IInv, NoSleeper, Awake

(* Without sys_sleep() nobody waits for the clock after a step either. *)
LEMMA StaysAwake ==
  ASSUME IInv, NEW c \in CPUs, Moves(c), LockOp(c), Awake, run' = run,
         pc'[run[c]] = "wakeup_time" /\ "sleep" \notin Calls => ~InClock(c)'
  PROVE  NoSleeper'
<1> SUFFICES ASSUME "sleep" \notin Calls PROVE NoSleeper'
  BY ZenonT(40) DEF NoSleeper
<1>1. ASSUME NEW d \in CPUs, pc'[run[d]] = "wakeup_time", d # c PROVE ~InClock(d)'
  <2>1. run[d] \in Threads \ {run[c]}
    BY ZenonT(40), <1>1, Apart
  <2>2. pc[run[d]] = "wakeup_time"
    BY ZenonT(40), <1>1, <2>1 DEF Moves
  <2> QED BY ZenonT(40), <1>1, <2>2, HeldByOthers DEF IInv, NoSleeper
<1> QED BY ZenonT(40), <1>1 DEF Awake, NoSleeper

(* Most steps: a thread goes from one place to the next and operates on    *)
(* locks.                                                                  *)
LEMMA ThreadStep ==
  ASSUME IInv, NEW c \in CPUs, NEW l \in Pcs, l # "wakeup_time", Goto(c, l),
         LockOp(c), Mine(c), Awake, UNCHANGED <<run, next>>, pc[run[c]] # "pick",
         run[c] \in Procs => l \in ProcPcs,
         run[c] = c => l \in SchedPcs \ {"pick", "switched"},
         LocksHeld(c)', Interrupts(c)', Reasons(c)', States(c)'
  PROVE  IInv'
<1>1. Place(c)' /\ Moves(c) /\ pc'[run[c]] = l
  BY ZenonT(40), PlaceKept, GotoMoves
<1>2. NoSleeper'
  BY ZenonT(40), <1>1, StaysAwake
<1> QED BY ZenonT(40), <1>1, <1>2, LocalStep DEF CpuInv, Local

(* A step inside the kernel of the process on a CPU keeps the invariant if *)
(* it keeps what it says of this CPU.                                      *)
LEMMA ProcStep ==
  ASSUME IInv, NEW c \in CPUs, run[c] \in Procs, NEW l \in ProcPcs \ {"wakeup_time"},
         Goto(c, l), LockOp(c), Mine(c), Awake, UNCHANGED <<run, next>>,
         LocksHeld(c)', Interrupts(c)', Reasons(c)', States(c)'
  PROVE  IInv'
<1>1. run[c] # c /\ l \in Pcs /\ l # "wakeup_time"
  BY ZenonT(40), SchedAssumption DEF ProcPcs
<1>2. pc[run[c]] # "pick"
  BY ZenonT(40), <1>1 DEF IInv, CpuInv, Place, ProcPcs
<1> QED BY ZenonT(40), <1>1, <1>2, ThreadStep

(* The end of a system call, or of the handling of an interrupt. *)
LEMMA ToTrap ==
  ASSUME IInv, NEW c \in CPUs, run[c] \in Procs,
         Goto(c, "trap"), LockOp(c), Mine(c), UNCHANGED <<run, next, chan, call>>,
         Held(c)' = {}, intr'[c] = (call[run[c]] # "timer"), ~nested'[run[c]],
         state'[run[c]] = "RUNNING"
  PROVE  IInv'
<1>1. "trap" \in ProcPcs \ {"wakeup_time"} /\ "trap" \in Pcs
  BY ZenonT(40) DEF ProcPcs, Pcs
<1>2. pc'[run'[c]] = "trap"
  BY ZenonT(40), <1>1, GotoMoves
<1>3. LocksHeld(c)'
  BY ZenonT(40), <1>2 DEF LocksHeld, Owns, Looks
<1>4. Interrupts(c)'
  BY ZenonT(40), <1>2 DEF Interrupts, CallPcs
<1>5. Reasons(c)'
  BY ZenonT(40), <1>2 DEF Reasons, InTimer
<1>6. States(c)'
  BY ZenonT(40), <1>2 DEF States
<1> QED BY ZenonT(40), <1>1, <1>3, <1>4, <1>5, <1>6, ProcStep, SameAwake

(* Inside a system call that holds a lock. *)
LEMMA ToCall ==
  ASSUME IInv, NEW c \in CPUs, run[c] \in Procs, NEW l \in CallPcs,
         Goto(c, l), LockOp(c), Mine(c), Awake, UNCHANGED <<run, next, call>>,
         LocksHeld(c)', ~intr'[c], intena'[c], call[run[c]] # "timer",
         ~nested'[run[c]], state'[run[c]] = "RUNNING",
         l = "sleep_loop" => call[run[c]] = "sleep",
         l = "wait_loop" => call[run[c]] # "sleep",
         l = "freeproc" => state'[look'[run[c]]] = "ZOMBIE"
  PROVE  IInv'
<1>1. /\ l \in ProcPcs \ {"wakeup_time"} /\ l \in Pcs
      /\ l \notin {"kernel", "trap", "trapout", "yield", "yield_time", "sched",
                   "woken", "ps_lock", "tick", "yielded", "asleep", "wakeup",
                   "wakeup_time", "pick"}
  BY ZenonT(40) DEF ProcPcs, Pcs, CallPcs
<1>2. pc'[run'[c]] = l
  BY ZenonT(40), <1>1, GotoMoves
<1>3. Interrupts(c)'
  BY ZenonT(40), <1>1, <1>2 DEF Interrupts
<1>4. Reasons(c)'
  BY ZenonT(40), <1>1, <1>2 DEF Reasons, InTimer
<1>5. States(c)'
  BY ZenonT(40), <1>1, <1>2 DEF States
<1> QED BY ZenonT(40), <1>1, <1>3, <1>4, <1>5, ProcStep

(* What is known inside a system call. *)
LEMMA FromCall ==
  ASSUME IInv, NEW c \in CPUs, pc[run[c]] \in CallPcs \cup {"kernel", "ps_lock", "woken"}
  PROVE  /\ run[c] \in Procs /\ run[c] \in Locks /\ run[c] \in Threads
         /\ call[run[c]] # "timer" /\ ~nested[run[c]] /\ state[run[c]] = "RUNNING"
         /\ pc[run[c]] \in CallPcs => intena[c]
         /\ pc[run[c]] \notin CallPcs => intr[c]
         /\ Held(c) # {} => ~intr[c]
<1>1. /\ pc[run[c]] \notin {"forkret", "user", "trapin", "trap", "trapout", "tick",
                            "yield", "yield_time", "yielded", "wakeup", "wakeup_time",
                            "sched", "exit", "exit_time"}
      /\ pc[run[c]] \notin SchedPcs
      /\ pc[run[c]] \in CallPcs \/ pc[run[c]] \in {"kernel", "ps_lock", "woken"}
  BY ZenonT(40) DEF CallPcs, SchedPcs
<1>2. run[c] \in Procs /\ run[c] \in Locks /\ run[c] \in Threads
  BY ZenonT(40), <1>1, OnProc
<1>3. CpuInv(c)
  BY ZenonT(40) DEF IInv
<1>4. call[run[c]] # "timer" /\ ~nested[run[c]]
  BY ZenonT(40), <1>1, <1>2, <1>3 DEF CpuInv, Reasons, InTimer, InExit
<1>5. state[run[c]] = "RUNNING"
  BY ZenonT(40), <1>1, <1>2, <1>3 DEF CpuInv, States
<1>6. /\ pc[run[c]] \in CallPcs => intena[c]
      /\ pc[run[c]] \notin CallPcs => intr[c]
      /\ Held(c) # {} => ~intr[c]
  BY ZenonT(40), <1>1, <1>3, <1>4 DEF CpuInv, Interrupts
<1> QED BY ZenonT(40), <1>2, <1>4, <1>5, <1>6

(* A step that takes and releases no lock. *)
LEMMA SameLocks ==
  ASSUME IInv, NEW c \in CPUs, UNCHANGED <<lk, intr, intena>>
  PROVE  LockOp(c) /\ Held(c)' = Held(c)
BY DEF IInv, TypeOK, LockOp, Held

(* A system call releases its locks and returns. *)
LEMMA CallReturns ==
  ASSUME IInv, NEW c \in CPUs, pc[run[c]] \in CallPcs, release(c, Held(c)),
         Goto(c, "trap"), Mine(c), UNCHANGED <<run, next, chan, call, nested>>,
         state'[run[c]] = state[run[c]]
  PROVE  IInv'
<1>1. /\ run[c] \in Procs /\ call[run[c]] # "timer" /\ ~nested[run[c]]
      /\ state[run[c]] = "RUNNING" /\ intena[c] /\ TypeOK
  BY ZenonT(40), FromCall DEF IInv
<1>2. LockOp(c) /\ Held(c)' = {} /\ intr'[c] = intena[c]
  <2>1. Held(c) \subseteq Held(c) /\ Held(c) \ Held(c) = {}
    BY ZenonT(40)
  <2> QED BY ZenonT(40), <1>1, <2>1, releaseOp
<1>3. intr'[c] = (call[run[c]] # "timer")
  BY ZenonT(40), <1>1, <1>2
<1> QED BY ZenonT(40), <1>1, <1>2, <1>3, ToTrap

(* The entry a loop over the table looks at, and the one after it, are in  *)
(* range.                                                                  *)
LEMMA LookRange == ASSUME IInv, NEW c \in CPUs
  PROVE  /\ 1 \in 1 .. NPROC + 1 /\ Procs \subseteq 1 .. NPROC + 1
         /\ run[c] \in Threads /\ look[run[c]] \in 1 .. NPROC + 1
         /\ look[run[c]] \in Procs => look[run[c]] + 1 \in 1 .. NPROC + 1
BY SchedAssumption DEF IInv, TypeOK, Procs

-----------------------------------------------------------------------------
(* System calls *)

(* getpid() keeps the invariant. *)
LEMMA getpidInv == ASSUME IInv, NEW c \in CPUs, getpid(c) PROVE IInv'
<1>1. /\ pc[run[c]] = "kernel" /\ Goto(c, "trap")
      /\ UNCHANGED <<lk, intr, intena, run, next, state, chan, call, nested, saved, look>>
  BY DEF getpid, InCall, cpuVars, procVars, localVars
<1>2. /\ run[c] \in Procs /\ intr[c] /\ call[run[c]] # "timer" /\ ~nested[run[c]]
      /\ state[run[c]] = "RUNNING"
  BY ZenonT(40), <1>1, FromCall DEF CallPcs
<1>3. Held(c) = {}
  BY ZenonT(40), <1>1 DEF IInv, CpuInv, LocksHeld, Nothing
<1>4. LockOp(c) /\ Held(c)' = {} /\ Mine(c)
  BY ZenonT(40), <1>1, <1>3, SameLocks, SameFields
<1> QED BY ZenonT(40), <1>1, <1>2, <1>4, ToTrap

(* sys_sleep() takes tickslock. *)
LEMMA sys_sleepInv ==
  ASSUME IInv, NEW c \in CPUs, NEW k, sys_sleep(c, k) PROVE IInv'
<1>1. /\ pc[run[c]] = "kernel" /\ call[run[c]] = "sleep" /\ acquire(c, tickslock)
      /\ Goto(c, "sleep_loop")
      /\ UNCHANGED <<run, next, state, chan, call, nested, saved, look>>
  BY DEF sys_sleep, InCall, procVars
<1>2. /\ run[c] \in Procs /\ intr[c] /\ call[run[c]] # "timer" /\ ~nested[run[c]]
      /\ state[run[c]] = "RUNNING"
  BY ZenonT(40), <1>1, FromCall DEF CallPcs
<1>3. Held(c) = {} /\ TypeOK /\ tickslock \in Locks
  BY ZenonT(40), <1>1 DEF IInv, CpuInv, LocksHeld, Nothing, Locks
<1>4. LockOp(c) /\ Held(c)' = {tickslock} /\ ~intr'[c] /\ intena'[c]
  BY ZenonT(40), <1>1, <1>2, <1>3, acquireOp
<1>5. "sleep_loop" \in CallPcs /\ "sleep_loop" \in Pcs
  BY ZenonT(40) DEF CallPcs, Pcs
<1>6. pc'[run'[c]] = "sleep_loop"
  BY ZenonT(40), <1>1, <1>5, GotoMoves
<1>7. LocksHeld(c)'
  BY ZenonT(40), <1>4, <1>6 DEF LocksHeld, Nothing, Owns, Looks
<1> QED BY ZenonT(40), <1>1, <1>2, <1>4, <1>5, <1>7, ToCall, SameFields, SameAwake

(* The test of the loop of sys_sleep() goes on to sleep() under tickslock. *)
LEMMA SleepLoopInv == ASSUME IInv, NEW c \in CPUs, SleepLoop(c) PROVE IInv'
<1>1. /\ pc[run[c]] = "sleep_loop" /\ Touch(c, run[c]) /\ Goto(c, "sleep")
      /\ UNCHANGED <<run, next, state, chan, call, nested, saved, look>>
  BY DEF SleepLoop, procVars, localVars
<1>2. /\ run[c] \in Procs /\ intena[c] /\ call[run[c]] # "timer" /\ ~nested[run[c]]
      /\ state[run[c]] = "RUNNING" /\ (Held(c) # {} => ~intr[c])
  BY ZenonT(40), <1>1, FromCall DEF CallPcs
<1>3. Held(c) = {tickslock} /\ TypeOK /\ call[run[c]] = "sleep"
  BY ZenonT(40), <1>1, <1>2 DEF IInv, CpuInv, LocksHeld, Reasons
<1>4. LockOp(c) /\ Held(c)' = {tickslock} /\ ~intr'[c] /\ intena'[c]
  BY ZenonT(40), <1>1, <1>2, <1>3, TouchOp
<1>5. "sleep" \in CallPcs /\ "sleep" \in Pcs
  BY ZenonT(40) DEF CallPcs, Pcs
<1>6. pc'[run'[c]] = "sleep"
  BY ZenonT(40), <1>1, <1>5, GotoMoves
<1>7. LocksHeld(c)'
  BY ZenonT(40), <1>1, <1>3, <1>4, <1>6 DEF LocksHeld, Nothing, Owns, Looks, CondLock
<1> QED BY ZenonT(40), <1>1, <1>2, <1>4, <1>5, <1>7, ToCall, SameFields, SameAwake

(* sys_sleep() returns and releases tickslock. *)
LEMMA SleepReturnsInv == ASSUME IInv, NEW c \in CPUs, SleepReturns(c) PROVE IInv'
<1>1. /\ pc[run[c]] = "sleep_loop" /\ release(c, {tickslock}) /\ Goto(c, "trap")
      /\ UNCHANGED <<run, next, state, chan, call, nested, saved, look>>
  BY DEF SleepReturns, procVars
<1>2. Held(c) = {tickslock} /\ pc[run[c]] \in CallPcs
  BY ZenonT(40), <1>1 DEF IInv, CpuInv, LocksHeld, CallPcs
<1> QED BY ZenonT(40), <1>1, <1>2, CallReturns, SameFields

(* sleep() exchanges the lock of the condition for p->lock. *)
LEMMA sleepInv == ASSUME IInv, NEW c \in CPUs, sleep(c) PROVE IInv'
<1> DEFINE p == run[c]
<1>1. /\ pc[p] = "sleep" /\ Exchange(c, p, CondLock(p)) /\ Goto(c, "sleep_time")
      /\ chan' = [chan EXCEPT ![p] = CondChan(p)]
      /\ UNCHANGED <<run, next, state, call, nested, saved, look>>
  BY DEF sleep, localVars
<1>2. /\ p \in Procs /\ p \in Locks /\ intena[c] /\ call[p] # "timer" /\ ~nested[p]
      /\ state[p] = "RUNNING" /\ (Held(c) # {} => ~intr[c])
  BY ZenonT(40), <1>1, FromCall DEF CallPcs
<1>3. Held(c) = {CondLock(p)} /\ TypeOK /\ p # CondLock(p)
  BY ZenonT(40), <1>1, <1>2, SchedAssumption DEF IInv, CpuInv, LocksHeld, CondLock
<1>4. LockOp(c) /\ Held(c)' = {p} /\ ~intr'[c] /\ intena'[c]
  <2>1. /\ LockOp(c) /\ intr' = intr /\ intena' = intena
        /\ Held(c)' = (Held(c) \ {CondLock(p)}) \cup {p}
    BY ZenonT(40), <1>1, <1>2, <1>3, ExchangeOp
  <2>2. Held(c)' = {p} /\ Held(c) # {}
    BY ZenonT(40), <1>3, <2>1
  <2> QED BY ZenonT(40), <1>2, <2>1, <2>2
<1>5. "sleep_time" \in CallPcs /\ "sleep_time" \in Pcs
  BY ZenonT(40) DEF CallPcs, Pcs
<1>6. pc'[run'[c]] = "sleep_time" /\ run'[c] = p
  BY ZenonT(40), <1>1, <1>5, GotoMoves
<1>7. LocksHeld(c)'
  BY ZenonT(40), <1>4, <1>6 DEF LocksHeld, Nothing, Owns, Looks
<1>8. Awake
  <2>1. ASSUME "sleep" \notin Calls, NEW q \in Procs PROVE chan'[q] # TicksChan
    <3>1. call[p] # "sleep" /\ chan[q] # TicksChan /\ p # TicksChan
      BY ZenonT(40), <1>2, <2>1, SchedAssumption DEF IInv, NoSleeper
    <3>2. chan \in [Procs -> Chans] /\ CondChan(p) = p
      BY ZenonT(40), <3>1 DEF CondChan, IInv, TypeOK
    <3>3. chan' = [chan EXCEPT ![p] = p]
      BY ZenonT(40), <1>1, <3>2
    <3>4. chan'[q] \in {p, chan[q]}
      BY <3>2, <3>3
    <3> QED BY ZenonT(40), <3>1, <3>4
  <2> QED BY ZenonT(40), <1>1, <2>1 DEF Awake, IInv, NoSleeper
<1>9. CondChan(p) \in Chans
  BY ZenonT(40), <1>2 DEF CondChan, Chans
<1> QED BY ZenonT(40), <1>1, <1>2, <1>4, <1>5, <1>7, <1>8, <1>9, ToCall, SameButChan

(* sleep() reads the time under p->lock and goes to sched(). *)
LEMMA SleepTimeInv == ASSUME IInv, NEW c \in CPUs, SleepTime(c) PROVE IInv'
<1> DEFINE p == run[c]
<1>1. /\ pc[p] = "sleep_time" /\ Touch(c, tickslock) /\ Goto(c, "sched")
      /\ state' = [state EXCEPT ![p] = "SLEEPING"]
      /\ UNCHANGED <<run, next, chan, call, nested, saved, look>>
  BY DEF SleepTime, sys_uptime, localVars
<1>2. /\ p \in Procs /\ intena[c] /\ call[p] # "timer" /\ ~nested[p]
      /\ (Held(c) # {} => ~intr[c])
  BY ZenonT(40), <1>1, FromCall DEF CallPcs
<1>3. Held(c) = {p} /\ TypeOK
  BY ZenonT(40), <1>1 DEF IInv, CpuInv, LocksHeld, Owns
<1>4. LockOp(c) /\ Held(c)' = {p} /\ ~intr'[c] /\ intena'[c]
  BY ZenonT(40), <1>1, <1>2, <1>3, TouchOp
<1>5. "sched" \in ProcPcs \ {"wakeup_time"} /\ "sched" \in Pcs
  BY ZenonT(40) DEF ProcPcs, Pcs
<1>6. pc'[run'[c]] = "sched" /\ run'[c] = p
  BY ZenonT(40), <1>1, <1>5, GotoMoves
<1>7. Mine(c) /\ state'[p] = "SLEEPING"
  BY ZenonT(40), <1>1, <1>2, OwnState DEF ProcStates
<1>8. LocksHeld(c)' /\ Interrupts(c)'
  BY ZenonT(40), <1>4, <1>6, <1>7
  DEF LocksHeld, Interrupts, Nothing, Owns, Looks, CallPcs
<1>9. Reasons(c)' /\ States(c)'
  BY ZenonT(40), <1>1, <1>2, <1>6, <1>7 DEF Reasons, InTimer, States
<1> QED BY ZenonT(40), <1>1, <1>2, <1>4, <1>5, <1>7, <1>8, <1>9, ProcStep, SameAwake

(* A process that was woken takes the lock of its condition again. *)
LEMMA ReacquireInv == ASSUME IInv, NEW c \in CPUs, Reacquire(c) PROVE IInv'
<1> DEFINE p == run[c]
           l == IF call[p] = "sleep" THEN "sleep_loop" ELSE "wait_loop"
<1>1. /\ pc[p] = "woken" /\ acquire(c, CondLock(p)) /\ Goto(c, l)
      /\ UNCHANGED <<run, next, state, chan, call, nested, saved, look>>
  BY DEF Reacquire, procVars, localVars
<1>2. /\ p \in Procs /\ intr[c] /\ call[p] # "timer" /\ ~nested[p]
      /\ state[p] = "RUNNING"
  BY ZenonT(40), <1>1, FromCall DEF CallPcs
<1>3. Held(c) = {} /\ TypeOK /\ CondLock(p) \in Locks
  BY ZenonT(40), <1>1 DEF IInv, CpuInv, LocksHeld, Nothing, CondLock, Locks
<1>4. LockOp(c) /\ Held(c)' = {CondLock(p)} /\ ~intr'[c] /\ intena'[c]
  BY ZenonT(40), <1>1, <1>2, <1>3, acquireOp
<1>5. l \in CallPcs /\ l \in Pcs
  BY ZenonT(40) DEF CallPcs, Pcs
<1>6. pc'[run'[c]] = l
  BY ZenonT(40), <1>1, <1>5, GotoMoves
<1>7. LocksHeld(c)'
  BY ZenonT(40), <1>4, <1>6 DEF LocksHeld, Nothing, Owns, Looks, CondLock
<1>8. /\ l = "sleep_loop" => call[p] = "sleep"
      /\ l = "wait_loop" => call[p] # "sleep"
      /\ l # "freeproc"
  BY ZenonT(40)
<1> QED BY ZenonT(40), <1>1, <1>2, <1>4, <1>5, <1>7, <1>8, ToCall, SameFields, SameAwake

(* wait() takes wait_lock. *)
LEMMA waitInv == ASSUME IInv, NEW c \in CPUs, wait(c) PROVE IInv'
<1>1. /\ pc[run[c]] = "kernel" /\ call[run[c]] = "wait" /\ acquire(c, wait_lock)
      /\ Goto(c, "wait_loop")
      /\ UNCHANGED <<run, next, state, chan, call, nested, saved, look>>
  BY DEF wait, InCall, procVars, localVars
<1>2. /\ run[c] \in Procs /\ intr[c] /\ call[run[c]] # "timer" /\ ~nested[run[c]]
      /\ state[run[c]] = "RUNNING"
  BY ZenonT(40), <1>1, FromCall DEF CallPcs
<1>3. Held(c) = {} /\ TypeOK /\ wait_lock \in Locks
  BY ZenonT(40), <1>1 DEF IInv, CpuInv, LocksHeld, Nothing, Locks
<1>4. LockOp(c) /\ Held(c)' = {wait_lock} /\ ~intr'[c] /\ intena'[c]
  BY ZenonT(40), <1>1, <1>2, <1>3, acquireOp
<1>5. "wait_loop" \in CallPcs /\ "wait_loop" \in Pcs
  BY ZenonT(40) DEF CallPcs, Pcs
<1>6. pc'[run'[c]] = "wait_loop"
  BY ZenonT(40), <1>1, <1>5, GotoMoves
<1>7. LocksHeld(c)'
  BY ZenonT(40), <1>4, <1>6 DEF LocksHeld, Nothing, Owns, Looks
<1> QED BY ZenonT(40), <1>1, <1>2, <1>4, <1>5, <1>7, ToCall, SameFields, SameAwake

(* wait() has found a zombie and holds its lock and wait_lock. *)
LEMMA WaitFoundInv ==
  ASSUME IInv, NEW c \in CPUs, NEW q \in Procs, WaitFound(c, q) PROVE IInv'
<1> DEFINE p == run[c]
<1>1. /\ pc[p] = "wait_loop" /\ state[q] = "ZOMBIE" /\ acquire(c, q)
      /\ Goto(c, "freeproc") /\ look' = [look EXCEPT ![p] = q]
      /\ UNCHANGED <<run, next, state, chan, call, nested, saved>>
  BY DEF WaitFound, procVars
<1>2. /\ p \in Procs /\ intena[c] /\ call[p] # "timer" /\ ~nested[p]
      /\ state[p] = "RUNNING" /\ (Held(c) # {} => ~intr[c])
  BY ZenonT(40), <1>1, FromCall DEF CallPcs
<1>3. Held(c) = {wait_lock} /\ TypeOK /\ q \in Locks
  BY ZenonT(40), <1>1 DEF IInv, CpuInv, LocksHeld, Locks
<1>4. LockOp(c) /\ Held(c)' = Held(c) \cup {q} /\ ~intr'[c] /\ intena'[c]
  BY ZenonT(40), <1>1, <1>2, <1>3, acquireOp
<1>8. Held(c)' = {q, wait_lock}
  BY ZenonT(40), <1>3, <1>4
<1>5. "freeproc" \in CallPcs /\ "freeproc" \in Pcs /\ q \in 1 .. NPROC + 1
  BY ZenonT(40), LookRange DEF CallPcs, Pcs
<1>6. pc'[run'[c]] = "freeproc" /\ look'[run'[c]] = q /\ Mine(c)
  BY ZenonT(40), <1>1, <1>5, GotoMoves, SameStates
<1>7. LocksHeld(c)'
  BY ZenonT(40), <1>8, <1>6 DEF LocksHeld, Nothing, Owns, Looks
<1> QED BY ZenonT(40), <1>1, <1>2, <1>4, <1>5, <1>6, <1>7, ToCall, SameAwake

(* The end of freeproc() and of a failing copyout(). *)
LEMMA FreeLocks ==
  ASSUME IInv, NEW c \in CPUs, pc[run[c]] = "freeproc"
  PROVE  /\ Held(c) = {look[run[c]], wait_lock} /\ look[run[c]] \in Procs
         /\ look[run[c]] # run[c] /\ state[look[run[c]]] = "ZOMBIE"
         /\ lk[look[run[c]]] = c /\ run[c] \in Procs /\ pc[run[c]] \in CallPcs
<1>1. /\ Held(c) = {look[run[c]], wait_lock} /\ look[run[c]] \in Procs
      /\ state[look[run[c]]] = "ZOMBIE" /\ pc[run[c]] \in CallPcs
  BY ZenonT(40) DEF IInv, CpuInv, LocksHeld, States, Looks, CallPcs
<1>2. lk[look[run[c]]] = c
  BY ZenonT(40), <1>1 DEF Held
<1>3. run[c] \in Procs /\ state[run[c]] = "RUNNING"
  BY ZenonT(40), <1>1, FromCall
<1> QED BY ZenonT(40), <1>1, <1>2, <1>3

(* freeproc() makes the zombie UNUSED and wait() releases both locks. *)
LEMMA freeprocInv == ASSUME IInv, NEW c \in CPUs, freeproc(c) PROVE IInv'
<1> DEFINE p == run[c]
           q == look[p]
<1>1. /\ pc[p] = "freeproc" /\ release(c, {q, wait_lock}) /\ Goto(c, "trap")
      /\ state' = [state EXCEPT ![q] = "UNUSED"]
      /\ look' = [look EXCEPT ![p] = 1]
      /\ UNCHANGED <<run, next, chan, call, nested, saved>>
  BY DEF freeproc, LookReset
<1>2. /\ Held(c) = {q, wait_lock} /\ q \in Procs /\ q # p /\ state[q] = "ZOMBIE"
      /\ lk[q] = c /\ p \in Procs /\ pc[p] \in CallPcs
  BY ZenonT(40), <1>1, FreeLocks
<1>3. Mine(c) /\ state'[p] = state[p]
  BY ZenonT(40), <1>1, <1>2, OtherState, LookRange DEF ProcStates
<1> QED BY ZenonT(40), <1>1, <1>2, <1>3, CallReturns

(* wait() releases both locks when the copy of the status fails. *)
LEMMA WaitCopyoutFailsInv == ASSUME IInv, NEW c \in CPUs, WaitCopyoutFails(c) PROVE IInv'
<1>1. /\ pc[run[c]] = "freeproc" /\ release(c, {look[run[c]], wait_lock})
      /\ Goto(c, "trap") /\ look' = [look EXCEPT ![run[c]] = 1]
      /\ UNCHANGED <<run, next, state, chan, call, nested, saved>>
  BY DEF WaitCopyoutFails, LookReset, procVars
<1>2. Held(c) = {look[run[c]], wait_lock} /\ pc[run[c]] \in CallPcs
  BY ZenonT(40), <1>1, FreeLocks
<1> QED BY ZenonT(40), <1>1, <1>2, CallReturns, SameStates, LookRange

(* wait() returns, or goes to sleep, when there is no zombie. *)
LEMMA WaitNoneInv == ASSUME IInv, NEW c \in CPUs, WaitNone(c) PROVE IInv'
<1> DEFINE p == run[c]
<1>1. /\ pc[p] = "wait_loop"
      /\ \/ release(c, {wait_lock}) /\ Goto(c, "trap")
         \/ Goto(c, "sleep") /\ UNCHANGED <<lk, intr, intena>>
      /\ UNCHANGED <<run, next, state, chan, call, nested, saved, look>>
  BY DEF WaitNone, procVars, localVars
<1>2. /\ p \in Procs /\ intena[c] /\ call[p] # "timer" /\ ~nested[p]
      /\ state[p] = "RUNNING" /\ (Held(c) # {} => ~intr[c])
  BY ZenonT(40), <1>1, FromCall DEF CallPcs
<1>3. Held(c) = {wait_lock} /\ call[p] # "sleep" /\ pc[p] \in CallPcs
  BY ZenonT(40), <1>1, <1>2 DEF IInv, CpuInv, LocksHeld, Reasons, CallPcs
<1>4. CASE release(c, {wait_lock}) /\ Goto(c, "trap")
  BY ZenonT(40), <1>1, <1>3, <1>4, CallReturns, SameFields
<1>5. CASE Goto(c, "sleep") /\ UNCHANGED <<lk, intr, intena>>
  <2>1. LockOp(c) /\ Held(c)' = {wait_lock} /\ intr' = intr /\ intena' = intena
    BY ZenonT(40), <1>3, <1>5, SameLocks
  <2>2. ~intr'[c] /\ intena'[c]
    BY ZenonT(40), <1>2, <1>3, <2>1
  <2>3. "sleep" \in CallPcs /\ "sleep" \in Pcs
    BY ZenonT(40) DEF CallPcs, Pcs
  <2>4. pc'[run'[c]] = "sleep"
    BY ZenonT(40), <1>1, <1>5, <2>3, GotoMoves
  <2>5. LocksHeld(c)'
    BY ZenonT(40), <1>1, <1>3, <2>1, <2>4 DEF LocksHeld, Nothing, Owns, Looks, CondLock
  <2> QED BY ZenonT(40), <1>1, <1>2, <1>5, <2>1, <2>2, <2>3, <2>5, ToCall, SameFields,
             SameAwake
<1> QED BY ZenonT(40), <1>1, <1>4, <1>5

(* kill() takes the lock of its target and wakes a sleeper. *)
LEMMA killInv ==
  ASSUME IInv, NEW c \in CPUs, NEW q \in Procs, kill(c, q) PROVE IInv'
<1> DEFINE p == run[c]
<1>1. /\ pc[p] = "kernel"
      /\ \/ /\ state[q] = "SLEEPING" /\ acquire(c, q)
            /\ state' = [state EXCEPT ![q] = "RUNNABLE"]
            /\ look' = [look EXCEPT ![p] = q] /\ Goto(c, "kill_time")
         \/ Touch(c, q) /\ Goto(c, "trap") /\ UNCHANGED <<state, look>>
      /\ UNCHANGED <<run, next, chan, call, nested, saved>>
  BY DEF kill, InCall
<1>2. /\ p \in Procs /\ intr[c] /\ call[p] # "timer" /\ ~nested[p]
      /\ state[p] = "RUNNING"
  BY ZenonT(40), <1>1, FromCall DEF CallPcs
<1>3. Held(c) = {} /\ TypeOK /\ q \in Locks
  BY ZenonT(40), <1>1 DEF IInv, CpuInv, LocksHeld, Nothing, Locks
<1>4. CASE /\ state[q] = "SLEEPING" /\ acquire(c, q)
           /\ state' = [state EXCEPT ![q] = "RUNNABLE"]
           /\ look' = [look EXCEPT ![p] = q] /\ Goto(c, "kill_time")
  <2>1. LockOp(c) /\ Held(c)' = {q} /\ ~intr'[c] /\ intena'[c]
    BY ZenonT(40), <1>2, <1>3, <1>4, acquireOp
  <2>2. "kill_time" \in CallPcs /\ "kill_time" \in Pcs /\ q \in 1 .. NPROC + 1
    BY ZenonT(40), LookRange DEF CallPcs, Pcs
  <2>3. q # p /\ lk[q] \in {c, None}
    BY ZenonT(40), <1>2, <1>4 DEF acquire
  <2>4. Mine(c) /\ look'[p] = q /\ state'[p] = "RUNNING"
    BY ZenonT(40), <1>1, <1>2, <1>4, <2>2, <2>3, OtherState
  <2>5. pc'[run'[c]] = "kill_time" /\ look'[run'[c]] = q
    BY ZenonT(40), <1>1, <1>4, <2>2, <2>4, GotoMoves
  <2>6. LocksHeld(c)'
    BY ZenonT(40), <2>1, <2>5 DEF LocksHeld, Nothing, Owns, Looks
  <2> QED BY ZenonT(40), <1>1, <1>2, <1>4, <2>1, <2>2, <2>4, <2>6, ToCall, SameAwake
<1>5. CASE Touch(c, q) /\ Goto(c, "trap") /\ UNCHANGED <<state, look>>
  <2>1. LockOp(c) /\ Held(c)' = {} /\ intr' = intr
    BY ZenonT(40), <1>3, <1>5, TouchOp
  <2>2. state' = state /\ look' = look
    BY <1>5
  <2> QED BY ZenonT(40), <1>1, <1>2, <1>5, <2>1, <2>2, ToTrap, SameFields
<1> QED BY ZenonT(40), <1>1, <1>4, <1>5

(* kill() reads the time of the process it has woken and releases the      *)
(* lock.                                                                   *)
LEMMA KillTimeInv == ASSUME IInv, NEW c \in CPUs, KillTime(c) PROVE IInv'
<1>1. /\ pc[run[c]] = "kill_time" /\ release(c, {look[run[c]]})
      /\ Goto(c, "trap") /\ look' = [look EXCEPT ![run[c]] = 1]
      /\ UNCHANGED <<run, next, state, chan, call, nested, saved>>
  BY DEF KillTime, LookReset, procVars
<1>2. Held(c) = {look[run[c]]} /\ pc[run[c]] \in CallPcs
  BY ZenonT(40), <1>1 DEF IInv, CpuInv, LocksHeld, CallPcs
<1> QED BY ZenonT(40), <1>1, <1>2, CallReturns, SameStates, LookRange

-----------------------------------------------------------------------------
(* ps_info() *)

(* ps_info() begins with a process to look at. *)
LEMMA ps_infoInv ==
  ASSUME IInv, NEW c \in CPUs, NEW q \in Procs, ps_info(c, q) PROVE IInv'
<1> DEFINE p == run[c]
<1>1. /\ pc[p] = "kernel" /\ Touch(c, q) /\ Goto(c, "ps_lock")
      /\ look' = [look EXCEPT ![p] = q]
      /\ UNCHANGED <<run, next, state, chan, call, nested, saved>>
  BY DEF ps_info, InCall, procVars
<1>2. /\ p \in Procs /\ intr[c] /\ call[p] # "timer" /\ ~nested[p]
      /\ state[p] = "RUNNING"
  BY ZenonT(40), <1>1, FromCall DEF CallPcs
<1>3. Held(c) = {} /\ TypeOK
  BY ZenonT(40), <1>1 DEF IInv, CpuInv, LocksHeld, Nothing
<1>4. LockOp(c) /\ Held(c)' = {} /\ intr'[c]
  BY ZenonT(40), <1>1, <1>2, <1>3, TouchOp
<1>5. "ps_lock" \in ProcPcs \ {"wakeup_time"} /\ "ps_lock" \in Pcs /\ q \in 1 .. NPROC + 1
  BY ZenonT(40), LookRange DEF ProcPcs, Pcs
<1>6. pc'[run'[c]] = "ps_lock" /\ look'[run'[c]] = q /\ Mine(c) /\ run'[c] = p
  BY ZenonT(40), <1>1, <1>5, GotoMoves, SameStates
<1>7. LocksHeld(c)' /\ Interrupts(c)'
  BY ZenonT(40), <1>4, <1>6
  DEF LocksHeld, Interrupts, Nothing, Owns, Looks, CallPcs
<1>8. Reasons(c)' /\ States(c)'
  BY ZenonT(40), <1>1, <1>2, <1>6 DEF Reasons, InTimer, States
<1> QED BY ZenonT(40), <1>1, <1>2, <1>4, <1>5, <1>6, <1>7, <1>8, ProcStep, SameAwake

(* ps_info() takes the lock of that process. *)
LEMMA PsStateInv == ASSUME IInv, NEW c \in CPUs, PsState(c) PROVE IInv'
<1> DEFINE p == run[c]
           q == look[p]
<1>1. /\ pc[p] = "ps_lock" /\ acquire(c, q) /\ Goto(c, "ps_wait")
      /\ UNCHANGED <<run, next, state, chan, call, nested, saved, look>>
  BY DEF PsState, procVars, localVars
<1>2. /\ p \in Procs /\ intr[c] /\ call[p] # "timer" /\ ~nested[p]
      /\ state[p] = "RUNNING"
  BY ZenonT(40), <1>1, FromCall DEF CallPcs
<1>3. Held(c) = {} /\ TypeOK /\ q \in Procs /\ q \in Locks
  BY ZenonT(40), <1>1 DEF IInv, CpuInv, LocksHeld, Nothing, Looks, Locks
<1>4. LockOp(c) /\ Held(c)' = {q} /\ ~intr'[c] /\ intena'[c]
  BY ZenonT(40), <1>1, <1>2, <1>3, acquireOp
<1>5. "ps_wait" \in CallPcs /\ "ps_wait" \in Pcs
  BY ZenonT(40) DEF CallPcs, Pcs
<1>6. pc'[run'[c]] = "ps_wait" /\ look'[run'[c]] = q
  BY ZenonT(40), <1>1, <1>5, GotoMoves
<1>7. LocksHeld(c)'
  BY ZenonT(40), <1>3, <1>4, <1>6 DEF LocksHeld, Nothing, Owns, Looks
<1> QED BY ZenonT(40), <1>1, <1>2, <1>4, <1>5, <1>7, ToCall, SameFields, SameAwake

(* ps_info() takes wait_lock while it holds the lock. *)
LEMMA PsWaitLockInv == ASSUME IInv, NEW c \in CPUs, PsWaitLock(c) PROVE IInv'
<1> DEFINE p == run[c]
           q == look[p]
<1>1. /\ pc[p] = "ps_wait" /\ acquire(c, wait_lock) /\ Goto(c, "ps_parent")
      /\ UNCHANGED <<run, next, state, chan, call, nested, saved, look>>
  BY DEF PsWaitLock, procVars, localVars
<1>2. /\ p \in Procs /\ intena[c] /\ call[p] # "timer" /\ ~nested[p]
      /\ state[p] = "RUNNING"
  BY ZenonT(40), <1>1, FromCall DEF CallPcs
<1>3. Held(c) = {q} /\ TypeOK /\ q \in Procs /\ wait_lock \in Locks
  BY ZenonT(40), <1>1 DEF IInv, CpuInv, LocksHeld, Looks, Locks
<1>4. LockOp(c) /\ Held(c)' = Held(c) \cup {wait_lock} /\ ~intr'[c] /\ intena'[c]
  BY ZenonT(40), <1>1, <1>2, <1>3, acquireOp
<1>5. Held(c)' = {q, wait_lock}
  BY ZenonT(40), <1>3, <1>4
<1>6. "ps_parent" \in CallPcs /\ "ps_parent" \in Pcs
  BY ZenonT(40) DEF CallPcs, Pcs
<1>7. pc'[run'[c]] = "ps_parent" /\ look'[run'[c]] = q
  BY ZenonT(40), <1>1, <1>6, GotoMoves
<1>8. LocksHeld(c)'
  BY ZenonT(40), <1>3, <1>5, <1>7 DEF LocksHeld, Nothing, Owns, Looks
<1> QED BY ZenonT(40), <1>1, <1>2, <1>4, <1>6, <1>8, ToCall, SameFields, SameAwake

(* ps_info() reads the pid of the parent and releases wait_lock. *)
LEMMA PsParentInv == ASSUME IInv, NEW c \in CPUs, PsParent(c) PROVE IInv'
<1> DEFINE p == run[c]
           q == look[p]
<1>1. /\ pc[p] = "ps_parent" /\ release(c, {wait_lock}) /\ Goto(c, "ps_time")
      /\ UNCHANGED <<run, next, state, chan, call, nested, saved, look>>
  BY DEF PsParent, procVars, localVars
<1>2. /\ p \in Procs /\ intena[c] /\ call[p] # "timer" /\ ~nested[p]
      /\ state[p] = "RUNNING" /\ (Held(c) # {} => ~intr[c])
  BY ZenonT(40), <1>1, FromCall DEF CallPcs
<1>3. Held(c) = {q, wait_lock} /\ TypeOK /\ q \in Procs /\ q # wait_lock
  BY ZenonT(40), <1>1, SchedAssumption DEF IInv, CpuInv, LocksHeld, Looks
<1>4. {wait_lock} \subseteq Held(c) /\ Held(c) # {wait_lock} /\ Held(c) # {}
      /\ Held(c) \ {wait_lock} = {q}
  BY <1>3
<1>5. LockOp(c) /\ Held(c)' = {q} /\ ~intr'[c] /\ intena'[c]
  BY ZenonT(40), <1>1, <1>2, <1>3, <1>4, releaseOp
<1>6. "ps_time" \in CallPcs /\ "ps_time" \in Pcs
  BY ZenonT(40) DEF CallPcs, Pcs
<1>7. pc'[run'[c]] = "ps_time" /\ look'[run'[c]] = q
  BY ZenonT(40), <1>1, <1>6, GotoMoves
<1>8. LocksHeld(c)'
  BY ZenonT(40), <1>3, <1>5, <1>7 DEF LocksHeld, Nothing, Owns, Looks
<1> QED BY ZenonT(40), <1>1, <1>2, <1>5, <1>6, <1>8, ToCall, SameFields, SameAwake

(* ps_info() reads the time, or fails, and releases the lock. *)
LEMMA PsTimeInv == ASSUME IInv, NEW c \in CPUs, PsTime(c) \/ PsFails(c) PROVE IInv'
<1>1. /\ pc[run[c]] \in {"ps_wait", "ps_time"} /\ release(c, {look[run[c]]})
      /\ Goto(c, "trap") /\ look' = [look EXCEPT ![run[c]] = 1]
      /\ UNCHANGED <<run, next, state, chan, call, nested, saved>>
  BY DEF PsTime, PsFails, LookReset, procVars
<1>2. Held(c) = {look[run[c]]} /\ pc[run[c]] \in CallPcs
  BY ZenonT(40), <1>1 DEF IInv, CpuInv, LocksHeld, CallPcs
<1> QED BY ZenonT(40), <1>1, <1>2, CallReturns, SameStates, LookRange

-----------------------------------------------------------------------------
(* exit() *)

(* exit() takes wait_lock and begins to wake the parent. *)
LEMMA exitInv == ASSUME IInv, NEW c \in CPUs, exit(c) PROVE IInv'
<1> DEFINE p == run[c]
<1>1. /\ pc[p] \in {"exit", "kernel"} /\ acquire(c, wait_lock) /\ Goto(c, "wakeup")
      /\ UNCHANGED <<run, next, state, chan, call, nested, saved, look>>
  BY DEF exit, InCall, procVars, localVars
<1>2. p \in Procs
  BY ZenonT(40), <1>1, OnProc DEF SchedPcs
<1>3. /\ Held(c) = {} /\ TypeOK /\ wait_lock \in Locks
      /\ state[p] = "RUNNING" /\ ~nested[p]
  BY ZenonT(40), <1>1, <1>2
  DEF IInv, CpuInv, LocksHeld, Nothing, Locks, States, Reasons, InTimer
<1>4. LockOp(c) /\ Held(c)' = {wait_lock} /\ ~intr'[c]
  BY ZenonT(40), <1>1, <1>2, <1>3, acquireOp
<1>5. ~InClock(c)'
  BY ZenonT(40), <1>4, SchedAssumption DEF InClock, Held, Locks
<1>6. "wakeup" \in ProcPcs \ {"wakeup_time"} /\ "wakeup" \in Pcs
  BY ZenonT(40) DEF ProcPcs, Pcs
<1>7. pc'[run'[c]] = "wakeup" /\ run'[c] = p
  BY ZenonT(40), <1>1, <1>6, GotoMoves
<1>8. LocksHeld(c)' /\ Interrupts(c)'
  BY ZenonT(40), <1>4, <1>5, <1>7
  DEF LocksHeld, Interrupts, Nothing, Owns, Looks, CallPcs, WakeLock
<1>9. Reasons(c)' /\ States(c)'
  BY ZenonT(40), <1>1, <1>2, <1>3, <1>5, <1>7 DEF Reasons, InTimer, InExit, States
<1> QED BY ZenonT(40), <1>1, <1>2, <1>4, <1>6, <1>8, <1>9, ProcStep, SameFields,
           SameAwake

(* A thread in wakeup() that is not in clockintr() is a process in exit(). *)
LEMMA WakeupOfExit ==
  ASSUME IInv, NEW c \in CPUs, pc[run[c]] \in {"wakeup", "wakeup_time"}, run[c] \notin Procs
  PROVE  InClock(c)
BY ZenonT(40) DEF IInv, CpuInv, Reasons

(* exit() takes its own lock after wakeup(). *)
LEMMA ExitLockInv == ASSUME IInv, NEW c \in CPUs, ExitLock(c) PROVE IInv'
<1> DEFINE p == run[c]
<1>1. /\ pc[p] = "wakeup" /\ ~InClock(c) /\ acquire(c, p) /\ Goto(c, "exit_time")
      /\ look' = [look EXCEPT ![p] = 1]
      /\ UNCHANGED <<run, next, state, chan, call, nested, saved>>
  BY DEF ExitLock, LookReset, procVars
<1>2. p \in Procs /\ p \in Locks
  BY ZenonT(40), <1>1, WakeupOfExit DEF Locks
<1>3. /\ Held(c) = {wait_lock} /\ TypeOK /\ state[p] = "RUNNING" /\ ~nested[p]
  BY ZenonT(40), <1>1, <1>2
  DEF IInv, CpuInv, LocksHeld, WakeLock, States, Reasons, InTimer
<1>4. LockOp(c) /\ Held(c)' = Held(c) \cup {p} /\ ~intr'[c]
  BY ZenonT(40), <1>1, <1>2, <1>3, acquireOp
<1>5. Held(c)' = {wait_lock, p}
  BY ZenonT(40), <1>3, <1>4
<1>6. "exit_time" \in ProcPcs \ {"wakeup_time"} /\ "exit_time" \in Pcs
  BY ZenonT(40) DEF ProcPcs, Pcs
<1>7. pc'[run'[c]] = "exit_time" /\ run'[c] = p /\ Mine(c)
  BY ZenonT(40), <1>1, <1>6, GotoMoves, SameStates, LookRange
<1>8. LocksHeld(c)' /\ Interrupts(c)'
  BY ZenonT(40), <1>4, <1>5, <1>7
  DEF LocksHeld, Interrupts, Nothing, Owns, Looks, CallPcs
<1>9. Reasons(c)' /\ States(c)'
  BY ZenonT(40), <1>1, <1>3, <1>7 DEF Reasons, InTimer, InExit, States
<1> QED BY ZenonT(40), <1>1, <1>2, <1>4, <1>6, <1>7, <1>8, <1>9, ProcStep, SameAwake

(* exit() reads the time, becomes a zombie and releases wait_lock before   *)
(* sched().                                                                *)
LEMMA ExitTimeInv == ASSUME IInv, NEW c \in CPUs, ExitTime(c) PROVE IInv'
<1> DEFINE p == run[c]
<1>1. /\ pc[p] = "exit_time" /\ release(c, {wait_lock}) /\ Goto(c, "sched")
      /\ state' = [state EXCEPT ![p] = "ZOMBIE"]
      /\ UNCHANGED <<run, next, chan, call, nested, saved, look>>
  BY DEF ExitTime, localVars
<1>2. p \in Procs /\ p # wait_lock
  BY ZenonT(40), <1>1, OnProc, SchedAssumption DEF SchedPcs
<1>3. Held(c) = {wait_lock, p} /\ TypeOK /\ ~nested[p]
  BY ZenonT(40), <1>1, <1>2 DEF IInv, CpuInv, LocksHeld, Reasons, InTimer
<1>4. /\ {wait_lock} \subseteq Held(c) /\ Held(c) # {wait_lock} /\ Held(c) # {}
      /\ Held(c) \ {wait_lock} = {p}
  BY <1>2, <1>3
<1>5. ~intr[c]
  BY ZenonT(40), <1>4 DEF IInv, CpuInv, Interrupts
<1>6. LockOp(c) /\ Held(c)' = {p} /\ ~intr'[c]
  BY ZenonT(40), <1>1, <1>3, <1>4, <1>5, releaseOp
<1>7. "sched" \in ProcPcs \ {"wakeup_time"} /\ "sched" \in Pcs
  BY ZenonT(40) DEF ProcPcs, Pcs
<1>8. pc'[run'[c]] = "sched" /\ run'[c] = p
  BY ZenonT(40), <1>1, <1>7, GotoMoves
<1>9. Mine(c) /\ state'[p] = "ZOMBIE"
  BY ZenonT(40), <1>1, <1>2, OwnState DEF ProcStates
<1>10. LocksHeld(c)' /\ Interrupts(c)'
  BY ZenonT(40), <1>6, <1>8, <1>9
  DEF LocksHeld, Interrupts, Nothing, Owns, Looks, CallPcs
<1>11. Reasons(c)' /\ States(c)'
  BY ZenonT(40), <1>1, <1>3, <1>8, <1>9 DEF Reasons, InTimer, InExit, States
<1> QED BY ZenonT(40), <1>1, <1>2, <1>6, <1>7, <1>9, <1>10, <1>11, ProcStep, SameAwake

-----------------------------------------------------------------------------
(* yield(), and where its callers and sleep() go on *)

(* yield() takes p->lock and becomes RUNNABLE, with interrupts off before. *)
LEMMA yieldInv == ASSUME IInv, NEW c \in CPUs, yield(c) PROVE IInv'
<1> DEFINE p == run[c]
<1>1. /\ pc[p] = "yield" /\ acquire(c, p) /\ Goto(c, "yield_time")
      /\ state' = [state EXCEPT ![p] = "RUNNABLE"]
      /\ UNCHANGED <<run, next, chan, call, nested, saved, look>>
  BY DEF yield, localVars
<1>2. p \in Procs /\ p \in Locks
  BY ZenonT(40), <1>1, OnProc DEF SchedPcs
<1>3. Held(c) = {} /\ TypeOK /\ nested[p] = (call[p] # "timer") /\ ~intr[c]
  BY ZenonT(40), <1>1, <1>2
  DEF IInv, CpuInv, LocksHeld, Nothing, Reasons, InTimer, Interrupts
<1>4. LockOp(c) /\ Held(c)' = {p} /\ ~intr'[c] /\ ~intena'[c]
  BY ZenonT(40), <1>1, <1>2, <1>3, acquireOp
<1>5. "yield_time" \in ProcPcs \ {"wakeup_time"} /\ "yield_time" \in Pcs
  BY ZenonT(40) DEF ProcPcs, Pcs
<1>6. pc'[run'[c]] = "yield_time" /\ run'[c] = p
  BY ZenonT(40), <1>1, <1>5, GotoMoves
<1>7. Mine(c) /\ state'[p] = "RUNNABLE"
  BY ZenonT(40), <1>1, <1>2, OwnState DEF ProcStates
<1>8. LocksHeld(c)' /\ Interrupts(c)'
  BY ZenonT(40), <1>4, <1>6, <1>7
  DEF LocksHeld, Interrupts, Nothing, Owns, Looks, CallPcs
<1>9. Reasons(c)' /\ States(c)'
  BY ZenonT(40), <1>1, <1>2, <1>3, <1>6, <1>7 DEF Reasons, InTimer, States
<1> QED BY ZenonT(40), <1>1, <1>2, <1>4, <1>5, <1>7, <1>8, <1>9, ProcStep, SameAwake

(* yield() reads the time and goes to sched(). *)
LEMMA YieldTimeInv == ASSUME IInv, NEW c \in CPUs, YieldTime(c) PROVE IInv'
<1> DEFINE p == run[c]
<1>1. /\ pc[p] = "yield_time" /\ Touch(c, tickslock) /\ Goto(c, "sched")
      /\ UNCHANGED <<run, next, state, chan, call, nested, saved, look>>
  BY DEF YieldTime, sys_uptime, procVars, localVars
<1>2. p \in Procs
  BY ZenonT(40), <1>1, OnProc DEF SchedPcs
<1>3. /\ Held(c) = {p} /\ TypeOK /\ nested[p] = (call[p] # "timer") /\ ~intr[c]
      /\ ~intena[c] /\ state[p] = "RUNNABLE"
  BY ZenonT(40), <1>1, <1>2
  DEF IInv, CpuInv, LocksHeld, Owns, Reasons, InTimer, Interrupts, States
<1>4. LockOp(c) /\ Held(c)' = {p} /\ ~intr'[c] /\ ~intena'[c]
  BY ZenonT(40), <1>1, <1>3, TouchOp
<1>5. "sched" \in ProcPcs \ {"wakeup_time"} /\ "sched" \in Pcs
  BY ZenonT(40) DEF ProcPcs, Pcs
<1>6. pc'[run'[c]] = "sched" /\ run'[c] = p
  BY ZenonT(40), <1>1, <1>5, GotoMoves
<1>7. LocksHeld(c)' /\ Interrupts(c)'
  BY ZenonT(40), <1>1, <1>3, <1>4, <1>6
  DEF LocksHeld, Interrupts, Nothing, Owns, Looks, CallPcs
<1>8. Reasons(c)' /\ States(c)'
  BY ZenonT(40), <1>1, <1>2, <1>3, <1>6 DEF Reasons, InTimer, States
<1> QED BY ZenonT(40), <1>1, <1>2, <1>4, <1>5, <1>7, <1>8, ProcStep, SameFields,
           SameAwake

(* The process that comes back from sched() releases its lock. *)
LEMMA OwnLockOp ==
  ASSUME IInv, NEW c \in CPUs, pc[run[c]] \in Owns, run[c] \in Procs,
         NEW a \in BOOLEAN, NEW b \in BOOLEAN,
         lk' = [lk EXCEPT ![run[c]] = None], intr' = [intr EXCEPT ![c] = a],
         intena' = [intena EXCEPT ![c] = b]
  PROVE  LockOp(c) /\ Held(c)' = {} /\ intr'[c] = a /\ intena'[c] = b
<1>1. Held(c) = {run[c]} /\ TypeOK /\ run[c] \in Locks
  BY ZenonT(40) DEF IInv, CpuInv, LocksHeld, Locks
<1>2. lk[run[c]] = c
  BY ZenonT(40), <1>1 DEF Held
<1>3. LockOp(c) /\ intr'[c] = a /\ intena'[c] = b
  BY <1>1, <1>2 DEF LockOp, TypeOK
<1>4. Held(c)' = {}
  BY <1>1, SchedAssumption DEF Held, TypeOK
<1> QED BY <1>3, <1>4

(* What a process that was on no CPU finds when it is on one again. *)
LEMMA forkretInv == ASSUME IInv, NEW c \in CPUs, forkret(c) PROVE IInv'
<1> DEFINE p == run[c]
<1>1. /\ pc[p] = "forkret" /\ Goto(c, "user")
      /\ lk' = [lk EXCEPT ![p] = None] /\ intr' = [intr EXCEPT ![c] = FALSE]
      /\ UNCHANGED <<intena, run, next, state, chan, call, nested, saved, look>>
  BY DEF forkret, procVars, localVars
<1>2. p \in Procs
  BY ZenonT(40), <1>1, OnProc DEF SchedPcs
<1>3. /\ TypeOK /\ state[p] = "RUNNING" /\ ~nested[p] /\ pc[p] \in Owns
  BY ZenonT(40), <1>1, <1>2 DEF IInv, CpuInv, Reasons, InTimer, States, Owns
<1>4. intena' = [intena EXCEPT ![c] = intena[c]] /\ intena[c] \in BOOLEAN
  BY <1>1, <1>3 DEF TypeOK
<1>5. LockOp(c) /\ Held(c)' = {}
  BY ZenonT(40), <1>1, <1>2, <1>3, <1>4, OwnLockOp
<1>6. "user" \in ProcPcs \ {"wakeup_time"} /\ "user" \in Pcs
  BY ZenonT(40) DEF ProcPcs, Pcs
<1>7. pc'[run'[c]] = "user" /\ run'[c] = p
  BY ZenonT(40), <1>1, <1>6, GotoMoves
<1>8. LocksHeld(c)' /\ Interrupts(c)'
  BY ZenonT(40), <1>5, <1>7
  DEF LocksHeld, Interrupts, Nothing, Owns, Looks, CallPcs
<1>9. Reasons(c)' /\ States(c)'
  BY ZenonT(40), <1>1, <1>2, <1>3, <1>7 DEF Reasons, InTimer, States
<1> QED BY ZenonT(40), <1>1, <1>2, <1>5, <1>6, <1>8, <1>9, ProcStep, SameFields,
           SameAwake

(* yield() releases the lock when the process runs again. *)
LEMMA YieldedInv == ASSUME IInv, NEW c \in CPUs, Yielded(c) PROVE IInv'
<1> DEFINE p == run[c]
           l == IF nested[p] THEN "kernel" ELSE "trapout"
<1>1. /\ pc[p] = "yielded" /\ Goto(c, l) /\ lk' = [lk EXCEPT ![p] = None]
      /\ intr' = [intr EXCEPT ![c] = saved[p] \/ nested[p]]
      /\ intena' = [intena EXCEPT ![c] = saved[p]]
      /\ nested' = [nested EXCEPT ![p] = FALSE]
      /\ UNCHANGED <<run, next, state, chan, call, saved, look>>
  BY DEF Yielded, Restore, procVars
<1>2. p \in Procs
  BY ZenonT(40), <1>1, OnProc DEF SchedPcs
<1>3. /\ TypeOK /\ state[p] = "RUNNING" /\ nested[p] = (call[p] # "timer")
      /\ ~saved[p] /\ pc[p] \in Owns
  BY ZenonT(40), <1>1, <1>2
  DEF IInv, CpuInv, Reasons, InTimer, Interrupts, States, Owns
<1>4. (saved[p] \/ nested[p]) \in BOOLEAN /\ saved[p] \in BOOLEAN
  BY <1>2, <1>3 DEF TypeOK
<1>5. LockOp(c) /\ Held(c)' = {} /\ intr'[c] = (saved[p] \/ nested[p])
  BY ZenonT(40), <1>1, <1>2, <1>3, <1>4, OwnLockOp
<1>6. intr'[c] = (call[p] # "timer")
  BY ZenonT(40), <1>3, <1>5
<1>7. l \in ProcPcs \ {"wakeup_time"} /\ l \in Pcs
  BY ZenonT(40) DEF ProcPcs, Pcs
<1>8. pc'[run'[c]] = l /\ run'[c] = p
  BY ZenonT(40), <1>1, <1>7, GotoMoves
<1>9. Mine(c) /\ ~nested'[p]
  BY ZenonT(40), <1>1, <1>2, OwnNested
<1>10. l \in {"kernel", "trapout"} /\ (l = "kernel" => call[p] # "timer")
  BY ZenonT(40), <1>3
<1> HIDE DEF l
<1>11. LocksHeld(c)' /\ Interrupts(c)'
  <2>1. LocksHeld(c)'
    BY ZenonT(40), <1>5, <1>8, <1>10 DEF LocksHeld, Owns, Looks
  <2>2. Interrupts(c)'
    <3>1. call'[run'[c]] = call[p] /\ Held(c)' = {}
      BY ZenonT(40), <1>1, <1>5, <1>8
    <3>2. pc'[run'[c]] \in {"kernel", "trapout"}
      BY ZenonT(40), <1>8, <1>10
    <3> QED BY ZenonT(40), <1>6, <3>1, <3>2 DEF Interrupts, CallPcs
  <2> QED BY <2>1, <2>2
<1>12. Reasons(c)' /\ States(c)'
  BY ZenonT(40), <1>1, <1>2, <1>3, <1>8, <1>9, <1>10 DEF Reasons, InTimer, States
<1> QED BY ZenonT(40), <1>1, <1>2, <1>5, <1>7, <1>9, <1>11, <1>12, ProcStep, SameAwake

(* A process that runs again in sleep() releases p->lock. *)
LEMMA WokenInv == ASSUME IInv, NEW c \in CPUs, Woken(c) PROVE IInv'
<1> DEFINE p == run[c]
<1>1. /\ pc[p] = "asleep" /\ Goto(c, "woken") /\ lk' = [lk EXCEPT ![p] = None]
      /\ intr' = [intr EXCEPT ![c] = saved[p]]
      /\ intena' = [intena EXCEPT ![c] = saved[p]]
      /\ chan' = [chan EXCEPT ![p] = None]
      /\ UNCHANGED <<run, next, state, call, nested, saved, look>>
  BY DEF Woken, Restore, localVars
<1>2. p \in Procs
  BY ZenonT(40), <1>1, OnProc DEF SchedPcs
<1>3. /\ TypeOK /\ state[p] = "RUNNING" /\ call[p] # "timer" /\ ~nested[p]
      /\ saved[p] /\ pc[p] \in Owns
  BY ZenonT(40), <1>1, <1>2
  DEF IInv, CpuInv, Reasons, InTimer, InExit, Interrupts, States, Owns
<1>4. saved[p] \in BOOLEAN
  BY <1>2, <1>3 DEF TypeOK
<1>5. LockOp(c) /\ Held(c)' = {} /\ intr'[c]
  BY ZenonT(40), <1>1, <1>2, <1>3, <1>4, OwnLockOp
<1>6. "woken" \in ProcPcs \ {"wakeup_time"} /\ "woken" \in Pcs /\ None \in Chans
  BY ZenonT(40) DEF ProcPcs, Pcs, Chans
<1>7. pc'[run'[c]] = "woken" /\ run'[c] = p
  BY ZenonT(40), <1>1, <1>6, GotoMoves
<1>8. LocksHeld(c)' /\ Interrupts(c)'
  BY ZenonT(40), <1>5, <1>7
  DEF LocksHeld, Interrupts, Nothing, Owns, Looks, CallPcs
<1>9. Reasons(c)' /\ States(c)'
  BY ZenonT(40), <1>1, <1>2, <1>3, <1>7 DEF Reasons, InTimer, States
<1>10. Awake
  <2>1. \A q \in Procs : chan'[q] \in {None, chan[q]}
    BY <1>1, <1>3 DEF TypeOK
  <2> QED BY ZenonT(40), <1>1, <2>1, SchedAssumption DEF Awake, IInv, NoSleeper
<1> QED BY ZenonT(40), <1>1, <1>2, <1>5, <1>6, <1>8, <1>9, <1>10, ProcStep, SameButChan

-----------------------------------------------------------------------------
(* usertrap() and kerneltrap() *)

(* A process enters the kernel with a system call or an interrupt. *)
LEMMA TrapInv ==
  ASSUME IInv, NEW c \in CPUs, NEW why \in Calls \cup {"timer"}, Trap(c, why)
  PROVE  IInv'
<1> DEFINE p == run[c]
<1>1. /\ pc[p] = "user" /\ Goto(c, "trapin") /\ call' = [call EXCEPT ![p] = why]
      /\ UNCHANGED <<lk, intr, intena, run, next, state, chan, nested, saved, look>>
  BY DEF Trap, cpuVars, procVars
<1>2. p \in Procs
  BY ZenonT(40), <1>1, OnProc DEF SchedPcs
<1>3. Held(c) = {} /\ TypeOK /\ state[p] = "RUNNING" /\ ~nested[p]
  BY ZenonT(40), <1>1, <1>2
  DEF IInv, CpuInv, LocksHeld, Nothing, Reasons, InTimer, States
<1>4. LockOp(c) /\ Held(c)' = {}
  BY ZenonT(40), <1>1, <1>3, SameLocks
<1>5. "trapin" \in ProcPcs \ {"wakeup_time"} /\ "trapin" \in Pcs
  BY ZenonT(40) DEF ProcPcs, Pcs
<1>6. pc'[run'[c]] = "trapin" /\ run'[c] = p
  BY ZenonT(40), <1>1, <1>5, GotoMoves
<1>7. LocksHeld(c)' /\ Interrupts(c)'
  BY ZenonT(40), <1>4, <1>6
  DEF LocksHeld, Interrupts, Nothing, Owns, Looks, CallPcs
<1>8. Reasons(c)' /\ States(c)'
  BY ZenonT(40), <1>1, <1>2, <1>3, <1>6 DEF Reasons, InTimer, States
<1>9. \A q \in Procs : call'[q] \in {why, call[q]}
  BY <1>1, <1>3 DEF TypeOK
<1>10. Awake
  BY ZenonT(40), <1>1, <1>9 DEF Awake, IInv, NoSleeper
<1> QED BY ZenonT(40), <1>1, <1>2, <1>4, <1>5, <1>7, <1>8, <1>10, ProcStep, OwnCall

(* A step that turns interrupts on or off and holds the same locks. *)
LEMMA IntrOp ==
  ASSUME IInv, NEW c \in CPUs, NEW a \in BOOLEAN, NEW b \in BOOLEAN, lk' = lk,
         intr' = [intr EXCEPT ![c] = a],
         intena' = intena \/ intena' = [intena EXCEPT ![c] = b]
  PROVE  LockOp(c) /\ Held(c)' = Held(c) /\ intr'[c] = a
BY DEF IInv, TypeOK, LockOp, Held

(* usertrapret() turns interrupts off on the way to user space. *)
LEMMA TrapOutInv == ASSUME IInv, NEW c \in CPUs, TrapOut(c) PROVE IInv'
<1> DEFINE p == run[c]
<1>1. /\ pc[p] = "trapout" /\ Goto(c, "user") /\ call' = [call EXCEPT ![p] = None]
      /\ intr' = [intr EXCEPT ![c] = FALSE] /\ intena' = [intena EXCEPT ![c] = intr[c]]
      /\ UNCHANGED <<lk, run, next, state, chan, nested, saved, look>>
  BY DEF TrapOut, procVars
<1>2. p \in Procs
  BY ZenonT(40), <1>1, OnProc DEF SchedPcs
<1>3. Held(c) = {} /\ TypeOK /\ state[p] = "RUNNING" /\ ~nested[p]
  BY ZenonT(40), <1>1, <1>2
  DEF IInv, CpuInv, LocksHeld, Nothing, Reasons, InTimer, States
<1>4. intr[c] \in BOOLEAN
  BY <1>3 DEF TypeOK
<1>5. LockOp(c) /\ Held(c)' = {}
  BY ZenonT(40), <1>1, <1>3, <1>4, IntrOp
<1>6. "user" \in ProcPcs \ {"wakeup_time"} /\ "user" \in Pcs
  BY ZenonT(40) DEF ProcPcs, Pcs
<1>7. pc'[run'[c]] = "user" /\ run'[c] = p
  BY ZenonT(40), <1>1, <1>6, GotoMoves
<1>8. LocksHeld(c)' /\ Interrupts(c)'
  BY ZenonT(40), <1>5, <1>7
  DEF LocksHeld, Interrupts, Nothing, Owns, Looks, CallPcs
<1>9. Reasons(c)' /\ States(c)'
  BY ZenonT(40), <1>1, <1>2, <1>3, <1>7 DEF Reasons, InTimer, States
<1>10. \A q \in Procs : call'[q] \in {None, call[q]}
  BY <1>1, <1>3 DEF TypeOK
<1>11. Awake
  BY ZenonT(40), <1>1, <1>10, SchedAssumption DEF Awake, IInv, NoSleeper
<1> QED BY ZenonT(40), <1>1, <1>2, <1>5, <1>6, <1>8, <1>9, <1>11, ProcStep, OwnCall

(* A timer interrupt in the kernel comes only with interrupts on, and so   *)
(* with no lock held.                                                      *)
LEMMA KernelTimerInv == ASSUME IInv, NEW c \in CPUs, KernelTimer(c) PROVE IInv'
<1> DEFINE p == run[c]
           l == IF c = CPU0 THEN "tick" ELSE "yield"
<1>1. /\ pc[p] = "kernel" /\ Goto(c, l) /\ intr' = [intr EXCEPT ![c] = FALSE]
      /\ nested' = [nested EXCEPT ![p] = TRUE]
      /\ UNCHANGED <<lk, intena, run, next, state, chan, call, saved, look>>
  BY DEF KernelTimer, procVars
<1>2. p \in Procs /\ call[p] # "timer" /\ state[p] = "RUNNING"
  BY ZenonT(40), <1>1, FromCall
<1>3. Held(c) = {} /\ TypeOK
  BY ZenonT(40), <1>1, <1>2 DEF IInv, CpuInv, LocksHeld, Nothing
<1>4. LockOp(c) /\ Held(c)' = {} /\ ~intr'[c]
  BY ZenonT(40), <1>1, <1>3, IntrOp
<1>5. Mine(c) /\ nested'[p] = TRUE
  BY ZenonT(40), <1>1, <1>2, OwnNested
<1>6. l \in {"tick", "yield"}
  BY ZenonT(40)
<1> HIDE DEF l
<1>7. l \in ProcPcs \ {"wakeup_time"} /\ l \in Pcs
  BY ZenonT(40), <1>6 DEF ProcPcs, Pcs
<1>8. pc'[run'[c]] \in {"tick", "yield"} /\ run'[c] = p
  BY ZenonT(40), <1>1, <1>6, <1>7, GotoMoves
<1>9. LocksHeld(c)' /\ Interrupts(c)'
  BY ZenonT(40), <1>4, <1>8
  DEF LocksHeld, Interrupts, Nothing, Owns, Looks, CallPcs
<1>10. InTimer(c)'
  BY ZenonT(40), <1>8 DEF InTimer
<1>11. nested'[p] = (call'[p] # "timer")
  <2>1. call'[p] # "timer"
    BY ZenonT(40), <1>1, <1>2
  <2> QED BY ZenonT(40), <1>5, <2>1
<1>12. Reasons(c)' /\ States(c)'
  <2>1. Reasons(c)'
    BY ZenonT(40), <1>2, <1>8, <1>10, <1>11 DEF Reasons
  <2> QED BY ZenonT(40), <1>1, <1>2, <1>8, <2>1 DEF States
<1> QED BY ZenonT(40), <1>1, <1>2, <1>4, <1>5, <1>7, <1>9, <1>12, ProcStep, SameAwake

(* The places in usertrap() where no lock is held. *)
LEMMA TrapStep ==
  ASSUME IInv, NEW c \in CPUs, run[c] \in Procs,
         NEW l \in {"exit", "tick", "trap", "kernel", "yield", "trapout"},
         Goto(c, l), LockOp(c), Held(c)' = {}, ~nested[run[c]],
         state[run[c]] = "RUNNING",
         UNCHANGED <<run, next, state, chan, call, nested, saved, look>>,
         l \in {"kernel", "trap", "trapout"} => intr'[c] = (call[run[c]] # "timer"),
         l = "kernel" => call[run[c]] # "timer",
         l \in {"tick", "yield"} => call[run[c]] = "timer",
         l = "yield" => ~intr'[c]
  PROVE  IInv'
<1> DEFINE p == run[c]
<1>1. l \in ProcPcs \ {"wakeup_time"} /\ l \in Pcs
  BY ZenonT(40) DEF ProcPcs, Pcs
<1>2. pc'[run'[c]] = l /\ run'[c] = p /\ call'[p] = call[p]
  BY ZenonT(40), <1>1, GotoMoves
<1>3. LocksHeld(c)'
  BY ZenonT(40), <1>2 DEF LocksHeld, Owns, Looks
<1>4. Interrupts(c)'
  BY ZenonT(40), <1>2 DEF Interrupts, CallPcs
<1>5. l \in {"tick", "yield"} => nested'[p] = (call'[p] # "timer")
  <2>1. nested[p] \in BOOLEAN /\ nested'[p] = nested[p]
    BY DEF IInv, TypeOK
  <2> QED BY <1>2, <2>1
<1>6. Reasons(c)'
  <2>1. InTimer(c)' <=> l \in {"tick", "yield"}
    BY ZenonT(40), <1>2 DEF InTimer
  <2>2. InExit(c)' <=> l = "exit"
    BY ZenonT(40), <1>2 DEF InExit
  <2> QED BY ZenonT(40), <1>2, <1>5, <2>1, <2>2 DEF Reasons
<1>7. States(c)'
  BY ZenonT(40), <1>2 DEF States
<1> QED BY ZenonT(40), <1>1, <1>3, <1>4, <1>6, <1>7, ProcStep, SameFields, SameAwake

(* usertrap() turns interrupts on for a system call, and goes on with the  *)
(* timer.                                                                  *)
LEMMA TrapInInv == ASSUME IInv, NEW c \in CPUs, TrapIn(c) PROVE IInv'
<1> DEFINE p == run[c]
           exits == p \in killed /\ call[p] # "timer"
           a == call[p] # "timer" /\ ~exits
           l == CASE exits -> "exit"
                  [] call[p] = "timer" -> IF c = CPU0 THEN "tick" ELSE "trap"
                  [] OTHER -> "kernel"
<1>1. /\ pc[p] = "trapin" /\ Goto(c, l) /\ intr' = [intr EXCEPT ![c] = a]
      /\ intena' = [intena EXCEPT ![c] = FALSE]
      /\ UNCHANGED <<lk, run, next, state, chan, call, nested, saved, look>>
  BY DEF TrapIn, procVars, localVars
<1>2. p \in Procs
  BY ZenonT(40), <1>1, OnProc DEF SchedPcs
<1>3. Held(c) = {} /\ state[p] = "RUNNING" /\ ~nested[p]
  BY ZenonT(40), <1>1, <1>2
  DEF IInv, CpuInv, LocksHeld, Nothing, Reasons, InTimer, States
<1>4. a \in BOOLEAN
  BY ZenonT(40)
<1>5. /\ l \in {"exit", "tick", "trap", "kernel"}
      /\ l \in {"kernel", "trap"} => a = (call[p] # "timer")
      /\ l = "kernel" => call[p] # "timer"
      /\ l = "tick" => call[p] = "timer"
  <2>1. CASE exits
    BY <2>1
  <2>2. CASE ~exits /\ call[p] = "timer"
    BY <2>2
  <2>3. CASE ~exits /\ call[p] # "timer"
    BY <2>3
  <2> QED BY ZenonT(40), <2>1, <2>2, <2>3
<1> HIDE DEF a, l
<1>6. LockOp(c) /\ Held(c)' = {} /\ intr'[c] = a
  BY ZenonT(40), <1>1, <1>3, <1>4, IntrOp
<1>7. l \in {"exit", "tick", "trap", "kernel", "yield", "trapout"}
      /\ l # "trapout" /\ l # "yield"
  BY ZenonT(40), <1>5
<1>8. /\ l \in {"kernel", "trap", "trapout"} => intr'[c] = (call[p] # "timer")
      /\ l \in {"tick", "yield"} => call[p] = "timer"
  BY ZenonT(40), <1>5, <1>6, <1>7
<1> QED BY ZenonT(40), <1>1, <1>2, <1>3, <1>5, <1>6, <1>7, <1>8, TrapStep

(* usertrap() ends with exit(), yield() or the way out. *)
LEMMA TrapEndsInv == ASSUME IInv, NEW c \in CPUs, TrapEnds(c) PROVE IInv'
<1> DEFINE p == run[c]
           l == IF p \in killed THEN "exit"
                ELSE IF call[p] = "timer" THEN "yield" ELSE "trapout"
<1>1. /\ pc[p] = "trap" /\ Goto(c, l) /\ Touch(c, p)
      /\ UNCHANGED <<run, next, state, chan, call, nested, saved, look>>
  BY DEF TrapEnds, procVars, localVars
<1>2. p \in Procs
  BY ZenonT(40), <1>1, OnProc DEF SchedPcs
<1>3. /\ Held(c) = {} /\ state[p] = "RUNNING" /\ ~nested[p] /\ TypeOK
      /\ intr[c] = (call[p] # "timer")
  BY ZenonT(40), <1>1, <1>2
  DEF IInv, CpuInv, LocksHeld, Nothing, Reasons, InTimer, States, Interrupts
<1>4. LockOp(c) /\ Held(c)' = {} /\ intr' = intr
  BY ZenonT(40), <1>1, <1>3, TouchOp
<1>5. l \in {"exit", "yield", "trapout"} /\ (l = "yield" => call[p] = "timer")
  BY ZenonT(40)
<1> HIDE DEF l
<1>6. /\ l \in {"exit", "tick", "trap", "kernel", "yield", "trapout"}
      /\ l # "kernel" /\ l # "trap" /\ l # "tick"
  BY ZenonT(40), <1>5
<1>7. /\ intr'[c] = (call[p] # "timer")
      /\ l \in {"tick", "yield"} => call[p] = "timer"
      /\ l = "yield" => ~intr'[c]
  BY ZenonT(40), <1>3, <1>4, <1>5, <1>6
<1> QED BY ZenonT(40), <1>1, <1>2, <1>3, <1>4, <1>6, <1>7, TrapStep

-----------------------------------------------------------------------------
(* clockintr() and wakeup() *)

(* clockintr() takes tickslock and begins to wake the sleepers. *)
LEMMA clockintrInv == ASSUME IInv, NEW c \in CPUs, clockintr(c) PROVE IInv'
<1> DEFINE t == run[c]
<1>1. /\ pc[t] = "tick" /\ Goto(c, "wakeup") /\ acquire(c, tickslock)
      /\ UNCHANGED <<run, next, state, chan, call, nested, saved, look>>
  BY DEF clockintr, procVars, localVars
<1>2. /\ Held(c) = {} /\ TypeOK /\ tickslock \in Locks
      /\ t \in Procs => state[t] = "RUNNING" /\ nested[t] = (call[t] # "timer")
  BY ZenonT(40), <1>1
  DEF IInv, CpuInv, LocksHeld, Nothing, Locks, Reasons, InTimer, States
<1>3. LockOp(c) /\ Held(c)' = {tickslock} /\ ~intr'[c]
  BY ZenonT(40), <1>1, <1>2, acquireOp
<1>4. InClock(c)'
  BY ZenonT(40), <1>3 DEF InClock, Held
<1>5. "wakeup" \in Pcs /\ "wakeup" \in ProcPcs /\ "wakeup" \in SchedPcs \ {"pick", "switched"}
  BY ZenonT(40) DEF ProcPcs, Pcs, SchedPcs
<1>6. pc'[run'[c]] = "wakeup" /\ run'[c] = t
  BY ZenonT(40), <1>1, <1>5, GotoMoves
<1>7. LocksHeld(c)' /\ Interrupts(c)'
  BY ZenonT(40), <1>3, <1>4, <1>6
  DEF LocksHeld, Interrupts, Nothing, Owns, Looks, CallPcs, WakeLock
<1>8. InTimer(c)'
  BY ZenonT(40), <1>4, <1>6 DEF InTimer
<1>9. Reasons(c)'
  BY ZenonT(40), <1>1, <1>2, <1>4, <1>6, <1>8 DEF Reasons
<1>10. States(c)'
  BY ZenonT(40), <1>1, <1>2, <1>6 DEF States
<1> QED BY ZenonT(40), <1>1, <1>3, <1>5, <1>7, <1>9, <1>10, ThreadStep, SameFields,
           SameAwake

(* A timer interrupt comes to a CPU whose scheduler looks for work. *)
LEMMA IdleTimerInv == ASSUME IInv, IdleTimer PROVE IInv'
<1> DEFINE c == CPU0
<1>1. /\ run[c] = c /\ pc[c] = "loop" /\ Goto(c, "tick") /\ c \in CPUs
      /\ intr' = [intr EXCEPT ![c] = FALSE]
      /\ UNCHANGED <<lk, intena, run, next, state, chan, call, nested, saved, look>>
  BY SchedAssumption DEF IdleTimer, procVars, localVars
<1> HIDE DEF c
<1>2. pc[run[c]] = "loop" /\ run[c] \notin Procs
  BY <1>1, SchedAssumption
<1>3. Held(c) = {}
  BY ZenonT(40), <1>1, <1>2 DEF IInv, CpuInv, LocksHeld, Nothing
<1>4. LockOp(c) /\ Held(c)' = {} /\ ~intr'[c]
  BY ZenonT(40), <1>1, <1>3, IntrOp
<1>5. "tick" \in Pcs /\ "tick" \in SchedPcs \ {"pick", "switched"}
  BY ZenonT(40) DEF Pcs, SchedPcs
<1>6. pc'[run'[c]] = "tick" /\ run'[c] \notin Procs
  BY ZenonT(40), <1>1, <1>2, <1>5, GotoMoves
<1>7. LocksHeld(c)' /\ Interrupts(c)'
  BY ZenonT(40), <1>4, <1>6
  DEF LocksHeld, Interrupts, Nothing, Owns, Looks, CallPcs
<1>8. Reasons(c)' /\ States(c)'
  BY ZenonT(40), <1>6 DEF Reasons, States
<1> QED BY ZenonT(40), <1>1, <1>2, <1>4, <1>5, <1>7, <1>8, ThreadStep, SameFields,
           SameAwake

(* What a thread in wakeup() knows. *)
LEMMA InWakeup ==
  ASSUME IInv, NEW c \in CPUs, pc[run[c]] = "wakeup"
  PROVE  /\ Held(c) = {WakeLock(c)} /\ ~intr[c] /\ TypeOK
         /\ run[c] \notin Procs => InClock(c) /\ run[c] = c
         /\ run[c] \in Procs => /\ state[run[c]] = "RUNNING" /\ run[c] # c
                                /\ InClock(c) => nested[run[c]] = (call[run[c]] # "timer")
                                /\ ~InClock(c) => ~nested[run[c]]
<1>1. Held(c) = {WakeLock(c)} /\ TypeOK
  BY ZenonT(40) DEF IInv, CpuInv, LocksHeld
<1>2. ~intr[c]
  BY ZenonT(40), <1>1 DEF IInv, CpuInv, Interrupts
<1>3. run[c] \notin Procs => InClock(c) /\ run[c] = c
  BY ZenonT(40) DEF IInv, CpuInv, Reasons, Place
<1>4. run[c] \in Procs => state[run[c]] = "RUNNING" /\ run[c] # c
  <2>1. c \notin Procs
    BY ZenonT(40), SchedAssumption
  <2>2. run[c] \in Procs => state[run[c]] = "RUNNING"
    BY ZenonT(40) DEF IInv, CpuInv, States
  <2> QED BY ZenonT(40), <2>1, <2>2
<1>5. run[c] \in Procs =>
        /\ InClock(c) => nested[run[c]] = (call[run[c]] # "timer")
        /\ ~InClock(c) => ~nested[run[c]]
  <2>1. Reasons(c)
    BY ZenonT(40) DEF IInv, CpuInv
  <2>2. InTimer(c) <=> InClock(c)
    BY ZenonT(40) DEF InTimer
  <2> QED BY ZenonT(40), <2>1, <2>2 DEF Reasons
<1> QED BY ZenonT(40), <1>1, <1>2, <1>3, <1>4, <1>5

(* The loop of wakeup() goes on. *)
LEMMA ToWakeup ==
  ASSUME IInv, NEW c \in CPUs, pc[run[c]] \in {"wakeup", "wakeup_time"}, Goto(c, "wakeup"),
         LockOp(c), Held(c)' = {WakeLock(c)}, ~intr'[c], InClock(c)' = InClock(c),
         Mine(c), UNCHANGED <<run, next, state, chan, call, nested>>
  PROVE  IInv'
<1>1. "wakeup" \in Pcs /\ "wakeup" \in ProcPcs /\ "wakeup" \in SchedPcs \ {"pick", "switched"}
  BY ZenonT(40) DEF ProcPcs, Pcs, SchedPcs
<1>2. pc'[run'[c]] = "wakeup" /\ run'[c] = run[c]
  BY ZenonT(40), <1>1, GotoMoves
<1>3. LocksHeld(c)' /\ Interrupts(c)'
  BY ZenonT(40), <1>2
  DEF LocksHeld, Interrupts, Nothing, Owns, Looks, CallPcs, WakeLock
<1>4. InTimer(c)' = InTimer(c) /\ InExit(c)' = InExit(c)
  BY ZenonT(40), <1>2 DEF InTimer, InExit
<1>5. CpuInv(c)
  BY ZenonT(40) DEF IInv
<1>6. Reasons(c)'
  BY ZenonT(40), <1>2, <1>4, <1>5 DEF CpuInv, Reasons, InTimer, InExit
<1>7. States(c)'
  BY ZenonT(40), <1>2, <1>5 DEF CpuInv, States
<1> QED BY ZenonT(40), <1>1, <1>3, <1>6, <1>7, ThreadStep, SameAwake

(* wakeup() goes past a process that does not sleep on the channel. *)
LEMMA WakeupSkipInv == ASSUME IInv, NEW c \in CPUs, WakeupSkip(c) PROVE IInv'
<1> DEFINE t == run[c]
<1>1. /\ pc[t] = "wakeup" /\ look[t] \in Procs /\ look' = [look EXCEPT ![t] = look[t] + 1]
      /\ UNCHANGED <<lk, intr, intena, run, next, pc, state, chan, call, nested, saved>>
  BY DEF WakeupSkip, LookNext, cpuVars, procVars
<1>2. Held(c) = {WakeLock(c)} /\ ~intr[c] /\ TypeOK
  BY ZenonT(40), <1>1, InWakeup
<1>3. Goto(c, "wakeup")
  BY <1>1, <1>2 DEF Goto, TypeOK
<1>4. LockOp(c) /\ Held(c)' = {WakeLock(c)} /\ ~intr'[c] /\ InClock(c)' = InClock(c)
  BY ZenonT(40), <1>1, <1>2, SameLocks DEF InClock
<1>5. Mine(c)
  BY ZenonT(40), <1>1, SameStates, LookRange
<1> QED BY ZenonT(40), <1>1, <1>3, <1>4, <1>5, ToWakeup

(* wakeup() reads the time of the process it has woken and releases its    *)
(* lock.                                                                   *)
LEMMA WakeupTimeInv == ASSUME IInv, NEW c \in CPUs, WakeupTime(c) PROVE IInv'
<1> DEFINE t == run[c]
           q == look[t]
<1>1. /\ pc[t] = "wakeup_time" /\ lk[tickslock] = None /\ release(c, {q})
      /\ Goto(c, "wakeup") /\ look' = [look EXCEPT ![t] = q + 1]
      /\ UNCHANGED <<run, next, state, chan, call, nested, saved>>
  BY DEF WakeupTime, LookNext, procVars
<1>2. Held(c) = {WakeLock(c), q} /\ q \in Procs /\ TypeOK
  BY ZenonT(40), <1>1 DEF IInv, CpuInv, LocksHeld, Looks
<1>3. ~InClock(c) /\ WakeLock(c) = wait_lock /\ wait_lock # q
  BY ZenonT(40), <1>1, <1>2, SchedAssumption DEF InClock, WakeLock
<1>4. /\ {q} \subseteq Held(c) /\ Held(c) # {q} /\ Held(c) # {}
      /\ Held(c) \ {q} = {wait_lock}
  BY <1>2, <1>3
<1>5. ~intr[c]
  BY ZenonT(40), <1>4 DEF IInv, CpuInv, Interrupts
<1>6. LockOp(c) /\ Held(c)' = {WakeLock(c)} /\ ~intr'[c]
  BY ZenonT(40), <1>1, <1>2, <1>3, <1>4, <1>5, releaseOp
<1>7. InClock(c)' = InClock(c)
  BY ZenonT(40), <1>3, <1>6, SchedAssumption DEF InClock, Held, Locks
<1>8. Mine(c)
  BY ZenonT(40), <1>1, <1>2, SameStates, LookRange
<1> QED BY ZenonT(40), <1>1, <1>6, <1>7, <1>8, ToWakeup

(* wakeup() takes the lock of a sleeper and makes it RUNNABLE. *)
LEMMA WakeupFoundInv == ASSUME IInv, NEW c \in CPUs, WakeupFound(c) PROVE IInv'
<1> DEFINE t == run[c]
           q == look[t]
<1>1. /\ pc[t] = "wakeup" /\ q \in Procs /\ q # t /\ acquire(c, q)
      /\ state[q] = "SLEEPING" /\ chan[q] = WakeChan(c)
      /\ state' = [state EXCEPT ![q] = "RUNNABLE"] /\ Goto(c, "wakeup_time")
      /\ UNCHANGED <<run, next, chan, call, nested, saved, look>>
  BY DEF WakeupFound, AsleepOn, localVars
<1>2. Held(c) = {WakeLock(c)} /\ TypeOK /\ CpuInv(c) /\ q \in Locks /\ t \in Threads
  BY ZenonT(40), <1>1, InWakeup, LookRange DEF IInv, Locks
<1>3. LockOp(c) /\ Held(c)' = Held(c) \cup {q} /\ ~intr'[c]
  BY ZenonT(40), <1>1, <1>2, acquireOp
<1>4. InClock(c)' = InClock(c) /\ Held(c)' = {WakeLock(c), q}
  <2>1. tickslock \in Held(c)' <=> tickslock \in Held(c)
    BY ZenonT(40), <1>1, <1>3, SchedAssumption
  <2> QED BY ZenonT(40), <1>2, <1>3, <2>1 DEF InClock, Held, Locks
<1>5. "wakeup_time" \in Pcs /\ "wakeup_time" \in ProcPcs
      /\ "wakeup_time" \in SchedPcs \ {"pick", "switched"}
  BY ZenonT(40) DEF ProcPcs, Pcs, SchedPcs
<1>6. /\ pc'[run'[c]] = "wakeup_time" /\ run'[c] = t /\ look'[t] = q /\ Moves(c)
      /\ Place(c)'
  BY ZenonT(40), <1>1, <1>5, GotoMoves, PlaceKept
<1>7. Mine(c) /\ (t \in Procs => state'[t] = state[t])
  <2>1. look' = [look EXCEPT ![t] = q] /\ q \in 1 .. NPROC + 1
    BY <1>1, <1>2 DEF TypeOK
  <2>2. lk[q] \in {c, None}
    BY ZenonT(40), <1>1 DEF acquire
  <2> QED BY ZenonT(40), <1>1, <2>1, <2>2, OtherState
<1>8. LocksHeld(c)' /\ Interrupts(c)'
  BY ZenonT(40), <1>1, <1>3, <1>4, <1>6
  DEF LocksHeld, Interrupts, Nothing, Owns, Looks, CallPcs, WakeLock
<1>9. Reasons(c)'
  <2>1. InTimer(c)' = InTimer(c) /\ InExit(c)' = InExit(c)
    BY ZenonT(40), <1>1, <1>4, <1>6 DEF InTimer, InExit
  <2>2. UNCHANGED <<call, nested>> /\ InClock(c)' = InClock(c)
    BY <1>1, <1>4
  <2> QED BY ZenonT(40), <1>1, <1>2, <1>6, <2>1, <2>2 DEF CpuInv, Reasons, InTimer, InExit
<1>10. States(c)'
  BY ZenonT(40), <1>1, <1>2, <1>6, <1>7 DEF CpuInv, States
<1>11. "sleep" \notin Calls => ~InClock(c)'
  BY ZenonT(40), <1>1, <1>4 DEF IInv, NoSleeper, WakeChan
<1>12. NoSleeper'
  BY ZenonT(40), <1>1, <1>3, <1>6, <1>11, StaysAwake, SameAwake
<1> QED BY ZenonT(40), <1>1, <1>3, <1>6, <1>7, <1>8, <1>9, <1>10, <1>12, LocalStep
    DEF CpuInv, Local

(* clockintr() releases tickslock, and the interrupt goes on to yield() or *)
(* returns.                                                                *)
LEMMA ClockEndsInv == ASSUME IInv, NEW c \in CPUs, ClockEnds(c) PROVE IInv'
<1> DEFINE t == run[c]
           l == IF t = c THEN "loop" ELSE IF nested[t] THEN "yield" ELSE "trap"
           a == t = c
<1>1. /\ pc[t] = "wakeup" /\ InClock(c) /\ Goto(c, l) /\ lk' = [lk EXCEPT ![tickslock] = None]
      /\ intr' = [intr EXCEPT ![c] = a] /\ look' = [look EXCEPT ![t] = 1]
      /\ UNCHANGED <<intena, run, next, state, chan, call, nested, saved>>
  BY DEF ClockEnds, LookReset, procVars
<1>2. /\ Held(c) = {tickslock} /\ TypeOK
      /\ t \notin Procs => t = c
      /\ t \in Procs => /\ state[t] = "RUNNING" /\ t # c
                        /\ nested[t] = (call[t] # "timer")
  BY ZenonT(40), <1>1, InWakeup DEF WakeLock
<1>3. a \in BOOLEAN
  BY ZenonT(40)
<1>4. /\ l \in {"loop", "yield", "trap"} /\ (t \notin Procs => l = "loop")
      /\ t \in Procs => l # "loop"
      /\ t \in Procs /\ l = "trap" => ~nested[t]
      /\ t \in Procs => a = FALSE
  BY ZenonT(40), <1>2
<1> HIDE DEF l, a
<1>5. LockOp(c) /\ Held(c)' = {} /\ intr'[c] = a
  <2>0. lk[tickslock] = c /\ tickslock \in Locks
    BY ZenonT(40), <1>1 DEF InClock, Locks
  <2>1. LockOp(c) /\ intr'[c] = a
    <3>1. /\ lk' \in [Locks -> CPUs \cup {None}]
          /\ \A m \in Locks : lk'[m] # lk[m] => lk[m] \in {c, None} /\ lk'[m] \in {c, None}
      BY <1>1, <1>2, <2>0 DEF TypeOK
    <3>2. /\ intr' \in [CPUs -> BOOLEAN] /\ intena' \in [CPUs -> BOOLEAN] /\ intr'[c] = a
          /\ \A d \in CPUs \ {c} : intr'[d] = intr[d] /\ intena'[d] = intena[d]
      BY <1>1, <1>2, <1>3 DEF TypeOK
    <3> QED BY ZenonT(40), <3>1, <3>2 DEF LockOp
  <2>2. Held(c)' = {}
    BY <1>1, <1>2, SchedAssumption DEF Held, TypeOK
  <2> QED BY <2>1, <2>2
<1>6. /\ l \in Pcs /\ l # "wakeup_time" /\ (t \in Procs => l \in ProcPcs)
      /\ t = c => l \in SchedPcs \ {"pick", "switched"}
  BY ZenonT(40), <1>2, <1>4 DEF ProcPcs, Pcs, SchedPcs
<1>7. pc'[run'[c]] = l /\ run'[c] = t /\ Mine(c)
  BY ZenonT(40), <1>1, <1>6, GotoMoves, SameStates, LookRange
<1>8. LocksHeld(c)'
  BY ZenonT(40), <1>4, <1>5, <1>7 DEF LocksHeld, Owns, Looks
<1>9. l = "trap" \/ l = "yield" => t \in Procs /\ ~intr'[c]
  BY ZenonT(40), <1>4, <1>5
<1>10. l = "trap" => intr'[c] = (call[t] # "timer")
  <2>1. ASSUME l = "trap" PROVE ~nested[t] /\ nested[t] = (call[t] # "timer") /\ intr'[c] = FALSE
    BY ZenonT(40), <1>2, <1>4, <1>5, <1>9, <2>1
  <2> QED BY ZenonT(40), <2>1
<1>11. Interrupts(c)'
  BY ZenonT(40), <1>1, <1>4, <1>5, <1>7, <1>9, <1>10 DEF Interrupts, CallPcs
<1>12. Reasons(c)'
  BY ZenonT(40), <1>1, <1>2, <1>4, <1>7 DEF Reasons, InTimer
<1>13. States(c)'
  BY ZenonT(40), <1>1, <1>2, <1>4, <1>7 DEF States
<1> QED BY ZenonT(40), <1>1, <1>5, <1>6, <1>7, <1>8, <1>11, <1>12, <1>13, ThreadStep,
           SameAwake

-----------------------------------------------------------------------------
(* scheduler() *)

(* A step of the scheduler that leaves it in its loop. *)
LEMMA ToLoop ==
  ASSUME IInv, NEW c \in CPUs, run[c] = c, pc[run[c]] # "pick",
         LockOp(c), Held(c)' = {}, pc' \in [Threads -> Pcs],
         pc'[c] = "loop", \A t \in Threads \ {c} : pc'[t] = pc[t],
         NEW k \in 1 .. NPROC + 1, next' = [next EXCEPT ![c] = k],
         UNCHANGED <<run, state, chan, call, nested, saved, look>>
  PROVE  IInv'
<1>1. /\ next' \in [CPUs -> 1 .. NPROC + 1]
      /\ \A d \in CPUs \ {c} : next'[d] = next[d]
  BY DEF IInv, TypeOK
<1>2. Moves(c)
  BY ZenonT(40), <1>1 DEF Moves, IInv, TypeOK
<1>3. pc'[run'[c]] = "loop" /\ run'[c] = c /\ run'[c] \notin Procs
  BY ZenonT(40), SchedAssumption
<1>4. Place(c)' /\ LocksHeld(c)' /\ Interrupts(c)'
  BY ZenonT(40), <1>3
  DEF Place, SchedPcs, LocksHeld, Interrupts, Owns, Looks, CallPcs
<1>5. Reasons(c)' /\ States(c)'
  BY ZenonT(40), <1>3 DEF Reasons, States
<1>6. pc'[run[c]] # "wakeup_time"
  BY ZenonT(40), <1>3
<1>7. NoSleeper'
  BY ZenonT(40), <1>2, <1>6, StaysAwake, SameAwake
<1> QED BY ZenonT(40), <1>2, <1>4, <1>5, <1>7, LocalStep, SameFields DEF CpuInv, Local

(* What the scheduler knows. *)
LEMMA InScheduler ==
  ASSUME IInv, NEW c \in CPUs, run[c] = c
  PROVE  /\ TypeOK /\ c \in Threads /\ c \notin Procs /\ pc[run[c]] = pc[c]
         /\ next[c] \in 1 .. NPROC + 1
         /\ pc[c] = "loop" => Held(c) = {}
         /\ pc[c] \in {"pick", "switched"} => /\ Held(c) = {next[c]} /\ ~intr[c]
                                              /\ next[c] \in Procs /\ Off(next[c])
         /\ next[c] \in Procs => next[c] + 1 \in 1 .. NPROC + 1
<1>1. TypeOK /\ c \in Threads /\ c \notin Procs /\ CpuInv(c)
  BY ZenonT(40), SchedAssumption DEF IInv, Threads
<1>2. pc[run[c]] = pc[c]
  BY ZenonT(40)
<1>3. /\ next[c] \in 1 .. NPROC + 1
      /\ next[c] \in Procs => next[c] + 1 \in 1 .. NPROC + 1
  BY <1>1, SchedAssumption DEF TypeOK, Procs
<1>4. pc[c] = "loop" => Held(c) = {}
  BY ZenonT(40), <1>1, <1>2 DEF CpuInv, LocksHeld, Nothing
<1>5. ASSUME pc[c] \in {"pick", "switched"}
      PROVE  Held(c) = {next[c]} /\ next[c] \in Procs /\ Off(next[c])
  BY ZenonT(40), <1>1, <1>2, <1>5 DEF CpuInv, LocksHeld, Place
<1>6. pc[c] \in {"pick", "switched"} => ~intr[c]
  BY ZenonT(40), <1>1, <1>5 DEF CpuInv, Interrupts
<1> QED BY ZenonT(40), <1>1, <1>2, <1>3, <1>4, <1>5, <1>6

(* scheduler() goes past a process that is not RUNNABLE. *)
LEMMA SchedScanInv == ASSUME IInv, NEW c \in CPUs, SchedScan(c) PROVE IInv'
<1>1. /\ run[c] = c /\ pc[c] = "loop" /\ next[c] \in Procs /\ Touch(c, next[c])
      /\ next' = [next EXCEPT ![c] = next[c] + 1]
      /\ UNCHANGED <<run, pc, state, chan, call, nested, saved, look>>
  BY DEF SchedScan, procVars, localVars
<1>2. /\ TypeOK /\ pc[run[c]] = "loop" /\ Held(c) = {}
      /\ next[c] + 1 \in 1 .. NPROC + 1
  BY ZenonT(40), <1>1, InScheduler
<1>3. LockOp(c) /\ Held(c)' = {}
  BY ZenonT(40), <1>1, <1>2, TouchOp
<1>4. pc' \in [Threads -> Pcs] /\ pc' = pc
  BY ZenonT(40), <1>1, <1>2 DEF TypeOK
<1> QED BY ZenonT(40), <1>1, <1>2, <1>3, <1>4, ToLoop

(* scheduler() turns interrupts on and begins another round. *)
LEMMA SchedRoundInv == ASSUME IInv, NEW c \in CPUs, SchedRound(c) PROVE IInv'
<1>1. /\ run[c] = c /\ pc[c] = "loop" /\ next' = [next EXCEPT ![c] = 1]
      /\ intr' = [intr EXCEPT ![c] = TRUE]
      /\ UNCHANGED <<lk, intena, run, pc, state, chan, call, nested, saved, look>>
  BY DEF SchedRound, procVars, localVars
<1>2. /\ TypeOK /\ pc[run[c]] = "loop" /\ Held(c) = {} /\ 1 \in 1 .. NPROC + 1
  BY ZenonT(40), <1>1, InScheduler, LookRange
<1>3. LockOp(c) /\ Held(c)' = {}
  BY ZenonT(40), <1>1, <1>2, IntrOp
<1>4. pc' \in [Threads -> Pcs] /\ pc' = pc
  BY ZenonT(40), <1>1, <1>2 DEF TypeOK
<1> QED BY ZenonT(40), <1>1, <1>2, <1>3, <1>4, ToLoop

(* scheduler() is back from a process and releases its lock. *)
LEMMA SchedBackInv == ASSUME IInv, NEW c \in CPUs, SchedBack(c) PROVE IInv'
<1>1. /\ run[c] = c /\ pc[c] = "switched" /\ release(c, {next[c]})
      /\ next' = [next EXCEPT ![c] = next[c] + 1] /\ pc' = [pc EXCEPT ![c] = "loop"]
      /\ UNCHANGED <<run, state, chan, call, nested, saved, look>>
  BY DEF SchedBack, Goto, procVars, localVars
<1>2. /\ TypeOK /\ pc[run[c]] = "switched" /\ Held(c) = {next[c]} /\ c \in Threads
      /\ next[c] + 1 \in 1 .. NPROC + 1
  BY ZenonT(40), <1>1, InScheduler
<1>3. LockOp(c) /\ Held(c)' = {}
  <2>1. {next[c]} \subseteq Held(c) /\ Held(c) \ {next[c]} = {}
    BY ZenonT(40), <1>2
  <2> QED BY ZenonT(40), <1>1, <1>2, <2>1, releaseOp
<1>4. /\ pc' \in [Threads -> Pcs] /\ pc'[c] = "loop"
      /\ \A t \in Threads \ {c} : pc'[t] = pc[t]
  BY <1>1, <1>2 DEF TypeOK, Pcs
<1> QED BY ZenonT(40), <1>1, <1>2, <1>3, <1>4, ToLoop

(* A process whose lock is free and that is RUNNABLE is on no CPU. *)
LEMMA RunnableIsOff ==
  ASSUME IInv, NEW p \in Procs, state[p] = "RUNNABLE", lk[p] = None PROVE Off(p)
<1> SUFFICES ASSUME NEW d \in CPUs, run[d] = p PROVE FALSE
  BY ZenonT(40) DEF Off
<1>1. CpuInv(d)
  BY ZenonT(40) DEF IInv
<1>2. pc[run[d]] \in {"yield_time", "sched"}
  BY ZenonT(40), <1>1 DEF CpuInv, States
<1>3. Held(d) = {p}
  BY ZenonT(40), <1>1, <1>2 DEF CpuInv, LocksHeld, Owns
<1>4. lk[p] = d
  BY ZenonT(40), <1>3 DEF Held
<1> QED BY ZenonT(40), <1>4, SchedAssumption

(* scheduler() takes the lock of a RUNNABLE process, which is on no CPU,   *)
(* and makes it RUNNING.                                                   *)
LEMMA SchedPickInv == ASSUME IInv, NEW c \in CPUs, SchedPick(c) PROVE IInv'
<1> DEFINE p == next[c]
<1>1. /\ run[c] = c /\ pc[c] = "loop" /\ p \in Procs /\ state[p] = "RUNNABLE"
      /\ acquire(c, p) /\ state' = [state EXCEPT ![p] = "RUNNING"] /\ Goto(c, "pick")
      /\ UNCHANGED <<run, next, chan, call, nested, saved, look>>
  BY DEF SchedPick, localVars
<1>2. TypeOK /\ pc[run[c]] = "loop" /\ Held(c) = {} /\ c \notin Procs /\ p \in Locks
  BY ZenonT(40), <1>1, InScheduler DEF Locks
<1>3. LockOp(c) /\ Held(c)' = {p} /\ ~intr'[c]
  BY ZenonT(40), <1>1, <1>2, acquireOp
<1>4. lk[p] = None /\ Off(p)
  BY ZenonT(40), <1>1, RunnableIsOff DEF acquire
<1>5. "pick" \in Pcs
  BY ZenonT(40) DEF Pcs
<1>6. Moves(c) /\ pc'[run[c]] = "pick"
  BY ZenonT(40), <1>1, <1>5, GotoMoves
<1>7. pc'[run'[c]] = "pick" /\ pc'[c] = "pick" /\ run'[c] = c /\ next'[c] = p /\ p # c
  BY ZenonT(40), <1>1, <1>2, <1>6
<1>8. /\ state' \in [Procs -> ProcStates] /\ state'[p] = "RUNNING"
      /\ \A q \in Procs \ {p} : state'[q] = state[q]
  BY <1>1, <1>2 DEF TypeOK, ProcStates
<1>9. Mine(c)
  BY ZenonT(40), <1>1, <1>2, <1>4, <1>7, <1>8 DEF Mine, TypeOK
<1>10. Place(c)' /\ LocksHeld(c)' /\ Interrupts(c)'
  <2>1. Off(p)'
    BY ZenonT(40), <1>1, <1>4 DEF Off
  <2> QED BY ZenonT(40), <1>1, <1>3, <1>7, <2>1
          DEF Place, SchedPcs, LocksHeld, Interrupts, Nothing, Owns, Looks, CallPcs, Off
<1>11. Reasons(c)' /\ States(c)'
  BY ZenonT(40), <1>2, <1>7, <1>8 DEF Reasons, States
<1>12. NoSleeper'
  BY ZenonT(40), <1>1, <1>3, <1>6, StaysAwake, SameAwake
<1> QED BY ZenonT(40), <1>1, <1>2, <1>3, <1>6, <1>9, <1>10, <1>11, <1>12, LocalStep
    DEF CpuInv, Local

(* swtch() to the process that was picked. *)
LEMMA SchedSwitchInv == ASSUME IInv, NEW c \in CPUs, SchedSwitch(c) PROVE IInv'
<1> DEFINE p == next[c]
<1>1. /\ run[c] = c /\ pc[c] = "pick" /\ Touch(c, tickslock)
      /\ run' = [run EXCEPT ![c] = p] /\ pc' = [pc EXCEPT ![c] = "switched"]
      /\ UNCHANGED <<next, state, chan, call, nested, saved, look>>
  BY DEF SchedSwitch, sys_uptime, Goto, procVars, localVars
<1>2. /\ TypeOK /\ c \in Threads /\ Held(c) = {p} /\ ~intr[c] /\ p \in Procs /\ Off(p)
      /\ pc[run[c]] = "pick" /\ p # c /\ p \in Threads
  BY ZenonT(40), <1>1, InScheduler DEF Threads
<1>3. LockOp(c) /\ Held(c)' = {p} /\ ~intr'[c]
  BY ZenonT(40), <1>1, <1>2, TouchOp
<1>4. /\ run' \in [CPUs -> Threads] /\ run'[c] = p
      /\ \A d \in CPUs \ {c} : run'[d] = run[d]
  BY <1>1, <1>2 DEF TypeOK
<1>5. /\ pc' \in [Threads -> Pcs] /\ pc'[c] = "switched"
      /\ \A t \in Threads \ {c} : pc'[t] = pc[t]
  BY <1>1, <1>2 DEF TypeOK, Pcs
<1>6. Moves(c) /\ Mine(c)
  BY ZenonT(40), <1>1, <1>2, <1>4, <1>5, SameFields DEF Moves, TypeOK
<1>7. /\ Waits(p) /\ state[p] = "RUNNING" /\ CpuInv(c)
  BY ZenonT(40), <1>1, <1>2 DEF IInv, CpuInv, States
<1>8. /\ pc'[run'[c]] = pc[p] /\ run'[c] = p /\ pc[p] \in {"forkret", "yielded", "asleep"}
  BY ZenonT(40), <1>2, <1>4, <1>5, <1>7 DEF Waits
<1>9. Place(c)'
  BY ZenonT(40), <1>1, <1>2, <1>5, <1>8 DEF Place, ProcPcs, Pcs
<1>10. LocksHeld(c)'
  BY ZenonT(40), <1>3, <1>8 DEF LocksHeld, Nothing, Owns, Looks
<1>11. Interrupts(c)'
  BY ZenonT(40), <1>1, <1>3, <1>7, <1>8 DEF Interrupts, CallPcs, Waits
<1>12. Reasons(c)'
  <2>1. InTimer(c)' <=> pc[p] = "yielded"
    BY ZenonT(40), <1>8 DEF InTimer
  <2>2. nested' = nested /\ call' = call
    BY <1>1
  <2> QED BY ZenonT(40), <1>2, <1>7, <1>8, <2>1, <2>2 DEF Reasons, Waits
<1>13. States(c)'
  BY ZenonT(40), <1>1, <1>7, <1>8 DEF States
<1>14. \A d \in CPUs : CpuInv(d)'
  <2>1. Entitled(c) /\ Local(c)
    BY ZenonT(40), <1>2, <1>3, <1>4, <1>6 DEF Entitled, Local, Held
  <2>2. \A d \in CPUs \ {c} : CpuInv(d)'
    BY ZenonT(40), <2>1, OtherCpu
  <2> QED BY ZenonT(40), <1>9, <1>10, <1>11, <1>12, <1>13, <2>2 DEF CpuInv
<1>15. \A q \in Procs : Off(q)' => Waits(q)'
  <2> SUFFICES ASSUME NEW q \in Procs, Off(q)' PROVE Waits(q)'
    BY ZenonT(40)
  <2>1. Off(q) /\ q # p
    <3>1. q # c /\ run[c] = c
      BY ZenonT(40), <1>1, SchedAssumption
    <3> QED BY ZenonT(40), <1>4, <3>1 DEF Off
  <2> QED BY ZenonT(40), <1>3, <1>6, <2>1, OffProc DEF Local
<1>16. TypeOK'
  BY ZenonT(40), <1>3, <1>6 DEF TypeOK, LockOp, Mine, Moves
<1>17. OneThread'
  BY ZenonT(40), <1>2, <1>4 DEF OneThread, IInv, Off
<1>18. NoSleeper'
  <2>1. ASSUME NEW d \in CPUs, pc'[run'[d]] = "wakeup_time", "sleep" \notin Calls
        PROVE  ~InClock(d)'
    <3>1. d # c
      BY ZenonT(40), <1>8, <2>1
    <3>2. pc[run[d]] = "wakeup_time"
      BY ZenonT(40), <1>4, <1>6, <2>1, <3>1, Apart DEF Moves
    <3> QED BY ZenonT(40), <1>2, <1>3, <2>1, <3>1, <3>2, HeldByOthers DEF IInv, NoSleeper
  <2> QED BY ZenonT(40), <1>1, <2>1 DEF IInv, NoSleeper
<1> QED BY ZenonT(40), <1>14, <1>15, <1>16, <1>17, <1>18 DEF IInv

(* swtch() back to the scheduler. *)
LEMMA schedInv ==
  ASSUME IInv, NEW c \in CPUs, NEW p, p = run[c], sched(c) PROVE IInv'
<1> DEFINE l == Parked[state[p]]
<1>1. /\ pc[p] = "sched" /\ run' = [run EXCEPT ![c] = c]
      /\ saved' = [saved EXCEPT ![p] = intena[c]] /\ pc' = [pc EXCEPT ![p] = l]
      /\ UNCHANGED <<lk, intr, intena, next, state, chan, call, nested, look>>
  BY DEF sched, Goto, procVars
<1>2. /\ p \in Procs /\ p # c /\ p \in Threads /\ pc[c] = "switched" /\ next[c] = p
      /\ TypeOK /\ CpuInv(c) /\ c \in Threads
  BY ZenonT(40), <1>1, OnProc DEF SchedPcs, IInv, Threads
<1>3. /\ Held(c) = {p} /\ state[p] \in {"RUNNABLE", "SLEEPING", "ZOMBIE"}
  BY ZenonT(40), <1>1, <1>2 DEF CpuInv, LocksHeld, Owns, States
<1>4. ~intr[c]
  BY ZenonT(40), <1>2, <1>3 DEF CpuInv, Interrupts
<1>5. LockOp(c) /\ Held(c)' = {p}
  BY ZenonT(40), <1>1, <1>3, SameLocks
<1>6. /\ l \in {"yielded", "asleep", "zombie"}
      /\ l = "yielded" <=> state[p] = "RUNNABLE"
      /\ l = "asleep" <=> state[p] = "SLEEPING"
      /\ l = "zombie" <=> state[p] = "ZOMBIE"
  BY <1>3 DEF Parked
<1> HIDE DEF l
<1>7. l \in Pcs
  BY ZenonT(40), <1>6 DEF Pcs
<1>8. /\ run' \in [CPUs -> Threads] /\ run'[c] = c
      /\ \A d \in CPUs \ {c} : run'[d] = run[d]
  BY <1>1, <1>2 DEF TypeOK
<1>9. /\ pc' \in [Threads -> Pcs] /\ pc'[p] = l
      /\ \A t \in Threads \ {p} : pc'[t] = pc[t]
  BY <1>1, <1>2, <1>7 DEF TypeOK
<1>10. /\ saved' \in [Procs -> BOOLEAN] /\ saved'[p] = intena[c]
       /\ \A q \in Procs \ {p} : saved'[q] = saved[q]
  BY <1>1, <1>2 DEF TypeOK
<1>11. Moves(c) /\ Mine(c)
  BY ZenonT(40), <1>1, <1>2, <1>8, <1>9, <1>10 DEF Moves, Mine, TypeOK
<1>12. pc'[run'[c]] = "switched" /\ pc'[c] = "switched" /\ run'[c] = c /\ next'[c] = p
       /\ c \notin Procs
  BY ZenonT(40), <1>1, <1>2, <1>8, <1>9, SchedAssumption
<1>13. Off(p)'
  <2>1. ASSUME NEW d \in CPUs, d # c PROVE run'[d] # p
    BY ZenonT(40), <1>8, <2>1 DEF IInv, OneThread
  <2> QED BY ZenonT(40), <1>2, <1>12, <2>1 DEF Off
<1>14. CpuInv(c)'
  <2>1. Place(c)'
    BY ZenonT(40), <1>2, <1>12, <1>13 DEF Place, SchedPcs, Off
  <2>2. LocksHeld(c)' /\ Interrupts(c)'
    BY ZenonT(40), <1>1, <1>4, <1>5, <1>12
    DEF LocksHeld, Interrupts, Nothing, Owns, Looks, CallPcs
  <2>3. Reasons(c)' /\ States(c)'
    BY ZenonT(40), <1>12 DEF Reasons, States
  <2> QED BY ZenonT(40), <2>1, <2>2, <2>3 DEF CpuInv
<1>15. \A d \in CPUs : CpuInv(d)'
  <2>1. Entitled(c) /\ Local(c)
    BY ZenonT(40), <1>5, <1>8, <1>11 DEF Entitled, Local
  <2>2. \A d \in CPUs \ {c} : CpuInv(d)'
    BY ZenonT(40), <2>1, OtherCpu
  <2> QED BY ZenonT(40), <1>14, <2>2
<1>16. Waits(p)'
  <2>1. /\ state[p] = "RUNNABLE" => ~intena[c] /\ nested[p] = (call[p] # "timer")
        /\ state[p] = "SLEEPING" => intena[c] /\ ~nested[p] /\ call[p] # "timer"
    <3>1. state[p] = "RUNNABLE" => ~intena[c]
      BY ZenonT(40), <1>1, <1>2 DEF CpuInv, Interrupts
    <3>2. state[p] = "SLEEPING" => intena[c]
      BY ZenonT(40), <1>1, <1>2 DEF CpuInv, Interrupts
    <3>3. /\ InTimer(c) <=> state[p] = "RUNNABLE"
          /\ InExit(c) <=> state[p] = "ZOMBIE"
      BY ZenonT(40), <1>1, <1>3 DEF InTimer, InExit
    <3>4. Reasons(c)
      BY ZenonT(40), <1>2 DEF CpuInv
    <3> QED BY ZenonT(40), <1>1, <1>2, <1>3, <3>1, <3>2, <3>3, <3>4 DEF Reasons
  <2>2. /\ pc'[p] = l /\ state'[p] = state[p] /\ saved'[p] = intena[c]
        /\ nested'[p] = nested[p] /\ call'[p] = call[p]
    BY ZenonT(40), <1>1, <1>9, <1>10
  <2> QED BY ZenonT(40), <1>3, <1>6, <2>1, <2>2 DEF Waits
<1>17. \A q \in Procs : Off(q)' => Waits(q)'
  <2> SUFFICES ASSUME NEW q \in Procs, Off(q)', q # p PROVE Waits(q)'
    BY ZenonT(40), <1>16
  <2>1. Off(q)
    BY ZenonT(40), <1>8 DEF Off
  <2> QED BY ZenonT(40), <1>1, <1>5, <1>11, <2>1, OffProc DEF Local
<1>18. TypeOK'
  BY ZenonT(40), <1>5, <1>11 DEF TypeOK, LockOp, Mine, Moves
<1>19. OneThread'
  <2>1. ASSUME NEW d \in CPUs, d # c PROVE run'[d] # c
    <3>1. run[d] = d \/ run[d] \in Procs
      BY ZenonT(40) DEF IInv, CpuInv, Place
    <3> QED BY ZenonT(40), <1>8, <1>12, <2>1, <3>1
  <2> QED BY ZenonT(40), <1>8, <2>1 DEF OneThread, IInv
<1>20. NoSleeper'
  <2>1. ASSUME NEW d \in CPUs, pc'[run'[d]] = "wakeup_time", "sleep" \notin Calls
        PROVE  ~InClock(d)'
    <3>1. d # c
      BY ZenonT(40), <1>12, <2>1
    <3>2. pc[run[d]] = "wakeup_time"
      BY ZenonT(40), <1>8, <1>11, <2>1, <3>1, Apart DEF Moves
    <3> QED BY ZenonT(40), <1>2, <1>5, <2>1, <3>1, <3>2, HeldByOthers DEF IInv, NoSleeper
  <2> QED BY ZenonT(40), <1>1, <2>1 DEF IInv, NoSleeper
<1> QED BY ZenonT(40), <1>15, <1>17, <1>18, <1>19, <1>20 DEF IInv

-----------------------------------------------------------------------------
(* The invariant is inductive *)

(* The invariant holds at the start, with every CPU in its scheduler. *)
LEMMA InitInv == ASSUME Init PROVE IInv
<1>1. TypeOK
  BY SchedAssumption DEF Init, TypeOK, Threads, Pcs, ProcStates, Chans, Procs
<1>2. /\ \A c \in CPUs : run[c] = c /\ c \notin Procs
      /\ \A c \in CPUs : pc[c] = "loop"
      /\ \A l \in Locks : lk[l] \notin CPUs
  BY SchedAssumption DEF Init, Threads
<1>3. \A c \in CPUs : Held(c) = {}
  BY ZenonT(40), <1>2 DEF Held
<1>4. OneThread
  BY ZenonT(40), <1>2 DEF OneThread
<1>5. ASSUME NEW c \in CPUs PROVE CpuInv(c)
  <2>1. run[c] = c /\ pc[run[c]] = "loop" /\ run[c] \notin Procs
    BY ZenonT(40), <1>2
  <2>2. Place(c) /\ LocksHeld(c) /\ Interrupts(c)
    BY ZenonT(40), <1>3, <2>1
    DEF Place, SchedPcs, LocksHeld, Interrupts, Nothing, Owns, Looks, CallPcs
  <2>3. Reasons(c) /\ States(c)
    BY ZenonT(40), <2>1 DEF Reasons, States
  <2> QED BY ZenonT(40), <2>2, <2>3 DEF CpuInv
<1>6. ASSUME NEW p \in Procs PROVE Waits(p)
  <2>1. pc[p] = "forkret" /\ state[p] = "RUNNABLE" /\ ~nested[p]
    BY SchedAssumption DEF Init, Threads
  <2> QED BY ZenonT(40), <2>1 DEF Waits
<1>7. NoSleeper
  <2>1. \A p \in Procs : call[p] # "sleep" /\ chan[p] # TicksChan
    BY SchedAssumption DEF Init
  <2>2. \A c \in CPUs : pc[run[c]] # "wakeup_time"
    BY ZenonT(40), <1>2
  <2> QED BY ZenonT(40), <2>1, <2>2 DEF NoSleeper
<1> QED BY ZenonT(40), <1>1, <1>4, <1>5, <1>6, <1>7 DEF IInv

(* Every step of a CPU keeps the invariant. *)
LEMMA CpuStepInv == ASSUME IInv, NEW c \in CPUs, CpuStep(c) PROVE IInv'
<1>1. ASSUME SchedScan(c) \/ SchedPick(c) \/ SchedRound(c) \/ SchedSwitch(c) \/ SchedBack(c)
      PROVE  IInv'
  BY ZenonT(40), <1>1, SchedScanInv, SchedPickInv, SchedRoundInv, SchedSwitchInv, SchedBackInv
<1>2. ASSUME sched(c) \/ forkret(c) \/ Yielded(c) \/ Woken(c) PROVE IInv'
  BY ZenonT(40), <1>2, schedInv, forkretInv, YieldedInv, WokenInv
<1>3. ASSUME TrapIn(c) \/ TrapEnds(c) \/ TrapOut(c) \/ clockintr(c) PROVE IInv'
  BY ZenonT(40), <1>3, TrapInInv, TrapEndsInv, TrapOutInv, clockintrInv
<1>4. ASSUME WakeupSkip(c) \/ WakeupFound(c) \/ WakeupTime(c) \/ ClockEnds(c) PROVE IInv'
  BY ZenonT(40), <1>4, WakeupSkipInv, WakeupFoundInv, WakeupTimeInv, ClockEndsInv
<1>5. ASSUME yield(c) \/ YieldTime(c) \/ getpid(c) PROVE IInv'
  BY ZenonT(40), <1>5, yieldInv, YieldTimeInv, getpidInv
<1>6. ASSUME SleepLoop(c) \/ SleepReturns(c) \/ sleep(c) \/ SleepTime(c) \/ Reacquire(c)
      PROVE  IInv'
  BY ZenonT(40), <1>6, SleepLoopInv, SleepReturnsInv, sleepInv, SleepTimeInv, ReacquireInv
<1>7. ASSUME wait(c) \/ WaitNone(c) \/ freeproc(c) \/ WaitCopyoutFails(c) \/ KillTime(c)
      PROVE  IInv'
  BY ZenonT(40), <1>7, waitInv, WaitNoneInv, freeprocInv, WaitCopyoutFailsInv, KillTimeInv
<1>8. ASSUME exit(c) \/ ExitLock(c) \/ ExitTime(c) PROVE IInv'
  BY ZenonT(40), <1>8, exitInv, ExitLockInv, ExitTimeInv
<1>9. ASSUME PsState(c) \/ PsWaitLock(c) \/ PsParent(c) \/ PsTime(c) \/ PsFails(c)
      PROVE  IInv'
  BY ZenonT(40), <1>9, PsStateInv, PsWaitLockInv, PsParentInv, PsTimeInv
<1>10. ASSUME NEW q \in Procs, WaitFound(c, q) \/ kill(c, q) \/ ps_info(c, q) PROVE IInv'
  BY ZenonT(40), <1>10, WaitFoundInv, killInv, ps_infoInv
<1>11. ASSUME NEW k \in 0 .. MaxSleep, sys_sleep(c, k) PROVE IInv'
  BY ZenonT(40), <1>11, sys_sleepInv
<1> QED BY ZenonT(40), <1>1, <1>2, <1>3, <1>4, <1>5, <1>6, <1>7, <1>8, <1>9, <1>10, <1>11
    DEF CpuStep

(* Every step keeps the invariant. *)
LEMMA NextInv == ASSUME IInv, Next PROVE IInv'
<1> PICK c \in CPUs : CpuStep(c) \/ Timer(c) \/ (\E why \in Calls : Trap(c, why))
  BY DEF Next
<1>1. ASSUME CpuStep(c) PROVE IInv'
  BY ZenonT(40), <1>1, CpuStepInv
<1>2. ASSUME Timer(c) PROVE IInv'
  BY ZenonT(40), <1>2, TrapInv, KernelTimerInv, IdleTimerInv DEF Timer
<1>3. ASSUME NEW why \in Calls, Trap(c, why) PROVE IInv'
  BY ZenonT(40), <1>3, TrapInv
<1> QED BY ZenonT(40), <1>1, <1>2, <1>3

(* A step that changes nothing keeps it. *)
LEMMA StutterInv == ASSUME IInv, UNCHANGED vars PROVE IInv'
<1>1. UNCHANGED <<lk, intr, intena, run, next, state, chan, pc, call, nested, saved, look>>
  BY DEF vars, cpuVars, procVars, localVars
<1>2. TypeOK' /\ OneThread' /\ NoSleeper'
  BY ZenonT(40), <1>1 DEF IInv, TypeOK, OneThread, NoSleeper, InClock
<1>3. ASSUME NEW c \in CPUs PROVE CpuInv(c)'
  <2>1. CpuInv(c)
    BY ZenonT(40) DEF IInv
  <2>2. Place(c)'
    BY ZenonT(40), <1>1, <2>1 DEF CpuInv, Place, Off
  <2>3. LocksHeld(c)'
    BY ZenonT(40), <1>1, <2>1 DEF CpuInv, LocksHeld, Held, WakeLock, InClock, CondLock
  <2>4. Interrupts(c)'
    BY ZenonT(40), <1>1, <2>1 DEF CpuInv, Interrupts, Held
  <2>5. Reasons(c)'
    BY ZenonT(40), <1>1, <2>1 DEF CpuInv, Reasons, InTimer, InExit, InClock
  <2>6. States(c)'
    BY ZenonT(40), <1>1, <2>1 DEF CpuInv, States
  <2> QED BY ZenonT(40), <2>2, <2>3, <2>4, <2>5, <2>6 DEF CpuInv
<1>4. ASSUME NEW p \in Procs, Off(p)' PROVE Waits(p)'
  <2>1. Waits(p)
    BY ZenonT(40), <1>1, <1>4 DEF IInv, Off
  <2> QED BY ZenonT(40), <1>1, <2>1 DEF Waits, Picked
<1> QED BY ZenonT(40), <1>2, <1>3, <1>4 DEF IInv

-----------------------------------------------------------------------------
(* What the invariant says *)

(* A lock that a CPU holds is not free. *)
LEMMA LockFree ==
  ASSUME NEW c \in CPUs, NEW l \in Locks, l \in Held(c) PROVE lk[l] = c /\ lk[l] # None
BY ZenonT(40), SchedAssumption DEF Held

(* The invariant implies OneCPU: a process that is on no CPU is RUNNING    *)
(* only while a scheduler holds its lock to switch to it.                  *)
LEMMA OneCPULemma == ASSUME IInv PROVE OneCPU
<1>1. \A c, d \in CPUs : run[c] = run[d] => c = d
  BY ZenonT(40) DEF IInv, OneThread
<1>2. ASSUME NEW p \in Procs, lk[p] = None
      PROVE  state[p] = "RUNNING" <=> \E c \in CPUs : run[c] = p
  <2>0. p \in Locks
    BY ZenonT(40) DEF Locks
  <2>1. ASSUME NEW c \in CPUs, run[c] = p PROVE state[p] = "RUNNING"
    <3>1. CpuInv(c)
      BY ZenonT(40) DEF IInv
    <3>2. pc[p] \in {"yield_time", "sched"} => p \in Held(c)
      BY ZenonT(40), <2>1, <3>1 DEF CpuInv, LocksHeld, Owns
    <3> QED BY ZenonT(40), <1>2, <2>0, <2>1, <3>1, <3>2, LockFree DEF CpuInv, States
  <2>2. ASSUME state[p] = "RUNNING", Off(p) PROVE FALSE
    <3>1. PICK d \in CPUs : run[d] = d /\ pc[d] = "pick" /\ next[d] = p
      BY ZenonT(40), <2>2 DEF IInv, Waits, Picked
    <3>2. p \in Held(d)
      BY ZenonT(40), <3>1, InScheduler
    <3> QED BY ZenonT(40), <1>2, <2>0, <3>2, LockFree
  <2> QED BY ZenonT(40), <2>1, <2>2 DEF Off
<1> QED BY ZenonT(40), <1>1, <1>2 DEF OneCPU

(* The invariant implies SchedChecks: in sched() the CPU holds p->lock     *)
(* only.                                                                   *)
LEMMA SchedChecksLemma == ASSUME IInv PROVE SchedChecks
<1> SUFFICES ASSUME NEW c \in CPUs, pc[run[c]] = "sched"
             PROVE  Held(c) = {run[c]} /\ state[run[c]] # "RUNNING" /\ ~intr[c]
  BY ZenonT(40) DEF SchedChecks
<1>1. CpuInv(c) /\ run[c] \in Procs
  BY ZenonT(40), OnProc DEF IInv, SchedPcs
<1>2. Held(c) = {run[c]}
  BY ZenonT(40), <1>1 DEF CpuInv, LocksHeld, Owns
<1>3. state[run[c]] # "RUNNING"
  BY ZenonT(40), <1>1 DEF CpuInv, States
<1> QED BY ZenonT(40), <1>1, <1>2, <1>3 DEF CpuInv, Interrupts

(* The invariant implies CallsInterruptible. *)
LEMMA CallsInterruptibleLemma == ASSUME IInv PROVE CallsInterruptible
BY ZenonT(40)
DEF IInv, CpuInv, LocksHeld, Interrupts, Nothing, CallsInterruptible

(* The invariant implies NoReacquire when nobody waits for the clock:      *)
(* clockintr() then reads no time under tickslock.                         *)
LEMMA NoReacquireLemma == ASSUME IInv, "sleep" \notin Calls PROVE NoReacquire
<1> SUFFICES ASSUME NEW c \in CPUs, NEW l \in Wants(c), lk[l] = c PROVE FALSE
  BY ZenonT(40) DEF NoReacquire, Awaits
<1> DEFINE t == run[c]
<1>1. CpuInv(c) /\ LocksHeld(c) /\ TypeOK
  BY ZenonT(40) DEF IInv, CpuInv
<1>2. l \in Locks => l \in Held(c)
  BY ZenonT(40) DEF Held
<1>3. tickslock \in Locks /\ wait_lock \in Locks /\ tickslock # wait_lock
      /\ tickslock \notin Procs /\ wait_lock \notin Procs /\ Procs \subseteq Locks
  BY ZenonT(40), SchedAssumption DEF Locks
<1>4. pc[t] \notin SchedPcs => t \in Procs
  BY ZenonT(40), OnProc
<1>5. CASE pc[t] \in {"pick", "trapin", "trapout", "tick", "yield_time",
                      "sleep_time", "freeproc", "kill_time", "exit_time", "ps_time"}
  <2>1. l = tickslock
    BY <1>5 DEF Wants
  <2>2. pc[t] = "pick" => next[c] \in Procs
    BY ZenonT(40), <1>1, <1>5 DEF CpuInv, Place, ProcPcs
  <2>3. pc[t] \in {"freeproc", "kill_time", "ps_time"} => look[t] \in Procs
    BY ZenonT(40), <1>1 DEF LocksHeld, Looks
  <2>4. pc[t] \in {"yield_time", "sleep_time", "exit_time"} => t \in Procs
    BY ZenonT(40), <1>4 DEF SchedPcs
  <2>5. tickslock \notin Held(c)
    BY ZenonT(40), <1>1, <1>3, <1>5, <2>2, <2>3, <2>4 DEF LocksHeld, Nothing, Owns
  <2> QED BY ZenonT(40), <1>2, <1>3, <2>1, <2>5
<1>6. CASE pc[t] = "wakeup_time"
  <2>1. l = tickslock
    BY <1>6 DEF Wants
  <2> QED BY ZenonT(40), <1>6, <2>1 DEF IInv, NoSleeper, InClock
<1>7. CASE pc[t] \in {"yield", "sleep_loop", "sleep", "trap"}
  <2>1. l = t
    BY <1>7 DEF Wants
  <2>2. t \in Procs
    BY ZenonT(40), <1>4, <1>7 DEF SchedPcs
  <2>3. t \notin Held(c)
    BY ZenonT(40), <1>1, <1>3, <1>7, <2>2 DEF LocksHeld, Nothing, CondLock
  <2> QED BY ZenonT(40), <1>2, <1>3, <2>1, <2>2, <2>3
<1>8. CASE pc[t] \in {"exit", "ps_wait"}
  <2>1. l = wait_lock
    BY <1>8 DEF Wants
  <2>2. wait_lock \notin Held(c)
    BY ZenonT(40), <1>1, <1>3, <1>8 DEF LocksHeld, Nothing, Looks
  <2> QED BY ZenonT(40), <1>2, <1>3, <2>1, <2>2
<1>9. CASE pc[t] \in {"ps_lock", "woken", "loop"}
  <2>1. l \in Locks
    <3>1. pc[t] = "ps_lock" => l = look[t] /\ look[t] \in Procs
      BY <1>1 DEF Wants, LocksHeld, Looks
    <3>2. pc[t] = "woken" => l = CondLock(t)
      BY DEF Wants
    <3>3. pc[t] = "loop" => l \in Procs
      BY DEF Wants
    <3> QED BY ZenonT(40), <1>3, <1>9, <3>1, <3>2, <3>3 DEF CondLock
  <2>2. Held(c) = {}
    BY ZenonT(40), <1>1, <1>9 DEF LocksHeld, Nothing
  <2> QED BY ZenonT(40), <1>2, <2>1, <2>2
<1>10. CASE pc[t] = "ps_parent"
  <2>1. l \in Procs /\ look[t] \in Procs \ {l}
    <3>1. l \in Parent(look[t])
      BY <1>10 DEF Wants
    <3> QED BY ZenonT(40), <3>1 DEF Parent, Children
  <2>2. Held(c) = {look[t], wait_lock}
    BY ZenonT(40), <1>1, <1>10 DEF LocksHeld
  <2> QED BY ZenonT(40), <1>2, <1>3, <2>1, <2>2
<1>11. CASE pc[t] = "wakeup"
  <2>1. Held(c) = {WakeLock(c)} /\ look[t] \in 1 .. NPROC + 1
    BY ZenonT(40), <1>11, InWakeup, LookRange
  <2>2. \/ look[t] = NPROC + 1 /\ ~InClock(c) /\ l = t
        \/ look[t] # NPROC + 1 /\ l = look[t]
    BY <1>11 DEF Wants
  <2>3. l \in Procs
    <3>1. look[t] # NPROC + 1 => look[t] \in Procs
      BY <2>1, SchedAssumption DEF Procs
    <3> QED BY ZenonT(40), <1>11, <2>2, <3>1, InWakeup
  <2> QED BY ZenonT(40), <1>2, <1>3, <2>1, <2>3 DEF WakeLock
<1>12. pc[t] \in {"pick", "trapin", "trapout", "tick", "wakeup_time", "yield_time",
                  "sleep_time", "freeproc", "kill_time", "exit_time", "ps_time", "yield",
                  "sleep_loop", "sleep", "trap", "exit", "ps_wait", "ps_lock", "woken",
                  "loop", "ps_parent", "wakeup"}
  BY DEF Wants
<1> QED BY ZenonT(40), <1>5, <1>6, <1>7, <1>8, <1>9, <1>10, <1>11, <1>12

-----------------------------------------------------------------------------
(* IInv holds in every reachable state: what locks a CPU holds, whether its *)
(* interrupts are on and what it will restore follow from where its thread  *)
(* is, for any number of CPUs and processes.                                *)
THEOREM Invariant == Spec => []IInv
<1>1. Init => IInv
  BY InitInv
<1>2. IInv /\ [Next]_vars => IInv'
  BY NextInv, StutterInv
<1> QED BY <1>1, <1>2, PTL DEF Spec

(* The tests in sched() never panic: yield(), sleep() and exit() reach it   *)
(* with p->lock held and no other lock, interrupts off and the state        *)
(* changed.                                                                 *)
THEOREM SchedNeverPanics == Spec => []SchedChecks
<1>1. IInv => SchedChecks
  BY SchedChecksLemma
<1> QED BY <1>1, Invariant, PTL

(* No process runs on two CPUs, and while its lock is free a process is on  *)
(* a CPU exactly if it is RUNNING: scheduler() and sched() hand p->lock     *)
(* over with the CPU.                                                       *)
THEOREM OneCPUPerProcess == Spec => []OneCPU
<1>1. IInv => OneCPU
  BY OneCPULemma
<1> QED BY <1>1, Invariant, PTL

(* A system call runs with interrupts on and without locks when it enters   *)
(* and leaves syscall(), whatever push_off() and pop_off() of other threads *)
(* did to the CPU in between: sched() saves and restores intena.            *)
THEOREM InterruptsRestored == Spec => []CallsInterruptible
<1>1. IInv => CallsInterruptible
  BY CallsInterruptibleLemma
<1> QED BY <1>1, Invariant, PTL

(* acquire() never panics because the CPU already holds the lock, in a      *)
(* system without sys_sleep(): no process waits for the clock, so wakeup()  *)
(* from clockintr() never reaches the sys_uptime() that takes tickslock     *)
(* again.                                                                   *)
THEOREM AcquireNeverPanics == ASSUME "sleep" \notin Calls PROVE Spec => []NoReacquire
<1>1. IInv => NoReacquire
  BY NoReacquireLemma
<1> QED BY <1>1, Invariant, PTL
=============================================================================
