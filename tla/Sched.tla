-------------------------------- MODULE Sched --------------------------------
(* CPUs, spinlocks, interrupts and the scheduler: scheduler(), sched(),     *)
(* yield(), sleep(), wakeup(), exit() and wait() of kernel/proc.c with      *)
(* kernel/spinlock.c, the traps of kernel/trap.c and the clock.             *)
(*                                                                          *)
(* A thread is the scheduler of a CPU or a process.  A step goes from one   *)
(* acquire() that may have to spin to the next; successive calls of         *)
(* sys_uptime() are one.                                                    *)
EXTENDS Integers

CONSTANTS NPROC,     \* the processes are 1 .. NPROC and all children of 1
          CPUs,
          CPU0,      \* the CPU whose timer advances the clock
          Calls,     \* the system calls that are made
          MaxSleep,  \* ticks in a call of sys_sleep()
          UINT,      \* the number of values of a uint
          tickslock, wait_lock,
          TicksChan, \* &ticks as a channel; a process is the other kind
          None

Procs == 1 .. NPROC
initproc == 1
Locks == Procs \cup {tickslock, wait_lock}   \* Procs stand for their p->lock
Threads == CPUs \cup Procs

ASSUME SchedAssumption ==
  /\ NPROC \in Nat \ {0} /\ UINT \in Nat \ {0} /\ MaxSleep \in 0 .. UINT - 1
  /\ CPU0 \in CPUs /\ None \notin CPUs \cup {"sleep"} /\ CPUs \cap Procs = {}
  /\ tickslock # wait_lock /\ {tickslock, wait_lock} \cap Procs = {}
  /\ TicksChan \notin Procs \cup {None}
  /\ Calls \subseteq {"sleep", "wait", "kill", "exit", "getpid", "ps_info"}

VARIABLES
  lk,                       \* lk->cpu of each spinlock, None when it is free
  intr, intena,             \* of a CPU: interrupts are on; cpu->intena
  run,                      \* the thread on a CPU
  next,                     \* p in scheduler()
  state, chan, killed,      \* fields of struct proc
  ticks,
  pc,                       \* where a thread is
  call,                     \* why a process is in usertrap()
  nested,                   \* a process is in kerneltrap()
  saved,                    \* intena in sched()
  look,                     \* p in wakeup(), kill() and wait()
  ticks0, n                 \* locals of sys_sleep()

cpuVars == <<lk, intr, intena, run, next>>
procVars == <<state, chan, killed>>
localVars == <<call, nested, saved, look, ticks0, n>>
vars == <<cpuVars, procVars, ticks, pc, localVars>>

Goto(c, l) == pc' = [pc EXCEPT ![run[c]] = l]

-----------------------------------------------------------------------------
(* spinlock.c *)

(* noff counts the locks a CPU holds. *)
Held(c) == {l \in Locks : lk[l] = c}

push_off(c) ==
  /\ intena' = IF Held(c) = {} THEN [intena EXCEPT ![c] = intr[c]] ELSE intena
  /\ intr' = [intr EXCEPT ![c] = FALSE]

acquire(c, l) == /\ lk[l] = None
                 /\ lk' = [lk EXCEPT ![l] = c]
                 /\ push_off(c)

(* release() of the locks L, with pop_off(). *)
release(c, L) ==
  /\ lk' = [l \in Locks |-> IF l \in L THEN None ELSE lk[l]]
  /\ intr' = [intr EXCEPT ![c] = IF Held(c) \subseteq L THEN intena[c] ELSE @]
  /\ UNCHANGED intena

(* acquire() and release() with nothing in between that others can see *)
Touch(c, l) == /\ lk[l] = None
               /\ intena' = IF Held(c) = {} THEN [intena EXCEPT ![c] = intr[c]] ELSE intena
               /\ UNCHANGED <<lk, intr>>

(* acquire(l) and then release(m) *)
Exchange(c, l, m) == /\ lk[l] = None
                     /\ lk' = [lk EXCEPT ![l] = c, ![m] = None]
                     /\ UNCHANGED <<intr, intena>>

sys_uptime(c) == Touch(c, tickslock)

-----------------------------------------------------------------------------
(* All processes have been made by fork() and wait for their first turn. *)
Init ==
  /\ lk = [l \in Locks |-> None]
  /\ intr = [c \in CPUs |-> TRUE] /\ intena = [c \in CPUs |-> FALSE]
  /\ run = [c \in CPUs |-> c] /\ next = [c \in CPUs |-> 1]
  /\ state = [p \in Procs |-> "RUNNABLE"] /\ chan = [p \in Procs |-> None]
  /\ killed = {} /\ ticks = 0
  /\ pc = [t \in Threads |-> IF t \in CPUs THEN "loop" ELSE "forkret"]
  /\ call = [p \in Procs |-> None] /\ nested = [p \in Procs |-> FALSE]
  /\ saved = [p \in Procs |-> FALSE] /\ look = [t \in Threads |-> 1]
  /\ ticks0 = [p \in Procs |-> 0] /\ n = [p \in Procs |-> 0]

-----------------------------------------------------------------------------
(* scheduler() *)

(* The scheduler looks at an entry that is not RUNNABLE. *)
SchedScan(c) ==
  /\ run[c] = c /\ pc[c] = "loop" /\ next[c] \in Procs
  /\ state[next[c]] # "RUNNABLE" /\ Touch(c, next[c])
  /\ next' = [next EXCEPT ![c] = @ + 1]
  /\ UNCHANGED <<run, procVars, ticks, pc, localVars>>

SchedPick(c) ==
  /\ run[c] = c /\ pc[c] = "loop" /\ next[c] \in Procs
  /\ state[next[c]] = "RUNNABLE" /\ acquire(c, next[c])
  /\ state' = [state EXCEPT ![next[c]] = "RUNNING"]
  /\ Goto(c, "pick")
  /\ UNCHANGED <<run, next, chan, killed, ticks, localVars>>

(* The time accounting and swtch() to the process. *)
SchedSwitch(c) ==
  /\ run[c] = c /\ pc[c] = "pick" /\ sys_uptime(c)
  /\ run' = [run EXCEPT ![c] = next[c]]
  /\ Goto(c, "switched")
  /\ UNCHANGED <<next, procVars, ticks, localVars>>

(* Mutant: the scan starts again at the first process. *)
SchedBack_Restart(c) ==
  /\ run[c] = c /\ pc[c] = "switched" /\ release(c, {next[c]})
  /\ next' = [next EXCEPT ![c] = 1]
  /\ Goto(c, "loop")
  /\ UNCHANGED <<run, procVars, ticks, localVars>>

(* The process has come back and left its lock to the scheduler. *)
SchedBack(c) ==
  /\ run[c] = c /\ pc[c] = "switched" /\ release(c, {next[c]})
  /\ next' = [next EXCEPT ![c] = @ + 1]
  /\ Goto(c, "loop")
  /\ UNCHANGED <<run, procVars, ticks, localVars>>

(* The top of the outer loop. *)
SchedRound(c) ==
  /\ run[c] = c /\ pc[c] = "loop" /\ next[c] = NPROC + 1
  /\ next' = [next EXCEPT ![c] = 1]
  /\ intr' = [intr EXCEPT ![c] = TRUE]
  /\ UNCHANGED <<lk, intena, run, procVars, ticks, pc, localVars>>

-----------------------------------------------------------------------------
(* sched(), and where its callers go on *)

Parked == [RUNNABLE |-> "yielded", SLEEPING |-> "asleep", ZOMBIE |-> "zombie"]

sched(c) ==
  /\ pc[run[c]] = "sched"
  /\ run' = [run EXCEPT ![c] = c]
  /\ saved' = [saved EXCEPT ![run[c]] = intena[c]]
  /\ Goto(c, Parked[state[run[c]]])
  /\ UNCHANGED <<lk, intr, intena, next, procVars, ticks, call, nested, look, ticks0, n>>

(* forkret(): the first turn of a process ends in user space. *)
forkret(c) ==
  /\ pc[run[c]] = "forkret"
  /\ lk' = [lk EXCEPT ![run[c]] = None]
  /\ intr' = [intr EXCEPT ![c] = FALSE]
  /\ Goto(c, "user")
  /\ UNCHANGED <<intena, run, next, procVars, ticks, localVars>>

(* Mutant: sched() keeps the intena of the CPU. *)
Restore_None(c) == intena[c]

(* The intena that sched() restores. *)
Restore(c) == saved[run[c]]

(* The end of yield(): back to usertrap(), or out of kerneltrap(), whose    *)
(* sret turns interrupts on.                                                *)
Yielded(c) ==
  /\ pc[run[c]] = "yielded"
  /\ lk' = [lk EXCEPT ![run[c]] = None]
  /\ intena' = [intena EXCEPT ![c] = Restore(c)]
  /\ intr' = [intr EXCEPT ![c] = Restore(c) \/ nested[run[c]]]
  /\ nested' = [nested EXCEPT ![run[c]] = FALSE]
  /\ Goto(c, IF nested[run[c]] THEN "kernel" ELSE "trapout")
  /\ UNCHANGED <<run, next, procVars, ticks, call, saved, look, ticks0, n>>

(* The end of sleep(), up to the lock it has to take again. *)
Woken(c) ==
  /\ pc[run[c]] = "asleep"
  /\ lk' = [lk EXCEPT ![run[c]] = None]
  /\ intena' = [intena EXCEPT ![c] = Restore(c)]
  /\ intr' = [intr EXCEPT ![c] = Restore(c)]
  /\ chan' = [chan EXCEPT ![run[c]] = None]
  /\ Goto(c, "woken")
  /\ UNCHANGED <<run, next, state, killed, ticks, localVars>>

-----------------------------------------------------------------------------
(* usertrap(), kerneltrap(), clockintr() *)

(* A system call, or the timer, takes a process out of user space. *)
Trap(c, why) ==
  /\ pc[run[c]] = "user"
  /\ call' = [call EXCEPT ![run[c]] = why]
  /\ Goto(c, "trapin")
  /\ UNCHANGED <<cpuVars, procVars, ticks, nested, saved, look, ticks0, n>>

(* The timer interrupts a process inside a system call. *)
KernelTimer(c) ==
  /\ pc[run[c]] = "kernel" /\ intr[c]
  /\ intr' = [intr EXCEPT ![c] = FALSE]
  /\ nested' = [nested EXCEPT ![run[c]] = TRUE]
  /\ Goto(c, IF c = CPU0 THEN "tick" ELSE "yield")
  /\ UNCHANGED <<lk, intena, run, next, procVars, ticks, call, saved, look, ticks0, n>>

(* The timer of CPU0 interrupts its scheduler. *)
IdleTimer ==
  /\ run[CPU0] = CPU0 /\ pc[CPU0] = "loop" /\ intr[CPU0]
  /\ intr' = [intr EXCEPT ![CPU0] = FALSE]
  /\ Goto(CPU0, "tick")
  /\ UNCHANGED <<lk, intena, run, next, procVars, ticks, localVars>>

(* usertrap() up to the handler: interrupts stay off unless it is a system  *)
(* call of a process that has not been killed.                              *)
TrapIn(c) ==
  LET p == run[c]
      exits == p \in killed /\ call[p] # "timer" IN
  /\ pc[p] = "trapin" /\ lk[tickslock] = None
  /\ call[p] # "timer" => lk[p] = None
  /\ intena' = [intena EXCEPT ![c] = FALSE]
  /\ intr' = [intr EXCEPT ![c] = call[p] # "timer" /\ ~exits]
  /\ Goto(c, CASE exits -> "exit"
               [] call[p] = "timer" -> IF c = CPU0 THEN "tick" ELSE "trap"
               [] OTHER -> "kernel")
  /\ UNCHANGED <<lk, run, next, procVars, ticks, localVars>>

(* The end of usertrap(): exit(), yield() or the way back. *)
TrapEnds(c) ==
  /\ pc[run[c]] = "trap" /\ Touch(c, run[c])
  /\ Goto(c, IF run[c] \in killed THEN "exit"
             ELSE IF call[run[c]] = "timer" THEN "yield" ELSE "trapout")
  /\ UNCHANGED <<run, next, procVars, ticks, localVars>>

(* The last sys_uptime() of usertrap(), and usertrapret(). *)
TrapOut(c) ==
  /\ pc[run[c]] = "trapout" /\ lk[tickslock] = None
  /\ intena' = [intena EXCEPT ![c] = intr[c]]
  /\ intr' = [intr EXCEPT ![c] = FALSE]
  /\ call' = [call EXCEPT ![run[c]] = None]
  /\ Goto(c, "user")
  /\ UNCHANGED <<lk, run, next, procVars, ticks, nested, saved, look, ticks0, n>>

clockintr(c) ==
  /\ pc[run[c]] = "tick" /\ acquire(c, tickslock)
  /\ ticks' = (ticks + 1) % UINT
  /\ Goto(c, "wakeup")
  /\ UNCHANGED <<run, next, procVars, localVars>>

-----------------------------------------------------------------------------
(* wakeup(), called by clockintr() and exit() *)

InClock(c) == lk[tickslock] = c
WakeChan(c) == IF InClock(c) THEN TicksChan ELSE initproc

LookNext(c) == look' = [look EXCEPT ![run[c]] = @ + 1]
LookReset(c) == look' = [look EXCEPT ![run[c]] = 1]

(* Is p asleep on channel ch? *)
AsleepOn(p, ch) == state[p] = "SLEEPING" /\ chan[p] = ch

(* An entry that is not asleep on the channel, or the process itself. *)
WakeupSkip(c) ==
  /\ pc[run[c]] = "wakeup" /\ look[run[c]] \in Procs
  /\ \/ look[run[c]] = run[c]
     \/ lk[look[run[c]]] = None /\ ~AsleepOn(look[run[c]], WakeChan(c))
  /\ LookNext(c)
  /\ UNCHANGED <<cpuVars, procVars, ticks, pc, call, nested, saved, ticks0, n>>

WakeupFound(c) ==
  /\ pc[run[c]] = "wakeup" /\ look[run[c]] \in Procs \ {run[c]}
  /\ AsleepOn(look[run[c]], WakeChan(c)) /\ acquire(c, look[run[c]])
  /\ state' = [state EXCEPT ![look[run[c]]] = "RUNNABLE"]
  /\ Goto(c, "wakeup_time")
  /\ UNCHANGED <<run, next, chan, killed, ticks, localVars>>

(* last_runnable = sys_uptime() *)
WakeupTime(c) ==
  /\ pc[run[c]] = "wakeup_time" /\ lk[tickslock] = None
  /\ release(c, {look[run[c]]})
  /\ LookNext(c) /\ Goto(c, "wakeup")
  /\ UNCHANGED <<run, next, procVars, ticks, call, nested, saved, ticks0, n>>

(* clockintr() ends: the scheduler goes on where it was interrupted, a      *)
(* process gives up the CPU.                                                *)
ClockEnds(c) ==
  /\ pc[run[c]] = "wakeup" /\ look[run[c]] = NPROC + 1 /\ InClock(c)
  /\ lk' = [lk EXCEPT ![tickslock] = None]
  /\ intr' = [intr EXCEPT ![c] = run[c] = c]
  /\ LookReset(c)
  /\ Goto(c, IF run[c] = c THEN "loop" ELSE IF nested[run[c]] THEN "yield" ELSE "trap")
  /\ UNCHANGED <<intena, run, next, procVars, ticks, call, nested, saved, ticks0, n>>

yield(c) ==
  /\ pc[run[c]] = "yield" /\ acquire(c, run[c])
  /\ state' = [state EXCEPT ![run[c]] = "RUNNABLE"]
  /\ Goto(c, "yield_time")
  /\ UNCHANGED <<run, next, chan, killed, ticks, localVars>>

(* Mutant: yield() releases p->lock before sched(). *)
YieldTime_Release(c) ==
  /\ pc[run[c]] = "yield_time" /\ lk[tickslock] = None
  /\ release(c, {run[c]})
  /\ Goto(c, "sched")
  /\ UNCHANGED <<run, next, procVars, ticks, localVars>>

YieldTime(c) ==
  /\ pc[run[c]] = "yield_time" /\ sys_uptime(c)
  /\ Goto(c, "sched")
  /\ UNCHANGED <<run, next, procVars, ticks, localVars>>

-----------------------------------------------------------------------------
(* System calls.  A process in "kernel" has not begun the call yet. *)

InCall(c, name) == pc[run[c]] = "kernel" /\ call[run[c]] = name

(* A call that takes no lock. *)
getpid(c) ==
  /\ InCall(c, "getpid")
  /\ Goto(c, "trap")
  /\ UNCHANGED <<cpuVars, procVars, ticks, localVars>>

sys_sleep(c, k) ==
  /\ InCall(c, "sleep") /\ acquire(c, tickslock)
  /\ ticks0' = [ticks0 EXCEPT ![run[c]] = ticks]
  /\ n' = [n EXCEPT ![run[c]] = k]
  /\ Goto(c, "sleep_loop")
  /\ UNCHANGED <<run, next, procVars, ticks, call, nested, saved, look>>

(* A turn of the loop in sys_sleep(); killed() takes p->lock. *)
TooEarly(p) == (ticks - ticks0[p]) % UINT < n[p]

SleepLoop(c) ==
  /\ pc[run[c]] = "sleep_loop"
  /\ TooEarly(run[c]) /\ run[c] \notin killed
  /\ Touch(c, run[c])
  /\ Goto(c, "sleep")
  /\ UNCHANGED <<run, next, procVars, ticks, localVars>>

SleepReturns(c) ==
  /\ pc[run[c]] = "sleep_loop"
  /\ TooEarly(run[c]) => run[c] \in killed /\ lk[run[c]] = None
  /\ release(c, {tickslock})
  /\ ticks0' = [ticks0 EXCEPT ![run[c]] = 0] /\ n' = [n EXCEPT ![run[c]] = 0]
  /\ Goto(c, "trap")
  /\ UNCHANGED <<run, next, procVars, ticks, call, nested, saved, look>>

(* sleep(): p->lock is taken and lk released. *)
CondLock(p) == IF call[p] = "sleep" THEN tickslock ELSE wait_lock
CondChan(p) == IF call[p] = "sleep" THEN TicksChan ELSE p

sleep(c) ==
  /\ pc[run[c]] = "sleep"
  /\ Exchange(c, run[c], CondLock(run[c]))
  /\ chan' = [chan EXCEPT ![run[c]] = CondChan(run[c])]
  /\ Goto(c, "sleep_time")
  /\ UNCHANGED <<run, next, state, killed, ticks, localVars>>

SleepTime(c) ==
  /\ pc[run[c]] = "sleep_time" /\ sys_uptime(c)
  /\ state' = [state EXCEPT ![run[c]] = "SLEEPING"]
  /\ Goto(c, "sched")
  /\ UNCHANGED <<run, next, chan, killed, ticks, localVars>>

(* The acquire(lk) at the end of sleep(). *)
Reacquire(c) ==
  /\ pc[run[c]] = "woken" /\ acquire(c, CondLock(run[c]))
  /\ Goto(c, IF call[run[c]] = "sleep" THEN "sleep_loop" ELSE "wait_loop")
  /\ UNCHANGED <<run, next, procVars, ticks, localVars>>

(* wait() of initproc; every other process has no children. *)
Children(p) == {q \in Procs \ {initproc} : p = initproc /\ state[q] # "UNUSED"}

wait(c) ==
  /\ InCall(c, "wait") /\ acquire(c, wait_lock)
  /\ Goto(c, "wait_loop")
  /\ UNCHANGED <<run, next, procVars, ticks, localVars>>

WaitFound(c, q) ==
  /\ pc[run[c]] = "wait_loop"
  /\ q \in Children(run[c]) /\ state[q] = "ZOMBIE" /\ acquire(c, q)
  /\ look' = [look EXCEPT ![run[c]] = q]
  /\ Goto(c, "freeproc")
  /\ UNCHANGED <<run, next, procVars, ticks, call, nested, saved, ticks0, n>>

(* Mutant: wait() keeps the lock of the child. *)
freeproc_KeepLock(c) ==
  /\ pc[run[c]] = "freeproc" /\ lk[tickslock] = None
  /\ state' = [state EXCEPT ![look[run[c]]] = "UNUSED"]
  /\ killed' = killed \ {look[run[c]]}
  /\ release(c, {wait_lock})
  /\ LookReset(c) /\ Goto(c, "trap")
  /\ UNCHANGED <<run, next, chan, ticks, call, nested, saved, ticks0, n>>

(* freeproc() and the two release() of wait(). *)
freeproc(c) ==
  /\ pc[run[c]] = "freeproc" /\ lk[tickslock] = None
  /\ state' = [state EXCEPT ![look[run[c]]] = "UNUSED"]
  /\ killed' = killed \ {look[run[c]]}
  /\ release(c, {look[run[c]], wait_lock})
  /\ LookReset(c) /\ Goto(c, "trap")
  /\ UNCHANGED <<run, next, chan, ticks, call, nested, saved, ticks0, n>>

(* copyout() of the exit status fails. *)
WaitCopyoutFails(c) ==
  /\ pc[run[c]] = "freeproc"
  /\ release(c, {look[run[c]], wait_lock})
  /\ LookReset(c) /\ Goto(c, "trap")
  /\ UNCHANGED <<run, next, procVars, ticks, call, nested, saved, ticks0, n>>

(* No child is a zombie: wait() fails or sleeps. *)
WaitNone(c) ==
  /\ pc[run[c]] = "wait_loop"
  /\ \A q \in Children(run[c]) : state[q] # "ZOMBIE"
  /\ lk[run[c]] = None
  /\ IF Children(run[c]) = {} \/ run[c] \in killed
     THEN release(c, {wait_lock}) /\ Goto(c, "trap")
     ELSE Goto(c, "sleep") /\ UNCHANGED <<lk, intr, intena>>
  /\ UNCHANGED <<run, next, procVars, ticks, localVars>>

(* kill() at the entry it is called for: exit() of initproc is a panic. *)
kill(c, q) ==
  /\ InCall(c, "kill") /\ q # initproc /\ state[q] # "UNUSED"
  /\ killed' = killed \cup {q}
  /\ IF state[q] = "SLEEPING"
     THEN /\ acquire(c, q)
          /\ state' = [state EXCEPT ![q] = "RUNNABLE"]
          /\ look' = [look EXCEPT ![run[c]] = q]
          /\ Goto(c, "kill_time")
     ELSE Touch(c, q) /\ Goto(c, "trap") /\ UNCHANGED <<state, look>>
  /\ UNCHANGED <<run, next, chan, ticks, call, nested, saved, ticks0, n>>

KillTime(c) ==
  /\ pc[run[c]] = "kill_time" /\ lk[tickslock] = None
  /\ release(c, {look[run[c]]})
  /\ LookReset(c) /\ Goto(c, "trap")
  /\ UNCHANGED <<run, next, procVars, ticks, call, nested, saved, ticks0, n>>

-----------------------------------------------------------------------------
(* ps_info() of process q *)

(* The first loop finds the entry with the pid; nothing is locked between   *)
(* the entries, nor after the loop.                                         *)
ps_info(c, q) ==
  /\ InCall(c, "ps_info") /\ state[q] # "UNUSED" /\ Touch(c, q)
  /\ look' = [look EXCEPT ![run[c]] = q]
  /\ Goto(c, "ps_lock")
  /\ UNCHANGED <<run, next, procVars, ticks, call, nested, saved, ticks0, n>>

(* The state is copied out under p->lock. *)
PsState(c) ==
  /\ pc[run[c]] = "ps_lock" /\ acquire(c, look[run[c]])
  /\ Goto(c, "ps_wait")
  /\ UNCHANGED <<run, next, procVars, ticks, localVars>>

(* wait_lock, for the parent, while p->lock is held. *)
PsWaitLock(c) ==
  /\ pc[run[c]] = "ps_wait" /\ acquire(c, wait_lock)
  /\ Goto(c, "ps_parent")
  /\ UNCHANGED <<run, next, procVars, ticks, localVars>>

(* The pid of the parent is read under the lock of the parent, if the entry *)
(* (which may be free by now) has one.                                      *)
Parent(q) == {p \in Procs : q \in Children(p)}

PsParent(c) ==
  /\ pc[run[c]] = "ps_parent"
  /\ \A p \in Parent(look[run[c]]) : lk[p] = None
  /\ release(c, {wait_lock})
  /\ Goto(c, "ps_time")
  /\ UNCHANGED <<run, next, procVars, ticks, localVars>>

(* The other fields, sys_uptime() among them. *)
PsTime(c) ==
  /\ pc[run[c]] = "ps_time" /\ lk[tickslock] = None
  /\ release(c, {look[run[c]]})
  /\ LookReset(c) /\ Goto(c, "trap")
  /\ UNCHANGED <<run, next, procVars, ticks, call, nested, saved, ticks0, n>>

(* A copyout() fails. *)
PsFails(c) ==
  /\ pc[run[c]] \in {"ps_wait", "ps_time"}
  /\ release(c, {look[run[c]]})
  /\ LookReset(c) /\ Goto(c, "trap")
  /\ UNCHANGED <<run, next, procVars, ticks, call, nested, saved, ticks0, n>>

-----------------------------------------------------------------------------
(* exit() *)

exit(c) ==
  /\ run[c] # initproc
  /\ pc[run[c]] = "exit" \/ InCall(c, "exit")
  /\ acquire(c, wait_lock)
  /\ Goto(c, "wakeup")
  /\ UNCHANGED <<run, next, procVars, ticks, localVars>>

ExitLock(c) ==
  /\ pc[run[c]] = "wakeup" /\ look[run[c]] = NPROC + 1 /\ ~InClock(c)
  /\ acquire(c, run[c])
  /\ LookReset(c) /\ Goto(c, "exit_time")
  /\ UNCHANGED <<run, next, procVars, ticks, call, nested, saved, ticks0, n>>

(* Mutant: wait_lock is not released. *)
ExitTime_KeepLock(c) ==
  /\ pc[run[c]] = "exit_time" /\ sys_uptime(c)
  /\ state' = [state EXCEPT ![run[c]] = "ZOMBIE"]
  /\ Goto(c, "sched")
  /\ UNCHANGED <<run, next, chan, killed, ticks, localVars>>

ExitTime(c) ==
  /\ pc[run[c]] = "exit_time" /\ lk[tickslock] = None
  /\ state' = [state EXCEPT ![run[c]] = "ZOMBIE"]
  /\ release(c, {wait_lock})
  /\ Goto(c, "sched")
  /\ UNCHANGED <<run, next, chan, killed, ticks, localVars>>

-----------------------------------------------------------------------------
(* The steps of the code a CPU runs. *)
CpuStep(c) ==
  \/ SchedScan(c) \/ SchedPick(c) \/ SchedRound(c) \/ SchedSwitch(c) \/ SchedBack(c)
  \/ sched(c) \/ forkret(c) \/ Yielded(c) \/ Woken(c)
  \/ TrapIn(c) \/ TrapEnds(c) \/ TrapOut(c) \/ clockintr(c)
  \/ WakeupSkip(c) \/ WakeupFound(c) \/ WakeupTime(c) \/ ClockEnds(c)
  \/ yield(c) \/ YieldTime(c)
  \/ getpid(c) \/ SleepLoop(c) \/ SleepReturns(c) \/ sleep(c) \/ SleepTime(c)
  \/ Reacquire(c) \/ wait(c) \/ WaitNone(c) \/ freeproc(c)
  \/ WaitCopyoutFails(c) \/ KillTime(c)
  \/ exit(c) \/ ExitLock(c) \/ ExitTime(c)
  \/ \E k \in 0 .. MaxSleep : sys_sleep(c, k)
  \/ PsState(c) \/ PsWaitLock(c) \/ PsParent(c) \/ PsTime(c) \/ PsFails(c)
  \/ \E q \in Procs : WaitFound(c, q) \/ kill(c, q) \/ ps_info(c, q)

(* The timer of a CPU, when the code it runs can be interrupted. *)
Timer(c) == Trap(c, "timer") \/ KernelTimer(c) \/ (c = CPU0 /\ IdleTimer)

Next == \E c \in CPUs : \/ CpuStep(c) \/ Timer(c)
                        \/ \E why \in Calls : Trap(c, why)

Spec == Init /\ [][Next]_vars

(* Instructions are executed, every timer fires again and again, and from   *)
(* one interrupt to the next there is time for a step of the scheduler.     *)
FairSpec ==
  /\ Spec
  /\ \A c \in CPUs : /\ WF_vars(CpuStep(c)) /\ SF_vars(Timer(c))
                      /\ SF_vars(SchedScan(c) \/ SchedPick(c) \/ SchedRound(c))

-----------------------------------------------------------------------------
Pcs == {"loop", "pick", "switched", "sched", "forkret", "yielded", "asleep", "zombie",
        "woken", "user", "trapin", "kernel", "trap", "trapout", "tick", "wakeup",
        "wakeup_time", "yield", "yield_time", "sleep_loop", "sleep", "sleep_time",
        "wait_loop", "freeproc", "kill_time", "exit", "exit_time",
        "ps_lock", "ps_wait", "ps_parent", "ps_time"}

(* The four tests of sched() never panic: whoever gives up the CPU holds    *)
(* p->lock and nothing else, with interrupts off.                           *)
SchedChecks ==
  \A c \in CPUs : pc[run[c]] = "sched" =>
    Held(c) = {run[c]} /\ state[run[c]] # "RUNNING" /\ ~intr[c]

(* No process is on two CPUs, and when its lock is free a process is on a   *)
(* CPU exactly if it is RUNNING: the lock that scheduler() takes and the    *)
(* process releases, and the other way round, protects the hand-over, and   *)
(* wait() frees no process that is still in exit() or swtch().              *)
OneCPU ==
  /\ \A c, d \in CPUs : run[c] = run[d] => c = d
  /\ \A p \in Procs : lk[p] = None =>
       (state[p] = "RUNNING" <=> \E c \in CPUs : run[c] = p)

(* A system call runs with interrupts on, and the handling of a timer       *)
(* interrupt with interrupts off, whatever the other threads did that had   *)
(* the CPU in between: intena belongs to the thread, not to the CPU.        *)
CallsInterruptible ==
  \A c \in CPUs : pc[run[c]] \in {"kernel", "trap", "trapout"} =>
    Held(c) = {} /\ intr[c] = (call[run[c]] # "timer")

(* The locks the code of a CPU is about to acquire. *)
Wants(c) ==
  LET t == run[c] IN
  CASE pc[t] \in {"pick", "trapin", "trapout", "tick", "wakeup_time", "yield_time",
                  "sleep_time", "freeproc", "kill_time", "exit_time",
                  "ps_time"} -> {tickslock}
    [] pc[t] \in {"yield", "sleep_loop", "sleep", "trap"} -> {t}
    [] pc[t] \in {"exit", "ps_wait"} -> {wait_lock}
    [] pc[t] = "ps_lock" -> {look[t]}
    [] pc[t] = "ps_parent" -> Parent(look[t])
    [] pc[t] = "woken" -> {CondLock(t)}
    [] pc[t] = "loop" -> {next[t]} \cap Procs
    [] pc[t] = "wakeup" -> IF look[t] = NPROC + 1 THEN IF InClock(c) THEN {} ELSE {t}
                           ELSE {look[t]} \ {t}
    [] OTHER -> {}

Awaits(c, d) == \E l \in Wants(c) : lk[l] = d

(* acquire() never panics: no CPU acquires a spinlock that it holds.        *)
NoReacquire == \A c \in CPUs : ~Awaits(c, c)

(* acquire() spins until the lock is free: no two CPUs spin for a lock that *)
(* the other one holds.                                                     *)
NoCircularWait ==
  \A c, d \in CPUs : c # d => ~(Awaits(c, d) /\ Awaits(d, c))

(* A RUNNABLE process gets a CPU: scheduler() passes over nobody and every  *)
(* other process is made to yield().                                       *)
RunnableRuns == \A p \in Procs : state[p] = "RUNNABLE" ~> state[p] # "RUNNABLE"
=============================================================================
