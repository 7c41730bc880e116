-------------------------------- MODULE Proc --------------------------------
(***************************************************************************)
(* The process table and the pid namespaces of kernel/proc.c: allocproc,   *)
(* allocnamespace, freeproc, fork, clone, reparent, exit, wait, kill and   *)
(* ps_list, as the steps of concurrent kernel threads.                     *)
(*                                                                         *)
(* Every process is one kernel thread.  A step is a section of the code    *)
(* between two points where another thread can see a difference: mostly    *)
(* one critical section of wait_lock, of a p->lock or of a ns->lock.  Two  *)
(* locks are held across steps and so are variables: wait_lock, and the    *)
(* p->lock of a process under construction.                                *)
(*                                                                         *)
(* Table entries are the numbers 1..NPROC and 1..NUMNS; 0 is the null      *)
(* pointer.  RUNNABLE stands for RUNNABLE and RUNNING: which of the        *)
(* runnable threads runs next is the interleaving of the specification.    *)
(***************************************************************************)
EXTENDS Naturals

CONSTANTS NPROC,     \* entries of the process table
          NUMNS,     \* entries of the namespace table
          MAXDEPTH,  \* levels of namespaces
          MaxPid,    \* bound: the largest global pid that is ever issued
          Calls      \* the system calls the processes of an instance make

ASSUME SizesAssumption ==
  /\ NPROC \in Nat /\ NPROC > 0
  /\ NUMNS \in Nat /\ NUMNS > 0
  /\ MAXDEPTH \in Nat /\ MAXDEPTH > 0
  /\ MaxPid \in Nat

ASSUME CallsAssumption ==
  Calls \subseteq {"fork", "clone", "exit", "wait", "kill", "ps_list"}

Null == 0
Procs == 1 .. NPROC
Namespaces == 1 .. NUMNS
Levels == 0 .. MAXDEPTH - 1
ProcPtr == Procs \cup {Null}
NsPtr == Namespaces \cup {Null}
initproc == 1
initnamespace == 1

VARIABLES
  (* struct proc *)
  state, pid, parent, ns, pids, killed, chan,
  lock,          \* the process that holds p->lock across steps, or Null
  (* struct namespace *)
  used, nsparent, head, depth, next_ns_pid,
  (* globals *)
  nextpid, wait_lock,
  (* the kernel thread of each process: where it is, and its locals *)
  pc, np, newns, lev, curr_ns, look,
  (* history: the namespace that issued pids[s][i] *)
  issuer

tableVars == <<state, pid, parent, ns, pids, killed, chan, issuer>>
nsVars == <<used, nsparent, head, depth, next_ns_pid>>
localVars == <<np, newns, lev, curr_ns, look>>
vars == <<tableVars, lock, nsVars, nextpid, wait_lock, pc, localVars>>

ProcStates == {"UNUSED", "USED", "SLEEPING", "RUNNABLE", "ZOMBIE"}
Pcs == {"none", "user", "clone", "pids", "trapframe", "uvmcopy", "parent",
        "runnable", "reparent", "zombie", "scan", "sleep", "asleep", "dead",
        "ps", "psread"}

-----------------------------------------------------------------------------
(* Initial state: userinit() has run and initproc is about to run. *)

NoPids == [i \in Levels |-> 0]

userinit ==
  /\ state = [s \in Procs |-> IF s = initproc THEN "RUNNABLE" ELSE "UNUSED"]
  /\ pid = [s \in Procs |-> IF s = initproc THEN 1 ELSE 0]
  /\ ns = [s \in Procs |-> IF s = initproc THEN initnamespace ELSE Null]
  /\ pids = [s \in Procs |->
               IF s = initproc THEN [NoPids EXCEPT ![0] = 1] ELSE NoPids]
  /\ issuer = [s \in Procs |->
               IF s = initproc THEN [NoPids EXCEPT ![0] = initnamespace]
                               ELSE NoPids]
  /\ head = [n \in Namespaces |-> IF n = initnamespace THEN initproc ELSE Null]
  /\ used = [n \in Namespaces |-> n = initnamespace]
  /\ next_ns_pid = [n \in Namespaces |-> IF n = initnamespace THEN 2 ELSE 1]
  /\ nextpid = 2

Init ==
  /\ userinit
  /\ parent = [s \in Procs |-> Null]
  /\ killed = [s \in Procs |-> FALSE]
  /\ chan = [s \in Procs |-> Null]
  /\ lock = [s \in Procs |-> Null]
  /\ nsparent = [n \in Namespaces |-> Null]
  /\ depth = [n \in Namespaces |-> 0]
  /\ wait_lock = Null
  /\ pc = [s \in Procs |-> IF s = initproc THEN "user" ELSE "none"]
  /\ np = [s \in Procs |-> Null]
  /\ newns = [s \in Procs |-> Null]
  /\ lev = [s \in Procs |-> 0]
  /\ curr_ns = [s \in Procs |-> Null]
  /\ look = [s \in Procs |-> Null]

-----------------------------------------------------------------------------
(* Helpers *)

(* A process in user space enters a system call; a killed one exits in     *)
(* usertrap() before it gets there.                                        *)
Enter(p, call) ==
  /\ pc[p] = "user"
  /\ call \in Calls
  /\ ~killed[p]

Goto(p, label) == pc' = [pc EXCEPT ![p] = label]

(* Variant of compare_ns that looks at one level only. *)
compare_ns_NoLoop(n1, n2) == n1 # Null /\ n1 = n2

(* compare_ns(n1, n2): n2 is n1 or an ancestor of n1. *)
compare_ns(n1, n2) ==
  LET up[n \in Namespaces] ==
        n = n2 \/ (nsparent[n] # Null /\ up[nsparent[n]])
  IN  n1 # Null /\ up[n1]

(* The head of the nearest namespace, from n upwards, that has one; n      *)
(* itself comes first and the loop is entered only when it has none.       *)
get_ns_head(n) ==
  LET headless(m) == depth[m] > 0 /\ head[m] = Null
      up[m \in Namespaces] ==
        IF headless(m) THEN up[nsparent[m]] ELSE head[m]
  IN  IF headless(n) THEN up[nsparent[n]] ELSE head[n]

(* Variant of wakeup that looks for the caller's channel. *)
wakeup_WrongChan(me, c) ==
  {s \in Procs : s # me /\ state[s] = "SLEEPING" /\ chan[s] = me}

(* wakeup(c) called by process me: the sleepers on c, never me itself. *)
wakeup(me, c) ==
  {s \in Procs : s # me /\ state[s] = "SLEEPING" /\ chan[s] = c}

Children(p) == {s \in Procs : parent[s] = p}

freeproc(s) ==
  /\ state' = [state EXCEPT ![s] = "UNUSED"]
  /\ pid' = [pid EXCEPT ![s] = 0]
  /\ parent' = [parent EXCEPT ![s] = Null]
  /\ killed' = [killed EXCEPT ![s] = FALSE]
  /\ chan' = [chan EXCEPT ![s] = Null]
  /\ ns' = [ns EXCEPT ![s] = Null]
  /\ pids' = [pids EXCEPT ![s] = NoPids]
  /\ issuer' = [issuer EXCEPT ![s] = NoPids]

-----------------------------------------------------------------------------
(* fork() and clone() *)

FreeEntry(s) == state[s] = "UNUSED"

allocpid(s) ==
  /\ pid' = [pid EXCEPT ![s] = nextpid]
  /\ nextpid' = nextpid + 1

(* allocproc(n) up to the loop over the levels: a free entry is taken      *)
(* under its lock, which stays held.  Which free entry the scan meets      *)
(* depends on what other threads free behind it, so any may be taken.      *)
TakeSlot(p, n) ==
  /\ nextpid <= MaxPid
  /\ \E s \in Procs :
       /\ FreeEntry(s)
       /\ lock' = [lock EXCEPT ![s] = p]
       /\ state' = [state EXCEPT ![s] = "USED"]
       /\ allocpid(s)
       /\ ns' = [ns EXCEPT ![s] = n]
       /\ np' = [np EXCEPT ![p] = s]
  /\ curr_ns' = [curr_ns EXCEPT ![p] = n]
  /\ lev' = [lev EXCEPT ![p] = depth[n]]
  /\ UNCHANGED <<parent, pids, killed, chan, issuer>>

Fork(p) ==
  /\ Enter(p, "fork")
  /\ TakeSlot(p, ns[p])
  /\ Goto(p, "pids")
  /\ UNCHANGED <<nsVars, wait_lock, newns, look>>

TooDeep(n) == depth[n] + 1 >= MAXDEPTH

FirstNsPid == 1

(* The first unused namespace n is taken; its caller makes it a child of   *)
(* par at depth d before anybody else can refer to it.                     *)
allocnamespace(n, par, d) ==
  /\ ~used[n]
  /\ \A m \in Namespaces : ~used[m] => n <= m
  /\ used' = [used EXCEPT ![n] = TRUE]
  /\ head' = [head EXCEPT ![n] = Null]
  /\ nsparent' = [nsparent EXCEPT ![n] = par]
  /\ depth' = [depth EXCEPT ![n] = d]
  /\ next_ns_pid' = [next_ns_pid EXCEPT ![n] = FirstNsPid]

(* clone() up to its call of allocproc(): a namespace is taken first, and  *)
(* it is not given back when it would be too deep.                         *)
Clone(p) ==
  /\ Enter(p, "clone")
  /\ \E n \in Namespaces :
       LET deep == TooDeep(ns[p]) IN
       /\ allocnamespace(n, ns[p], IF deep THEN 0 ELSE depth[ns[p]] + 1)
       /\ newns' = [newns EXCEPT ![p] = IF deep THEN Null ELSE n]
       /\ Goto(p, IF deep THEN "user" ELSE "clone")
  /\ UNCHANGED <<tableVars, lock, nextpid, wait_lock, np, lev, curr_ns, look>>

CloneAlloc(p) ==
  /\ pc[p] = "clone"
  /\ TakeSlot(p, newns[p])
  /\ Goto(p, "pids")
  /\ UNCHANGED <<nsVars, wait_lock, newns, look>>

(* allocproc() finds no free entry (or the bound on pids is reached):      *)
(* clone() returns -1 and its namespace stays used.                        *)
CloneNoSlot(p) ==
  /\ pc[p] = "clone"
  /\ nextpid <= MaxPid => \A s \in Procs : state[s] # "UNUSED"
  /\ Goto(p, "user")
  /\ newns' = [newns EXCEPT ![p] = Null]
  /\ UNCHANGED <<tableVars, lock, nsVars, nextpid, wait_lock, np, lev,
                 curr_ns, look>>

(* Variant of Issue that leaves the counter alone above the first level. *)
Issue_OwnLevelOnly(n) ==
  [next_ns_pid EXCEPT ![n] = IF n = initnamespace THEN @ ELSE @ + 1]

Issue(n) == [next_ns_pid EXCEPT ![n] = @ + 1]

(* Variant of NextUp that stays in the same namespace. *)
NextUp_Stuck(n) == n

NextUp(n) == nsparent[n]

(* One turn of the loop that takes a pid at every level, under ns->lock. *)
AllocPid(p) ==
  /\ pc[p] = "pids"
  /\ LET s == np[p]
         n == curr_ns[p]
         i == lev[p]
     IN  /\ pids' = [pids EXCEPT ![s][i] = next_ns_pid[n]]
         /\ issuer' = [issuer EXCEPT ![s][i] = n]
         /\ next_ns_pid' = Issue(n)
         /\ curr_ns' = [curr_ns EXCEPT ![p] = NextUp(n)]
         /\ IF i = 0 THEN Goto(p, "trapframe") /\ UNCHANGED lev
                     ELSE lev' = [lev EXCEPT ![p] = i - 1] /\ UNCHANGED pc
  /\ UNCHANGED <<state, pid, parent, ns, killed, chan, lock, used, nsparent,
                 head, depth, nextpid, wait_lock, np, newns, look>>

(* The rest of allocproc() succeeds; clone() makes np the head. *)
AllocMemory(p) ==
  /\ pc[p] = "trapframe"
  /\ head' = IF newns[p] = Null THEN head
                                ELSE [head EXCEPT ![newns[p]] = np[p]]
  /\ Goto(p, "uvmcopy")
  /\ UNCHANGED <<tableVars, lock, used, nsparent, depth, next_ns_pid, nextpid,
                 wait_lock, localVars>>

(* kalloc() or proc_pagetable() fails in allocproc(), or uvmcopy() fails:  *)
(* np is freed and the call returns -1.  The pids and a new namespace stay *)
(* taken, and so does head in the second case.                             *)
AllocFails(p) ==
  /\ pc[p] \in {"trapframe", "uvmcopy"}
  /\ freeproc(np[p])
  /\ lock' = [lock EXCEPT ![np[p]] = Null]
  /\ np' = [np EXCEPT ![p] = Null]
  /\ newns' = [newns EXCEPT ![p] = Null]
  /\ Goto(p, "user")
  /\ UNCHANGED <<nsVars, nextpid, wait_lock, lev, curr_ns, look>>

(* uvmcopy() succeeds; files and cwd are duplicated, np->lock released. *)
Uvmcopy(p) ==
  /\ pc[p] = "uvmcopy"
  /\ lock' = [lock EXCEPT ![np[p]] = Null]
  /\ Goto(p, "parent")
  /\ UNCHANGED <<tableVars, nsVars, nextpid, wait_lock, localVars>>

SetParent(p) ==
  /\ pc[p] = "parent"
  /\ wait_lock = Null
  /\ parent' = [parent EXCEPT ![np[p]] = p]
  /\ Goto(p, "runnable")
  /\ UNCHANGED <<state, pid, ns, pids, killed, chan, issuer, lock, nsVars,
                 nextpid, wait_lock, localVars>>

SetRunnable(p) ==
  /\ pc[p] = "runnable"
  /\ state' = [state EXCEPT ![np[p]] = "RUNNABLE"]
  /\ pc' = [pc EXCEPT ![p] = "user", ![np[p]] = "user"]
  /\ np' = [np EXCEPT ![p] = Null]
  /\ newns' = [newns EXCEPT ![p] = Null]
  /\ UNCHANGED <<pid, parent, ns, pids, killed, chan, issuer, lock, nsVars,
                 nextpid, wait_lock, lev, curr_ns, look>>

-----------------------------------------------------------------------------
(* exit() *)

(* A process exits of its own will, or in usertrap() when it was killed.   *)
(* initproc would panic: see the bound KillPids.                           *)
Exit(p) ==
  /\ pc[p] = "user"
  /\ p # initproc
  /\ killed[p] \/ "exit" \in Calls
  /\ wait_lock = Null
  /\ wait_lock' = p
  /\ Goto(p, "reparent")
  /\ UNCHANGED <<tableVars, lock, nsVars, nextpid, localVars>>

reparent(p) ==
  /\ pc[p] = "reparent"
  /\ parent' = [s \in Procs |->
                  IF s \in Children(p) THEN get_ns_head(ns[s]) ELSE parent[s]]
  /\ LET woken == UNION {wakeup(p, get_ns_head(ns[s])) : s \in Children(p)}
     IN  state' = [s \in Procs |->
                     IF s \in woken THEN "RUNNABLE" ELSE state[s]]
  /\ Goto(p, "zombie")
  /\ UNCHANGED <<pid, ns, pids, killed, chan, issuer, lock, nsVars, nextpid,
                 wait_lock, localVars>>

(* wakeup(p->parent), ZOMBIE under p->lock, release(&wait_lock), sched(). *)
Zombify(p) ==
  /\ pc[p] = "zombie"
  /\ state' = [s \in Procs |-> IF s = p THEN "ZOMBIE"
                               ELSE IF s \in wakeup(p, parent[p])
                                    THEN "RUNNABLE" ELSE state[s]]
  /\ wait_lock' = Null
  /\ Goto(p, "dead")
  /\ UNCHANGED <<pid, parent, ns, pids, killed, chan, issuer, lock, nsVars,
                 nextpid, localVars>>

-----------------------------------------------------------------------------
(* wait() *)

Wait(p) ==
  /\ Enter(p, "wait")
  /\ wait_lock = Null
  /\ wait_lock' = p
  /\ Goto(p, "scan")
  /\ UNCHANGED <<tableVars, lock, nsVars, nextpid, localVars>>

Zombies(p) == {s \in Children(p) : state[s] = "ZOMBIE"}

(* The scan meets the first exited child and frees it. *)
Reap(p) ==
  /\ pc[p] = "scan"
  /\ \E z \in Zombies(p) :
       /\ \A s \in Zombies(p) : z <= s
       /\ freeproc(z)
       /\ pc' = [pc EXCEPT ![p] = "user", ![z] = "none"]
  /\ wait_lock' = Null
  /\ UNCHANGED <<lock, nsVars, nextpid, localVars>>

(* wait() returns -1: no children, or killed, or copyout() failed. *)
WaitFails(p) ==
  /\ pc[p] = "scan"
  /\ \/ Zombies(p) # {}
     \/ Children(p) = {}
     \/ killed[p]
  /\ wait_lock' = Null
  /\ Goto(p, "user")
  /\ UNCHANGED <<tableVars, lock, nsVars, nextpid, localVars>>

(* No child has exited and p goes on to sleep(), which still has to take   *)
(* p->lock: a kill() may come in between.                                  *)
WaitForChild(p) ==
  /\ pc[p] = "scan"
  /\ Zombies(p) = {}
  /\ Children(p) # {}
  /\ ~killed[p]
  /\ Goto(p, "sleep")
  /\ UNCHANGED <<tableVars, lock, nsVars, nextpid, wait_lock, localVars>>

(* sleep(p, &wait_lock): wait_lock is released under p->lock. *)
Sleep(p) ==
  /\ pc[p] = "sleep"
  /\ state' = [state EXCEPT ![p] = "SLEEPING"]
  /\ chan' = [chan EXCEPT ![p] = p]
  /\ wait_lock' = Null
  /\ Goto(p, "asleep")
  /\ UNCHANGED <<pid, parent, ns, pids, killed, issuer, lock, nsVars, nextpid,
                 localVars>>

(* sleep() returns with wait_lock held again and wait() scans anew. *)
Resume(p) ==
  /\ pc[p] = "asleep"
  /\ state[p] = "RUNNABLE"
  /\ wait_lock = Null
  /\ wait_lock' = p
  /\ chan' = [chan EXCEPT ![p] = Null]
  /\ Goto(p, "scan")
  /\ UNCHANGED <<state, pid, parent, ns, pids, killed, issuer, lock, nsVars,
                 nextpid, localVars>>

-----------------------------------------------------------------------------
(* kill() *)

(* Bound: nobody kills initproc, whose exit is a panic. *)
KillPids == (0 .. MaxPid) \ {1}

(* kill(k) marks the first entry with that pid; every free entry has pid 0 *)
(* and an entry whose lock is held makes the scan wait.                    *)
Kill(p, k) ==
  /\ Enter(p, "kill")
  /\ \E s \in Procs :
       /\ pid[s] = k
       /\ lock[s] = Null
       /\ \A t \in Procs : pid[t] = k => s <= t
       /\ killed' = [killed EXCEPT ![s] = TRUE]
       /\ state' = [state EXCEPT ![s] = IF @ = "SLEEPING" THEN "RUNNABLE"
                                                          ELSE @]
  /\ UNCHANGED <<pid, parent, ns, pids, chan, issuer, lock, nsVars, nextpid,
                 wait_lock, pc, localVars>>

-----------------------------------------------------------------------------
(* ps_list(): the second loop; each entry is tested without its lock and   *)
(* then read under it.                                                     *)

Listed(p, s) == state[s] # "UNUSED" /\ compare_ns(ns[s], ns[p])

NextEntry(p) ==
  /\ look' = [look EXCEPT ![p] = IF @ = NPROC THEN Null ELSE @ + 1]
  /\ Goto(p, IF look[p] = NPROC THEN "user" ELSE "ps")

PsList(p) ==
  /\ Enter(p, "ps_list")
  /\ look' = [look EXCEPT ![p] = 1]
  /\ Goto(p, "ps")
  /\ UNCHANGED <<tableVars, lock, nsVars, nextpid, wait_lock, np, newns, lev,
                 curr_ns>>

PsCheck(p) ==
  /\ pc[p] = "ps"
  /\ IF Listed(p, look[p]) THEN Goto(p, "psread") /\ UNCHANGED look
                           ELSE NextEntry(p)
  /\ UNCHANGED <<tableVars, lock, nsVars, nextpid, wait_lock, np, newns, lev,
                 curr_ns>>

PsRead(p) ==
  /\ pc[p] = "psread"
  /\ lock[look[p]] = Null
  /\ NextEntry(p)
  /\ UNCHANGED <<tableVars, lock, nsVars, nextpid, wait_lock, np, newns, lev,
                 curr_ns>>

(* index reaches limit, or copyout() fails. *)
PsStops(p) ==
  /\ pc[p] \in {"ps", "psread"}
  /\ look' = [look EXCEPT ![p] = Null]
  /\ Goto(p, "user")
  /\ UNCHANGED <<tableVars, lock, nsVars, nextpid, wait_lock, np, newns, lev,
                 curr_ns>>

-----------------------------------------------------------------------------
(* What a process does inside the kernel, once it has started a call. *)
KernelStep(p) ==
  \/ CloneAlloc(p)
  \/ CloneNoSlot(p)
  \/ AllocPid(p)
  \/ AllocMemory(p)
  \/ AllocFails(p)
  \/ Uvmcopy(p)
  \/ SetParent(p)
  \/ SetRunnable(p)
  \/ reparent(p)
  \/ Zombify(p)
  \/ Reap(p)
  \/ WaitFails(p)
  \/ WaitForChild(p)
  \/ Sleep(p)
  \/ Resume(p)
  \/ PsCheck(p)
  \/ PsRead(p)
  \/ PsStops(p)

Next ==
  \E p \in Procs :
    \/ KernelStep(p)
    \/ Fork(p)
    \/ Clone(p)
    \/ Exit(p)
    \/ Wait(p)
    \/ \E k \in KillPids : Kill(p, k)
    \/ PsList(p)

Spec == Init /\ [][Next]_vars

(* The scheduler runs every runnable thread again and again, and a thread  *)
(* in the kernel goes on to its next step.                                 *)
FairSpec == Spec /\ \A p \in Procs : WF_vars(KernelStep(p))

-----------------------------------------------------------------------------
TypeOK ==
  /\ state \in [Procs -> ProcStates]
  /\ pid \in [Procs -> Nat]
  /\ parent \in [Procs -> ProcPtr]
  /\ ns \in [Procs -> NsPtr]
  /\ pids \in [Procs -> [Levels -> Nat]]
  /\ issuer \in [Procs -> [Levels -> NsPtr]]
  /\ killed \in [Procs -> BOOLEAN]
  /\ chan \in [Procs -> ProcPtr]
  /\ lock \in [Procs -> ProcPtr]
  /\ used \in [Namespaces -> BOOLEAN]
  /\ nsparent \in [Namespaces -> NsPtr]
  /\ head \in [Namespaces -> ProcPtr]
  /\ depth \in [Namespaces -> Levels]
  /\ next_ns_pid \in [Namespaces -> Nat]
  /\ nextpid \in Nat
  /\ wait_lock \in ProcPtr
  /\ pc \in [Procs -> Pcs]
  /\ np \in [Procs -> ProcPtr]
  /\ newns \in [Procs -> NsPtr]
  /\ lev \in [Procs -> Levels]
  /\ curr_ns \in [Procs -> NsPtr]
  /\ look \in [Procs -> ProcPtr]

(* The entry s holds a process whose construction is finished. *)
Complete(s) == state[s] \in {"SLEEPING", "RUNNABLE", "ZOMBIE"}

(* The pids a process carries were issued by its own namespace and then by *)
(* the parent of each, one per level down to the root: the loop of         *)
(* allocproc() leaves no gap however forks in related namespaces           *)
(* interleave.                                                             *)
PidChain ==
  \A s \in Procs : Complete(s) =>
    /\ ns[s] # Null
    /\ issuer[s][depth[ns[s]]] = ns[s]
    /\ \A i \in 0 .. depth[ns[s]] :
         /\ issuer[s][i] # Null
         /\ depth[issuer[s][i]] = i
         /\ i > 0 => issuer[s][i - 1] = nsparent[issuer[s][i]]

(* No two entries of the process table ever carry the same pid issued by   *)
(* the same namespace, and no issued pid is 0: allocproc() takes           *)
(* next_ns_pid under ns->lock, also for processes still being built.       *)
PidsUnique ==
  \A s, t \in Procs : \A i \in Levels :
    /\ issuer[s][i] # Null => pids[s][i] > 0
    /\ s # t /\ issuer[s][i] = issuer[t][i] /\ issuer[s][i] # Null
         => pids[s][i] # pids[t][i]

(* What ps_list() shows in namespace n, by walking up from each process    *)
(* (compare_ns), are exactly the processes that were issued a pid by n, at *)
(* the level of n: so every listed pid is a pid of n.                      *)
ListedHavePid ==
  \A s \in Procs : \A n \in Namespaces : Complete(s) =>
    (compare_ns(ns[s], n) <=> issuer[s][depth[n]] = n)

(* The entry a fork() or clone() is building belongs to it alone: it stays *)
(* USED, nobody runs in it, and no other thread builds in the same entry.  *)
SlotOwned ==
  \A p \in Procs : np[p] # Null =>
    /\ state[np[p]] = "USED"
    /\ pc[np[p]] = "none"
    /\ \A q \in Procs : np[q] = np[p] => q = p

(* The first process of a new namespace has pid 1 in it when clone() is    *)
(* about to make it runnable, whatever was created meanwhile.              *)
CloneChildIsPid1 ==
  \A p \in Procs : pc[p] \in {"parent", "runnable"} /\ newns[p] # Null =>
    /\ ns[np[p]] = newns[p]
    /\ head[newns[p]] = np[p]
    /\ pids[np[p]][depth[newns[p]]] = 1

(* No lost wakeup: while nobody is inside wait_lock, a process asleep in   *)
(* wait() has no exited child and has children to wait for.                *)
NoLostWakeup ==
  \A p \in Procs : wait_lock = Null /\ state[p] = "SLEEPING" =>
    /\ Zombies(p) = {}
    /\ Children(p) # {}

-----------------------------------------------------------------------------
(* What the documentation says and the code does not do: each of these    *)
(* definitions is violated.                                               *)

(* README.md, task 6: the children of an exited head are adopted by the    *)
(* init of the parent namespace.  Here: outside of wait_lock, no live      *)
(* process has a parent that has exited.                                   *)
NoDeadParent ==
  \A s \in Procs : wait_lock = Null /\ Complete(s) /\ parent[s] # Null =>
    state[parent[s]] \notin {"UNUSED", "ZOMBIE"}

(* README.md, task 2: the structure of a namespace whose processes are all *)
(* gone is freed sooner or later.                                          *)
Empty(n) ==
  /\ used[n]
  /\ next_ns_pid[n] > FirstNsPid
  /\ \A s \in Procs : newns[s] # n /\ ~compare_ns(ns[s], n)

NamespaceFreed == \A n \in Namespaces : Empty(n) ~> ~used[n]

(* README.md, task 8: ps_list() shows the processes of the caller's        *)
(* namespace and below it and no others; the entry whose pid is copied out *)
(* is one of them.                                                         *)
PsListSeesOnlyOwn ==
  [][\A p \in Procs : PsRead(p) => Listed(p, look[p])]_vars
=============================================================================
