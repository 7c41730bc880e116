----------------------------- MODULE ProcProofs -----------------------------
(***************************************************************************)
(* The invariants of Proc for every size of the tables: the inductive      *)
(* invariant, the steps that keep it (exit(), wait(), kill() and           *)
(* ps_list(); fork() and clone() on the process table; clone() and         *)
(* allocproc() on the namespaces), and the theorems.  What ps_list() shows *)
(* is the last of them: it needs an invariant of its own on the tree of    *)
(* namespaces, and an argument on the loop of compare_ns().                *)
(***************************************************************************)
EXTENDS Proc, WellFoundedInduction, TLAPS

BuildPcs == {"pids", "trapframe", "uvmcopy", "parent", "runnable"}

(* The state of an entry and the place of its thread agree. *)
PcState ==
  \A s \in Procs :
    /\ pc[s] = "none" <=> state[s] \in {"UNUSED", "USED"}
    /\ pc[s] = "dead" <=> state[s] = "ZOMBIE"
    /\ state[s] = "SLEEPING" => pc[s] = "asleep" /\ chan[s] = s

(* A thread inside fork() or clone() owns the entry it builds. *)
Builder(p) ==
  /\ np[p] # Null <=> pc[p] \in BuildPcs
  /\ np[p] # Null =>
       /\ state[np[p]] = "USED"
       /\ \A q \in Procs : np[q] = np[p] => q = p
       /\ pc[p] # "runnable" => parent[np[p]] = Null
       /\ ns[np[p]] = IF newns[p] = Null THEN ns[p] ELSE newns[p]
  /\ newns[p] # Null => pc[p] \in BuildPcs \cup {"clone"}
  /\ pc[p] = "clone" => newns[p] # Null

Building == \A p \in Procs : Builder(p)

(* Who holds wait_lock. *)
WaitLock ==
  \A p \in Procs :
    pc[p] \in {"reparent", "zombie", "scan", "sleep"} <=> wait_lock = p

(* The used namespaces form a tree, and every one a process or a thread    *)
(* refers to is used.                                                      *)
NsTree ==
  /\ \A n \in Namespaces :
       /\ next_ns_pid[n] > 0
       /\ used[n] /\ depth[n] > 0 =>
            /\ nsparent[n] # Null
            /\ used[nsparent[n]]
            /\ depth[nsparent[n]] = depth[n] - 1
       /\ nsparent[n] # Null => used[nsparent[n]]
  /\ \A s \in Procs :
       /\ state[s] # "UNUSED" => ns[s] # Null
       /\ state[s] = "UNUSED" => ns[s] = Null /\ parent[s] = Null
       /\ ns[s] # Null => used[ns[s]]
       /\ newns[s] # Null => used[newns[s]]

(* Every issued pid is below the counter of the namespace that issued it,  *)
(* and differs from the others it issued.                                  *)
Issued ==
  /\ \A s \in Procs, i \in Levels : issuer[s][i] # Null =>
       /\ used[issuer[s][i]]
       /\ pids[s][i] > 0
       /\ pids[s][i] < next_ns_pid[issuer[s][i]]
  /\ PidsUnique

(* The pids of entry s are in place from level k to the level of ns[s]. *)
Chain(s, k) ==
  /\ k <= depth[ns[s]] => issuer[s][depth[ns[s]]] = ns[s]
  /\ \A i \in Levels : k <= i /\ i <= depth[ns[s]] =>
       /\ issuer[s][i] # Null
       /\ depth[issuer[s][i]] = i
       /\ k < i => issuer[s][i - 1] = nsparent[issuer[s][i]]

(* A thread that builds entry s is at level k of the loop in allocproc():  *)
(* the levels above k are done and c is the namespace of level k.          *)
Climbing(s, k, c) ==
  /\ Chain(s, k + 1)
  /\ k <= depth[ns[s]]
  /\ c # Null
  /\ used[c]
  /\ depth[c] = k
  /\ c = IF k = depth[ns[s]] THEN ns[s] ELSE nsparent[issuer[s][k + 1]]

Chains ==
  /\ \A s \in Procs : Complete(s) => Chain(s, 0)
  /\ \A p, s \in Procs : np[p] = s /\ pc[p] # "pids" => Chain(s, 0)
  /\ \A p, s \in Procs, k \in Levels, c \in NsPtr :
       pc[p] = "pids" /\ np[p] = s /\ lev[p] = k /\ curr_ns[p] = c
         => Climbing(s, k, c)

(* The namespace a clone() has taken is still its own: nobody else is in   *)
(* it or below it, and its first pid goes to the new process.              *)
FreshNs(p) ==
  /\ \A q \in Procs : newns[q] = newns[p] => q = p
  /\ \A s \in Procs : ns[s] = newns[p] => s = np[p]
  /\ \A n \in Namespaces : nsparent[n] # newns[p]
  /\ IF pc[p] = "clone" \/ (pc[p] = "pids" /\ lev[p] = depth[newns[p]])
     THEN next_ns_pid[newns[p]] = 1
     ELSE pids[np[p]][depth[newns[p]]] = 1
  /\ pc[p] \in {"uvmcopy", "parent", "runnable"} => head[newns[p]] = np[p]

Fresh == \A p \in Procs : newns[p] # Null => FreshNs(p)

(* The namespace of a process that can be a child or have one has a head:  *)
(* get_ns_head() never has to leave it.                                    *)
HeadSet ==
  /\ \A s \in Procs : Complete(s) \/ parent[s] # Null =>
       /\ ns[s] # Null
       /\ head[ns[s]] # Null
  /\ \A p \in Procs : pc[p] \in {"uvmcopy", "parent", "runnable"} =>
       head[ns[np[p]]] # Null

(* Whoever sleeps in wait(), or is about to, waits for something. *)
Sleepers ==
  \A p \in Procs : state[p] = "SLEEPING" \/ pc[p] = "sleep" =>
    /\ Zombies(p) = {}
    /\ Children(p) # {}

(* The inductive invariant. *)
IInv ==
  /\ TypeOK
  /\ PcState
  /\ Building
  /\ WaitLock
  /\ NsTree
  /\ Issued
  /\ Chains
  /\ Fresh
  /\ HeadSet
  /\ Sleepers

-----------------------------------------------------------------------------
(* Levels are natural numbers. *)
LEMMA LevelIsNat == \A i \in Levels : i \in Nat /\ 0 <= i
BY DEF Levels

(* The level of a loop in allocproc() that has not reached the root. *)
LEMMA AboveRoot ==
  \A i, d \in Nat : i # 0 /\ i <= d =>
    /\ i > 0 /\ i - 1 <= d /\ i - 1 # d /\ (i - 1) + 1 = i
OBVIOUS

(* A pid below the counter of its namespace stays below it. *)
LEMMA BelowCounter ==
  ASSUME NEW a \in Nat, NEW c \in Nat, a < c
  PROVE  a # c /\ a < c + 1
  OBVIOUS

(* A counter grows when a pid is taken from it. *)
LEMMA NextCounter ==
  ASSUME NEW c \in Nat
  PROVE  c < c + 1
  OBVIOUS

(* The null pointer is no entry of a table. *)
LEMMA NullNotEntry == Null \notin Procs /\ Null \notin Namespaces
  BY DEF Null, Procs, Namespaces

(* Chain and Climbing only depend on the entry and on the shape of the     *)
(* tree.                                                                   *)
LEMMA ChainFrame ==
  ASSUME NEW s, NEW k, ns'[s] = ns[s], issuer'[s] = issuer[s],
         UNCHANGED <<depth, nsparent>>, Chain(s, k)
  PROVE  Chain(s, k)'
  BY ZenonT(40) DEF Chain

(* The same for a thread inside the loop. *)
LEMMA ClimbingFrame ==
  ASSUME NEW s, NEW k, NEW c, ns'[s] = ns[s], issuer'[s] = issuer[s],
         UNCHANGED <<used, depth, nsparent>>, Climbing(s, k, c)
  PROVE  Climbing(s, k, c)'
<1>1. Chain(s, k + 1)'
  BY ZenonT(40), ChainFrame DEF Climbing
<1> QED BY ZenonT(40), <1>1 DEF Climbing

(* One more turn of the loop in allocproc(): when the pid of level i comes  *)
(* from the namespace n the loop has climbed to, level i is done too.      *)
LEMMA ChainExtend ==
  ASSUME NEW s, NEW n \in Namespaces, NEW i \in Levels, Climbing(s, i, n),
         depth[ns[s]] \in Levels, n # Null,
         UNCHANGED <<ns, depth, nsparent>>,
         \A j \in Levels : j # i => issuer'[s][j] = issuer[s][j],
         issuer'[s][i] = n
  PROVE  Chain(s, i)'
<1>1. i \in Nat /\ depth[ns[s]] \in Nat /\ i <= depth[ns[s]]
  BY SizesAssumption DEF Levels, Climbing
<1>2. Chain(s, i + 1) /\ depth[n] = i
  BY ZenonT(40) DEF Climbing
<1>3. ASSUME NEW j \in Levels, i <= j, j <= depth[ns[s]]
      PROVE  /\ issuer'[s][j] # Null
             /\ depth[issuer'[s][j]] = j
             /\ i < j => issuer'[s][j - 1] = nsparent[issuer'[s][j]]
  <2>1. CASE j = i
    BY <1>1, <1>2, <2>1
  <2>2. CASE j # i
    <3>1. i + 1 <= j /\ j \in Nat /\ j - 1 \in Levels
      BY <1>1, <1>3, <2>2, SizesAssumption DEF Levels
    <3>2. /\ issuer'[s][j] = issuer[s][j] /\ issuer[s][j] # Null
          /\ depth[issuer[s][j]] = j
          /\ i + 1 < j => issuer[s][j - 1] = nsparent[issuer[s][j]]
      BY ZenonT(40), <1>2, <1>3, <2>2, <3>1 DEF Chain
    <3>3. CASE j = i + 1
      <4>1. i # depth[ns[s]] /\ j - 1 = i
        BY <1>1, <1>3, <3>1, <3>3
      <4>2. n = nsparent[issuer[s][i + 1]]
        BY ZenonT(40), <4>1 DEF Climbing
      <4> QED BY ZenonT(40), <3>2, <3>3, <4>1, <4>2
    <3>4. CASE j # i + 1
      <4>1. i + 1 < j /\ j - 1 # i
        BY <1>1, <3>1, <3>4
      <4> QED BY ZenonT(40), <3>1, <3>2, <4>1
    <3> QED BY ZenonT(40), <3>3, <3>4
  <2> QED BY ZenonT(40), <2>1, <2>2
<1>4. issuer'[s][depth[ns[s]]] = ns[s]
  <2>1. CASE i = depth[ns[s]]
    BY ZenonT(40), <2>1 DEF Climbing
  <2>2. CASE i # depth[ns[s]]
    <3>1. i + 1 <= depth[ns[s]]
      BY <1>1, <2>2
    <3> QED BY ZenonT(40), <1>2, <2>2, <3>1 DEF Chain
  <2> QED BY ZenonT(40), <2>1, <2>2
<1> QED BY ZenonT(40), <1>3, <1>4 DEF Chain

(* The steps that leave the namespaces, the pids and the threads inside    *)
(* fork() and clone() alone, and neither create nor free a process.        *)
Calm ==
  /\ UNCHANGED <<ns, pids, issuer, used, nsparent, head, depth, next_ns_pid,
                 np, newns, lev, curr_ns>>
  /\ \A q \in Procs :
       /\ pc[q] \in BuildPcs \cup {"clone"} => pc'[q] = pc[q]
       /\ pc'[q] \in BuildPcs \cup {"clone"} => pc'[q] = pc[q]
       /\ state'[q] = "UNUSED" <=> state[q] = "UNUSED"
       /\ state'[q] = "USED" <=> state[q] = "USED"
       /\ parent'[q] # Null => parent[q] # Null

(* A step that touches neither the tree nor an entry under construction    *)
(* keeps the parts of the invariant about them.                            *)
LEMMA CalmStep ==
  ASSUME IInv, Calm, TypeOK', PcState', WaitLock', Sleepers'
  PROVE  IInv'
<1> USE NullNotEntry
<1>0. /\ TypeOK /\ Building /\ NsTree
      /\ Issued /\ Chains /\ Fresh /\ HeadSet
  BY ZenonT(40) DEF IInv
<1>1. /\ UNCHANGED <<ns, pids, issuer, used, nsparent, head, depth,
                     next_ns_pid, np, newns, lev, curr_ns>>
      /\ \A q \in Procs :
           /\ pc[q] \in BuildPcs \cup {"clone"} => pc'[q] = pc[q]
           /\ pc'[q] \in BuildPcs \cup {"clone"} => pc'[q] = pc[q]
           /\ state'[q] = "USED" <=> state[q] = "USED"
           /\ parent'[q] # Null => parent[q] # Null
  BY ZenonT(40) DEF Calm
<1>2. \A q \in Procs : Complete(q)' => Complete(q)
  BY ZenonT(40), <1>0 DEF Calm, Complete, TypeOK, ProcStates
<1>3. Building'
  <2>1. \A p \in Procs : np[p] # Null => np[p] \in Procs
    BY <1>0 DEF TypeOK, ProcPtr
  <2> QED BY <1>0, <1>1, <2>1 DEF Building, Builder, BuildPcs
<1>4. NsTree'
  BY ZenonT(40), <1>0 DEF NsTree, Calm
<1>5. Issued'
  BY <1>0, <1>1 DEF Issued, PidsUnique
<1>6. \A q, t \in Procs : np[q] = t => pc'[q] = pc[q]
  BY ZenonT(40), <1>0, <1>1 DEF Building, Builder
<1>7. \A q \in Procs : pc'[q] = "pids" => pc[q] = "pids"
  BY ZenonT(40), <1>1 DEF BuildPcs
<1>8. Chains'
  <2>1. ASSUME NEW t \in Procs, Complete(t)' PROVE Chain(t, 0)'
    BY ZenonT(40), <1>0, <1>1, <1>2, <2>1, ChainFrame DEF Chains
  <2>2. ASSUME NEW q \in Procs, NEW t \in Procs, np'[q] = t, pc'[q] # "pids"
        PROVE  Chain(t, 0)'
    BY ZenonT(40), <1>0, <1>1, <1>6, <2>2, ChainFrame DEF Chains
  <2>3. ASSUME NEW q \in Procs, NEW t \in Procs, NEW k \in Levels,
               NEW c \in NsPtr, pc'[q] = "pids", np'[q] = t, lev'[q] = k,
               curr_ns'[q] = c
        PROVE  Climbing(t, k, c)'
    BY ZenonT(40), <1>0, <1>1, <1>7, <2>3, ClimbingFrame DEF Chains
  <2> QED BY ZenonT(40), <2>1, <2>2, <2>3 DEF Chains
<1>9. Fresh'
  <2>1. ASSUME NEW q \in Procs, newns[q] # Null PROVE FreshNs(q)'
    <3>1. pc'[q] = pc[q]
      BY ZenonT(40), <1>0, <1>1, <2>1 DEF Building, Builder
    <3> QED BY <1>0, <1>1, <2>1, <3>1 DEF Fresh, FreshNs
  <2> QED BY ZenonT(40), <1>1, <2>1 DEF Fresh
<1>10. HeadSet'
  <2>1. ASSUME NEW t \in Procs, Complete(t)' \/ parent'[t] # Null
        PROVE  ns[t] # Null /\ head[ns[t]] # Null
    BY ZenonT(40), <1>0, <1>1, <1>2, <2>1 DEF HeadSet
  <2>2. ASSUME NEW q \in Procs, pc'[q] \in {"uvmcopy", "parent", "runnable"}
        PROVE  head[ns[np[q]]] # Null
    BY ZenonT(40), <1>0, <1>1, <2>2 DEF HeadSet, BuildPcs
  <2> QED BY ZenonT(40), <1>1, <2>1, <2>2 DEF HeadSet
<1> QED
  BY ZenonT(40), <1>3, <1>4, <1>5, <1>8, <1>9, <1>10 DEF IInv

(* A step that changes nothing keeps the invariant. *)
LEMMA StutterStep ==
  ASSUME IInv, UNCHANGED vars
  PROVE  IInv'
<1>0. TypeOK /\ PcState /\ WaitLock /\ Sleepers
  BY ZenonT(40) DEF IInv
<1>1. UNCHANGED <<state, pid, parent, ns, pids, killed, chan, lock, used, nsparent,
                  head, depth, next_ns_pid, nextpid, wait_lock, pc, np, newns,
                  lev, curr_ns, look, issuer>>
  BY ZenonT(40) DEF vars, tableVars, nsVars, localVars
<1>2. Calm
  BY ZenonT(40), <1>1 DEF Calm
<1>3. TypeOK'
  BY ZenonT(40), <1>0, <1>1 DEF TypeOK
<1>4. PcState' /\ WaitLock'
  BY ZenonT(40), <1>0, <1>1 DEF PcState, WaitLock
<1>5. Sleepers'
  BY ZenonT(40), <1>0, <1>1 DEF Sleepers, Zombies, Children
<1> QED BY ZenonT(40), <1>2, <1>3, <1>4, <1>5, CalmStep

(* exit() and wait() taking wait_lock, wait() giving up or deciding to     *)
(* sleep, and ps_list(): steps that only move one thread.                  *)
QuietPcs == {"user", "reparent", "scan", "sleep", "ps", "psread"}

(* A step that only moves a thread between calm places of the code. *)
LEMMA QuietStep ==
  ASSUME IInv, NEW p \in Procs, NEW l \in QuietPcs, pc[p] \in QuietPcs,
         pc' = [pc EXCEPT ![p] = l], wait_lock' \in ProcPtr,
         look' \in [Procs -> ProcPtr],
         UNCHANGED <<tableVars, lock, nsVars, nextpid, np, newns, lev, curr_ns>>,
         WaitLock', l = "sleep" => Zombies(p) = {} /\ Children(p) # {}
  PROVE  IInv'
<1>0. TypeOK /\ PcState /\ Sleepers
  BY ZenonT(40) DEF IInv
<1>1. UNCHANGED <<state, parent, chan, ns, pids, issuer, used, nsparent, head,
                  depth, next_ns_pid, np, newns, lev, curr_ns>>
  BY ZenonT(40) DEF tableVars, nsVars
<1>2. TypeOK'
  BY ZenonT(40), <1>0 DEF TypeOK, QuietPcs, Pcs, tableVars, nsVars
<1>3. PcState'
  BY ZenonT(40), <1>0, <1>1 DEF PcState, TypeOK, QuietPcs
<1>4. Sleepers'
  BY ZenonT(40), <1>0, <1>1 DEF Sleepers, Zombies, Children, TypeOK
<1>5. Calm
  BY ZenonT(40), <1>0, <1>1 DEF Calm, TypeOK, BuildPcs, QuietPcs
<1> QED
  BY ZenonT(40), <1>2, <1>3, <1>4, <1>5, CalmStep

(* exit() and wait() take and release wait_lock. *)
LEMMA WaitLockSteps ==
  ASSUME IInv, NEW p \in Procs,
         Exit(p) \/ Wait(p) \/ WaitFails(p) \/ WaitForChild(p)
  PROVE  IInv'
<1> USE NullNotEntry DEF ProcPtr
<1>0. TypeOK /\ WaitLock
  BY ZenonT(40) DEF IInv
<1>1. look' \in [Procs -> ProcPtr] /\ wait_lock' \in ProcPtr
  BY ZenonT(40), <1>0 DEF TypeOK, Exit, Wait, WaitFails, WaitForChild, localVars
<1>2. CASE Exit(p)
  <2>1. WaitLock'
    BY ZenonT(40), <1>0, <1>2 DEF WaitLock, TypeOK, Exit, Goto
  <2> QED BY ZenonT(40), <1>1, <1>2, <2>1, QuietStep
          DEF Exit, Goto, QuietPcs, localVars
<1>3. CASE Wait(p)
  <2>1. WaitLock'
    BY ZenonT(40), <1>0, <1>3 DEF WaitLock, TypeOK, Wait, Enter, Goto
  <2> QED
    BY ZenonT(40), <1>1, <1>3, <2>1, QuietStep
    DEF Wait, Enter, Goto, QuietPcs, localVars
<1>4. CASE WaitFails(p)
  <2>1. WaitLock'
    BY ZenonT(40), <1>0, <1>4 DEF WaitLock, TypeOK, WaitFails, Goto
  <2> QED
    BY ZenonT(40), <1>1, <1>4, <2>1, QuietStep
    DEF WaitFails, Goto, QuietPcs, localVars
<1>5. CASE WaitForChild(p)
  <2>1. WaitLock'
    BY ZenonT(40), <1>0, <1>5 DEF WaitLock, TypeOK, WaitForChild, Goto
  <2> QED
    BY ZenonT(40), <1>1, <1>5, <2>1, QuietStep
    DEF WaitForChild, Goto, QuietPcs, localVars
<1> QED
  BY ZenonT(40), <1>2, <1>3, <1>4, <1>5

(* ps_list() changes nothing but its own index. *)
LEMMA PsSteps ==
  ASSUME IInv, NEW p \in Procs,
         PsList(p) \/ PsCheck(p) \/ PsRead(p) \/ PsStops(p)
  PROVE  IInv'
<1>0. TypeOK /\ WaitLock
  BY ZenonT(40) DEF IInv
<1>1. look' \in [Procs -> ProcPtr]
  <2>1. \/ look' = look
        \/ \E e \in {1, Null, IF look[p] = NPROC THEN Null ELSE look[p] + 1} :
             look' = [look EXCEPT ![p] = e]
    BY ZenonT(40) DEF PsList, PsCheck, PsRead, PsStops, NextEntry
  <2>2. look \in [Procs -> ProcPtr] /\ look[p] \in ProcPtr
    BY ZenonT(40), <1>0 DEF TypeOK
  <2>3. {1, Null, IF look[p] = NPROC THEN Null ELSE look[p] + 1}
          \subseteq ProcPtr
    BY <2>2, SizesAssumption DEF ProcPtr, Procs, Null
  <2> QED BY ZenonT(40), <2>1, <2>2, <2>3
<1>2. /\ pc[p] \in {"user", "ps", "psread"}
      /\ \E l \in {"user", "ps", "psread"} : pc' = [pc EXCEPT ![p] = l]
      /\ UNCHANGED <<tableVars, lock, nsVars, nextpid, wait_lock, np, newns,
                     lev, curr_ns>>
  BY ZenonT(40), <1>0
  DEF TypeOK, PsList, PsCheck, PsRead, PsStops, Enter, NextEntry, Goto
<1>3. WaitLock' /\ wait_lock' \in ProcPtr
  BY ZenonT(40), <1>0, <1>2 DEF WaitLock, TypeOK
<1> QED
  BY ZenonT(40), <1>1, <1>2, <1>3, QuietStep DEF QuietPcs

(* reparent() passes the children on and wakes their new parents. *)
LEMMA ReparentStep ==
  ASSUME IInv, NEW p \in Procs, reparent(p)
  PROVE  IInv'
<1> USE NullNotEntry DEF ProcPtr, NsPtr
<1>0. /\ TypeOK /\ PcState /\ Building /\ WaitLock /\ NsTree /\ HeadSet
      /\ Sleepers
  BY ZenonT(40) DEF IInv
<1>1. \A s \in Children(p) : get_ns_head(ns[s]) = head[ns[s]]
                             /\ head[ns[s]] \in Procs
  BY ZenonT(40), <1>0 DEF TypeOK, Children, get_ns_head, HeadSet
<1>2. /\ pc[p] = "reparent"
      /\ pc' = [pc EXCEPT ![p] = "zombie"]
      /\ UNCHANGED <<pid, ns, pids, killed, chan, issuer, lock, nsVars, nextpid,
                     wait_lock, localVars>>
  BY ZenonT(40) DEF reparent, Goto
<1>3. parent' = [s \in Procs |-> IF s \in Children(p) THEN head[ns[s]]
                                                     ELSE parent[s]]
  BY ZenonT(40), <1>1 DEF reparent
<1>4. /\ state' \in [Procs -> ProcStates]
      /\ \A s \in Procs :
           \/ state'[s] = state[s]
           \/ state[s] = "SLEEPING" /\ state'[s] = "RUNNABLE"
      /\ \A s \in Children(p) :
           head[ns[s]] # p => state'[head[ns[s]]] # "SLEEPING"
  <2>1. DEFINE woken == UNION {wakeup(p, head[ns[s]]) : s \in Children(p)}
  <2>2. state' = [s \in Procs |-> IF s \in woken THEN "RUNNABLE" ELSE state[s]]
    BY ZenonT(40), <1>1 DEF reparent
  <2>3. \A s \in woken : state[s] = "SLEEPING"
    BY ZenonT(40) DEF wakeup
  <2>4. ASSUME NEW s \in Children(p), head[ns[s]] # p,
               state[head[ns[s]]] = "SLEEPING"
        PROVE  head[ns[s]] \in woken
    <3>1. chan[head[ns[s]]] = head[ns[s]]
      BY ZenonT(40), <1>0, <1>1, <2>4 DEF PcState
    <3> QED BY <1>1, <2>4, <3>1 DEF wakeup
  <2> HIDE DEF woken
  <2> QED BY ZenonT(40), <1>0, <1>1, <2>2, <2>3, <2>4 DEF TypeOK, ProcStates
<1>5. TypeOK'
  BY ZenonT(40), <1>0, <1>1, <1>2, <1>3, <1>4
  DEF TypeOK, Pcs, nsVars, localVars
<1>6. PcState'
  BY <1>0, <1>2, <1>4 DEF PcState, TypeOK
<1>7. WaitLock'
  BY ZenonT(40), <1>0, <1>2 DEF WaitLock, TypeOK
<1>8. Sleepers'
  <2> SUFFICES ASSUME NEW q \in Procs,
                      state'[q] = "SLEEPING" \/ pc'[q] = "sleep"
               PROVE  Zombies(q)' = {} /\ Children(q)' # {}
    BY ZenonT(40) DEF Sleepers
  <2>1. q # p /\ state'[q] = "SLEEPING" /\ state[q] = "SLEEPING"
    BY SMTT(40), <1>0, <1>2, <1>4 DEF WaitLock, PcState, TypeOK
  <2>2. \A s \in Procs : parent'[s] = q <=> parent[s] = q
    BY <1>1, <1>3, <1>4, <2>1 DEF Children
  <2>3. Zombies(q) = {} /\ Children(q) # {}
    BY ZenonT(40), <1>0, <2>1 DEF Sleepers
  <2> QED BY <1>4, <2>2, <2>3 DEF Zombies, Children
<1>9. Calm
  <2>1. \A s \in Procs : parent'[s] # Null => parent[s] # Null
    BY ZenonT(40), <1>3 DEF Children
  <2> QED BY ZenonT(40), <1>0, <1>2, <1>4, <2>1
          DEF Calm, TypeOK, BuildPcs, nsVars, localVars
<1> QED
  BY ZenonT(40), <1>5, <1>6, <1>7, <1>8, <1>9, CalmStep

(* The end of exit(): the parent is woken before the lock is released. *)
LEMMA ZombifyStep ==
  ASSUME IInv, NEW p \in Procs, Zombify(p)
  PROVE  IInv'
<1> USE NullNotEntry DEF ProcPtr
<1>0. TypeOK /\ PcState /\ WaitLock /\ Sleepers
  BY ZenonT(40) DEF IInv
<1>1. /\ pc[p] = "zombie" /\ wait_lock' = Null
      /\ pc' = [pc EXCEPT ![p] = "dead"]
      /\ UNCHANGED <<pid, parent, ns, pids, killed, chan, issuer, lock, nsVars,
                     nextpid, localVars>>
  BY ZenonT(40) DEF Zombify, Goto
<1>2. /\ state' \in [Procs -> ProcStates] /\ state'[p] = "ZOMBIE"
      /\ \A s \in Procs : s # p =>
           \/ state'[s] = state[s]
           \/ state[s] = "SLEEPING" /\ state'[s] = "RUNNABLE"
      /\ parent[p] \in Procs => state'[parent[p]] # "SLEEPING"
  BY ZenonT(40), <1>0 DEF Zombify, wakeup, TypeOK, ProcStates, PcState
<1>3. state[p] \in {"RUNNABLE"}
  BY ZenonT(40), <1>0, <1>1 DEF PcState, TypeOK, ProcStates
<1>4. TypeOK'
  BY ZenonT(40), <1>0, <1>1, <1>2 DEF TypeOK, Pcs, nsVars, localVars
<1>5. PcState'
  BY ZenonT(40), <1>0, <1>1, <1>2 DEF PcState, TypeOK
<1>6. WaitLock'
  BY ZenonT(40), <1>0, <1>1 DEF WaitLock, TypeOK
<1>7. Sleepers'
  <2> SUFFICES ASSUME NEW q \in Procs,
                      state'[q] = "SLEEPING" \/ pc'[q] = "sleep"
               PROVE  Zombies(q)' = {} /\ Children(q)' # {}
    BY ZenonT(40) DEF Sleepers
  <2>1. q # p /\ state'[q] = "SLEEPING" /\ state[q] = "SLEEPING"
    BY <1>0, <1>1, <1>2 DEF WaitLock, PcState, TypeOK
  <2>2. parent[p] # q
    BY ZenonT(40), <1>2, <2>1
  <2>3. Zombies(q) = {} /\ Children(q) # {}
    BY ZenonT(40), <1>0, <2>1 DEF Sleepers
  <2> QED BY ZenonT(40), <1>1, <1>2, <2>2, <2>3 DEF Zombies, Children
<1>8. Calm
  BY ZenonT(40), <1>0, <1>1, <1>2, <1>3 DEF Calm, TypeOK, BuildPcs, nsVars, localVars
<1> QED
  BY ZenonT(40), <1>4, <1>5, <1>6, <1>7, <1>8, CalmStep

(* sleep() in wait(). *)
LEMMA SleepStep ==
  ASSUME IInv, NEW p \in Procs, Sleep(p)
  PROVE  IInv'
<1> USE NullNotEntry DEF ProcPtr
<1>0. TypeOK /\ PcState /\ WaitLock /\ Sleepers
  BY ZenonT(40) DEF IInv
<1>1. /\ pc[p] = "sleep" /\ wait_lock' = Null
      /\ pc' = [pc EXCEPT ![p] = "asleep"]
      /\ state' = [state EXCEPT ![p] = "SLEEPING"]
      /\ chan' = [chan EXCEPT ![p] = p]
      /\ UNCHANGED <<pid, parent, ns, pids, killed, issuer, lock, nsVars,
                     nextpid, localVars>>
  BY ZenonT(40) DEF Sleep, Goto
<1>2. state[p] = "RUNNABLE"
  BY ZenonT(40), <1>0, <1>1 DEF PcState, TypeOK, ProcStates
<1>3. TypeOK'
  BY ZenonT(40), <1>0, <1>1 DEF TypeOK, Pcs, ProcStates, nsVars, localVars
<1>4. PcState'
  BY ZenonT(40), <1>0, <1>1 DEF PcState, TypeOK
<1>5. WaitLock'
  BY ZenonT(40), <1>0, <1>1 DEF WaitLock, TypeOK
<1>6. Sleepers'
  BY SMTT(40), <1>0, <1>1, <1>2 DEF Sleepers, Zombies, Children, TypeOK
<1>7. Calm
  BY ZenonT(40), <1>0, <1>1, <1>2 DEF Calm, TypeOK, BuildPcs, nsVars, localVars
<1> QED
  BY ZenonT(40), <1>3, <1>4, <1>5, <1>6, <1>7, CalmStep

(* sleep() returns to wait(). *)
LEMMA ResumeStep ==
  ASSUME IInv, NEW p \in Procs, Resume(p)
  PROVE  IInv'
<1> USE NullNotEntry DEF ProcPtr
<1>0. TypeOK /\ PcState /\ WaitLock /\ Sleepers
  BY ZenonT(40) DEF IInv
<1>1. /\ pc[p] = "asleep" /\ state[p] = "RUNNABLE"
      /\ wait_lock = Null /\ wait_lock' = p
      /\ pc' = [pc EXCEPT ![p] = "scan"]
      /\ chan' = [chan EXCEPT ![p] = Null]
      /\ UNCHANGED <<state, pid, parent, ns, pids, killed, issuer, lock, nsVars,
                     nextpid, localVars>>
  BY ZenonT(40) DEF Resume, Goto
<1>2. TypeOK'
  BY ZenonT(40), <1>0, <1>1 DEF TypeOK, Pcs, nsVars, localVars
<1>3. PcState'
  BY ZenonT(40), <1>0, <1>1 DEF PcState, TypeOK
<1>4. WaitLock'
  BY ZenonT(40), <1>0, <1>1 DEF WaitLock, TypeOK
<1>5. Sleepers'
  BY SMTT(40), <1>0, <1>1 DEF Sleepers, Zombies, Children, TypeOK
<1>6. Calm
  BY ZenonT(40), <1>0, <1>1 DEF Calm, TypeOK, BuildPcs, nsVars, localVars
<1> QED
  BY ZenonT(40), <1>2, <1>3, <1>4, <1>5, <1>6, CalmStep

(* kill() wakes its target. *)
LEMMA KillStep ==
  ASSUME IInv, NEW p \in Procs, NEW k \in KillPids, Kill(p, k)
  PROVE  IInv'
<1>0. TypeOK /\ PcState /\ WaitLock /\ Sleepers
  BY ZenonT(40) DEF IInv
<1>1. PICK s \in Procs :
        /\ killed' = [killed EXCEPT ![s] = TRUE]
        /\ state' = [state EXCEPT ![s] = IF @ = "SLEEPING" THEN "RUNNABLE"
                                                           ELSE @]
  BY ZenonT(40) DEF Kill
<1>2. UNCHANGED <<pid, parent, ns, pids, chan, issuer, lock, nsVars, nextpid,
                  wait_lock, pc, localVars>>
  BY ZenonT(40) DEF Kill
<1>3. TypeOK'
  BY ZenonT(40), <1>0, <1>1, <1>2 DEF TypeOK, ProcStates, nsVars, localVars
<1>4. PcState'
  BY ZenonT(40), <1>0, <1>1, <1>2 DEF PcState, TypeOK
<1>5. WaitLock'
  BY ZenonT(40), <1>0, <1>2 DEF WaitLock
<1>6. Sleepers'
  BY ZenonT(40), <1>0, <1>1, <1>2 DEF Sleepers, Zombies, Children, TypeOK
<1>7. Calm
  BY ZenonT(40), <1>0, <1>1, <1>2 DEF Calm, TypeOK, BuildPcs, nsVars, localVars
<1> QED
  BY ZenonT(40), <1>3, <1>4, <1>5, <1>6, <1>7, CalmStep

-----------------------------------------------------------------------------
(* The steps of fork() and clone() on the entry of the process table *)

(* allocproc() preserves the invariant whether fork() or clone() calls it. *)
LEMMA TakeSlotStep ==
  ASSUME IInv, NEW p \in Procs, NEW n \in Namespaces,
         TakeSlot(p, n), Goto(p, "pids"),
         UNCHANGED <<nsVars, wait_lock, newns, look>>,
         \/ pc[p] = "user" /\ n = ns[p]
         \/ pc[p] = "clone" /\ n = newns[p]
  PROVE  IInv'
<1> USE NullNotEntry DEF ProcPtr, NsPtr
<1>0. /\ TypeOK /\ PcState /\ Building /\ WaitLock /\ NsTree
      /\ Issued /\ Chains /\ Fresh /\ HeadSet /\ Sleepers
  BY ZenonT(40) DEF IInv
<1>1. PICK s \in Procs :
        /\ state[s] = "UNUSED"
        /\ state' = [state EXCEPT ![s] = "USED"]
        /\ ns' = [ns EXCEPT ![s] = n]
        /\ np' = [np EXCEPT ![p] = s]
  BY ZenonT(40) DEF TakeSlot, allocpid, FreeEntry
<1>2. /\ pc' = [pc EXCEPT ![p] = "pids"]
      /\ curr_ns' = [curr_ns EXCEPT ![p] = n]
      /\ lev' = [lev EXCEPT ![p] = depth[n]]
      /\ UNCHANGED <<parent, pids, chan, issuer, used, nsparent, head, depth,
                     next_ns_pid, wait_lock, newns, look>>
  BY ZenonT(40) DEF TakeSlot, allocpid, Goto, nsVars
<1>3. /\ pc[p] \notin BuildPcs /\ np[p] = Null
      /\ pc[p] = "user" => newns[p] = Null
      /\ s # p /\ ns[s] = Null /\ parent[s] = Null /\ pc[s] = "none"
      /\ \A q \in Procs : np[q] # s /\ np[q] # p
  BY <1>0, <1>1 DEF PcState, Building, Builder, NsTree, BuildPcs, TypeOK
<1>4. used[n]
  BY <1>0 DEF NsTree, PcState, TypeOK
<1>5. TypeOK'
  BY <1>0 DEF TypeOK, TakeSlot, allocpid, Goto, Pcs, ProcStates, nsVars
<1>6. PcState'
  BY ZenonT(40), <1>0, <1>1, <1>2, <1>3 DEF PcState, TypeOK
<1>7. Building'
  BY <1>0, <1>1, <1>2, <1>3 DEF Building, Builder, TypeOK, BuildPcs
<1>8. WaitLock'
  BY ZenonT(40), <1>0, <1>2, <1>3 DEF WaitLock, TypeOK
<1>9. NsTree'
  BY ZenonT(40), <1>0, <1>1, <1>2, <1>3, <1>4 DEF NsTree, TypeOK
<1>10. Issued'
  BY <1>0, <1>2 DEF Issued, PidsUnique
<1>11. Chains'
  <2>1. ASSUME NEW t \in Procs, Complete(t)' PROVE Chain(t, 0)'
    <3>1. t # s /\ Complete(t)
      BY ZenonT(40), <1>0, <1>1, <2>1 DEF Complete, TypeOK
    <3> QED BY ZenonT(40), <1>0, <1>1, <1>2, <3>1, ChainFrame DEF Chains, TypeOK
  <2>2. ASSUME NEW q \in Procs, NEW t \in Procs, np'[q] = t, pc'[q] # "pids"
        PROVE  Chain(t, 0)'
    <3>1. q # p /\ t # s /\ np[q] = t /\ pc[q] # "pids"
      BY ZenonT(40), <1>0, <1>1, <1>2, <1>3, <2>2 DEF TypeOK
    <3> QED BY ZenonT(40), <1>0, <1>1, <1>2, <3>1, ChainFrame DEF Chains, TypeOK
  <2>3. ASSUME NEW q \in Procs, NEW t \in Procs, NEW k \in Levels,
               NEW c \in NsPtr, pc'[q] = "pids", np'[q] = t, lev'[q] = k,
               curr_ns'[q] = c
        PROVE  Climbing(t, k, c)'
    <3>1. CASE q = p
      <4>1. t = s /\ k = depth[n] /\ c = n /\ ns'[s] = n /\ depth[n] \in Nat
        BY SMTT(40), <1>0, <1>1, <1>2, <2>3, <3>1 DEF TypeOK, Levels
      <4> QED BY <1>2, <1>4, <4>1 DEF Climbing, Chain, Levels
    <3>2. CASE q # p
      <4>1. /\ pc[q] = "pids" /\ np[q] = t /\ lev[q] = k /\ curr_ns[q] = c
            /\ t # s /\ ns'[t] = ns[t]
        BY ZenonT(40), <1>0, <1>1, <1>2, <1>3, <2>3, <3>2 DEF TypeOK
      <4> QED BY ZenonT(40), <1>0, <1>2, <4>1, ClimbingFrame DEF Chains
    <3> QED BY ZenonT(40), <3>1, <3>2
  <2> QED BY ZenonT(40), <2>1, <2>2, <2>3 DEF Chains
<1>12. Fresh'
  <2>1. ASSUME NEW q \in Procs, newns[q] # Null, q # p PROVE FreshNs(q)'
    <3>1. newns[q] # n
      BY <1>0, <1>2, <1>3, <2>1 DEF Fresh, FreshNs
    <3>2. /\ np'[q] = np[q] /\ lev'[q] = lev[q] /\ pc'[q] = pc[q]
      BY ZenonT(40), <1>0, <1>1, <1>2, <2>1 DEF TypeOK
    <3>3. \A r \in Procs : ns'[r] = newns[q] => ns[r] = newns[q]
      BY ZenonT(40), <1>0, <1>1, <3>1 DEF TypeOK
    <3>4. FreshNs(q) /\ newns' = newns
      BY ZenonT(40), <1>0, <1>2, <2>1 DEF Fresh
    <3> QED BY ZenonT(40), <1>2, <3>2, <3>3, <3>4 DEF FreshNs
  <2>2. ASSUME newns[p] # Null PROVE FreshNs(p)'
    <3>1. pc[p] = "clone" /\ n = newns[p] 
      BY ZenonT(40), <1>3, <2>2
    <3>2. np'[p] = s /\ lev'[p] = depth[n] /\ pc'[p] = "pids"
      BY ZenonT(40), <1>0, <1>1, <1>2 DEF TypeOK
    <3> QED BY <1>0, <1>1, <1>2, <1>3, <3>1, <3>2 DEF Fresh, FreshNs, TypeOK
  <2> QED BY ZenonT(40), <1>2, <2>1, <2>2 DEF Fresh
<1>13. HeadSet'
  BY <1>0, <1>1, <1>2, <1>3 DEF HeadSet, Complete, TypeOK
<1>14. Sleepers'
  BY <1>0, <1>1, <1>2, <1>3 DEF Sleepers, Zombies, Children, TypeOK
<1> QED
  BY ZenonT(40), <1>5, <1>6, <1>7, <1>8, <1>9, <1>10, <1>11, <1>12, <1>13, <1>14 DEF IInv

(* The start of fork(). *)
LEMMA ForkStep ==
  ASSUME IInv, NEW p \in Procs, Fork(p)
  PROVE  IInv'
<1>1. pc[p] = "user" /\ ns[p] \in Namespaces
  BY NullNotEntry DEF IInv, TypeOK, Fork, Enter, PcState, NsTree, NsPtr
<1> QED
  BY ZenonT(40), <1>1, TakeSlotStep DEF Fork

(* The call of allocproc() in clone(). *)
LEMMA CloneAllocStep ==
  ASSUME IInv, NEW p \in Procs, CloneAlloc(p)
  PROVE  IInv'
<1>1. pc[p] = "clone" /\ newns[p] \in Namespaces
  BY ZenonT(40) DEF IInv, TypeOK, CloneAlloc, Building, Builder, NsPtr
<1> QED
  BY ZenonT(40), <1>1, TakeSlotStep DEF CloneAlloc

(* clone() finds no free entry. *)
LEMMA CloneNoSlotStep ==
  ASSUME IInv, NEW p \in Procs, CloneNoSlot(p)
  PROVE  IInv'
<1> USE NullNotEntry DEF ProcPtr, NsPtr
<1>0. /\ TypeOK /\ PcState /\ Building /\ WaitLock /\ NsTree
      /\ Issued /\ Chains /\ Fresh /\ HeadSet /\ Sleepers
  BY ZenonT(40) DEF IInv
<1>1. /\ pc[p] = "clone" /\ np[p] = Null
      /\ pc' = [pc EXCEPT ![p] = "user"]
      /\ newns' = [newns EXCEPT ![p] = Null]
      /\ UNCHANGED <<state, parent, ns, pids, chan, issuer, used, nsparent, head,
                     depth, next_ns_pid, wait_lock, np, lev, curr_ns>>
  BY ZenonT(40), <1>0 DEF CloneNoSlot, Goto, tableVars, nsVars, Building, Builder, BuildPcs
<1>2. TypeOK'
  BY ZenonT(40), <1>0 DEF TypeOK, CloneNoSlot, Goto, Pcs, tableVars, nsVars
<1>3. PcState'
  BY ZenonT(40), <1>0, <1>1 DEF PcState, TypeOK
<1>4. Building'
  BY <1>0, <1>1 DEF Building, Builder, TypeOK, BuildPcs
<1>5. WaitLock'
  BY ZenonT(40), <1>0, <1>1 DEF WaitLock, TypeOK
<1>6. NsTree'
  BY ZenonT(40), <1>0, <1>1 DEF NsTree, TypeOK
<1>7. Issued'
  BY ZenonT(40), <1>0, <1>1 DEF Issued, PidsUnique
<1>8. Chains'
  <2>1. ASSUME NEW t \in Procs, Complete(t)' PROVE Chain(t, 0)'
    BY ZenonT(40), <1>0, <1>1, <2>1, ChainFrame DEF Chains, Complete
  <2>2. ASSUME NEW q \in Procs, NEW t \in Procs, np'[q] = t, pc'[q] # "pids"
        PROVE  Chain(t, 0)'
    BY ZenonT(40), <1>0, <1>1, <2>2, ChainFrame DEF Chains, TypeOK
  <2>3. ASSUME NEW q \in Procs, NEW t \in Procs, NEW k \in Levels,
               NEW c \in NsPtr, pc'[q] = "pids", np'[q] = t, lev'[q] = k,
               curr_ns'[q] = c
        PROVE  Climbing(t, k, c)'
    BY ZenonT(40), <1>0, <1>1, <2>3, ClimbingFrame DEF Chains, TypeOK
  <2> QED BY ZenonT(40), <2>1, <2>2, <2>3 DEF Chains
<1>9. Fresh'
  <2>1. ASSUME NEW q \in Procs, newns'[q] # Null PROVE FreshNs(q)'
    BY <1>0, <1>1, <2>1 DEF Fresh, FreshNs, TypeOK
  <2> QED BY ZenonT(40), <2>1 DEF Fresh
<1>10. HeadSet'
  BY ZenonT(40), <1>0, <1>1 DEF HeadSet, Complete, TypeOK
<1>11. Sleepers'
  <2>1. \A q \in Procs : Zombies(q)' = Zombies(q) /\ Children(q)' = Children(q)
    BY ZenonT(40), <1>1 DEF Zombies, Children
  <2>2. \A q \in Procs : /\ state'[q] = state[q]
                         /\ pc'[q] = "sleep" => pc[q] = "sleep"
    BY ZenonT(40), <1>0, <1>1 DEF TypeOK
  <2> QED BY ZenonT(40), <1>0, <2>1, <2>2 DEF Sleepers
<1> QED
  BY ZenonT(40), <1>2, <1>3, <1>4, <1>5, <1>6, <1>7, <1>8, <1>9, <1>10, <1>11 DEF IInv

(* The end of allocproc(); clone() sets the head. *)
LEMMA AllocMemoryStep ==
  ASSUME IInv, NEW p \in Procs, AllocMemory(p)
  PROVE  IInv'
<1> USE NullNotEntry DEF ProcPtr, NsPtr
<1>0. /\ TypeOK /\ PcState /\ Building /\ WaitLock /\ NsTree
      /\ Issued /\ Chains /\ Fresh /\ HeadSet /\ Sleepers
  BY ZenonT(40) DEF IInv
<1>1. /\ pc[p] = "trapframe" /\ np[p] \in Procs
      /\ pc' = [pc EXCEPT ![p] = "uvmcopy"]
      /\ UNCHANGED <<state, parent, ns, pids, chan, issuer, used, nsparent,
                     depth, next_ns_pid, wait_lock, np, newns, lev, curr_ns>>
  BY SMTT(40), <1>0 DEF AllocMemory, Goto, tableVars, localVars, TypeOK,
     Building, Builder, BuildPcs
<1>2. head' = IF newns[p] = Null THEN head
                                 ELSE [head EXCEPT ![newns[p]] = np[p]]
  BY ZenonT(40) DEF AllocMemory
<1>3. TypeOK'
  BY <1>0, <1>1 DEF TypeOK, AllocMemory, Goto, Pcs, tableVars, localVars
<1>4. PcState'
  BY ZenonT(40), <1>0, <1>1 DEF PcState, TypeOK
<1>5. Building'
  BY <1>0, <1>1 DEF Building, Builder, TypeOK, BuildPcs
<1>6. WaitLock'
  BY ZenonT(40), <1>0, <1>1 DEF WaitLock, TypeOK
<1>7. NsTree'
  BY ZenonT(40), <1>0, <1>1 DEF NsTree
<1>8. Issued'
  <2>1. Issued /\ UNCHANGED <<issuer, used, pids, next_ns_pid>>
    BY ZenonT(40), <1>0, <1>1
  <2> QED BY ZenonT(40), <2>1 DEF Issued, PidsUnique
<1>9. Chains'
  <2>1. ASSUME NEW t \in Procs, Complete(t)' PROVE Chain(t, 0)'
    BY ZenonT(40), <1>0, <1>1, <2>1, ChainFrame DEF Chains, Complete
  <2>2. ASSUME NEW q \in Procs, NEW t \in Procs, np'[q] = t, pc'[q] # "pids"
        PROVE  Chain(t, 0)'
    BY ZenonT(40), <1>0, <1>1, <2>2, ChainFrame DEF Chains, TypeOK
  <2>3. ASSUME NEW q \in Procs, NEW t \in Procs, NEW k \in Levels,
               NEW c \in NsPtr, pc'[q] = "pids", np'[q] = t, lev'[q] = k,
               curr_ns'[q] = c
        PROVE  Climbing(t, k, c)'
    BY ZenonT(40), <1>0, <1>1, <2>3, ClimbingFrame DEF Chains, TypeOK
  <2> QED BY ZenonT(40), <2>1, <2>2, <2>3 DEF Chains
<1>10. Fresh'
  <2>1. ASSUME NEW q \in Procs, newns'[q] # Null PROVE FreshNs(q)'
    BY <1>0, <1>1, <1>2, <2>1 DEF Fresh, FreshNs, TypeOK
  <2> QED BY ZenonT(40), <2>1 DEF Fresh
<1>11. HeadSet'
  <2>1. \A n \in Namespaces : head[n] # Null => head'[n] # Null
    BY ZenonT(40), <1>0, <1>1, <1>2 DEF TypeOK
  <2>2. ASSUME NEW s \in Procs, Complete(s)' \/ parent'[s] # Null
        PROVE  ns'[s] # Null /\ head'[ns'[s]] # Null
    BY <1>0, <1>1, <2>1, <2>2 DEF HeadSet, Complete, TypeOK
  <2>3. head'[ns[np[p]]] # Null
    <3>1. CASE newns[p] = Null
      <4>1. Complete(p) /\ ns[np[p]] = ns[p]
        BY ZenonT(40), <1>0, <1>1, <3>1
        DEF Building, Builder, PcState, Complete, TypeOK, ProcStates
      <4> QED BY ZenonT(40), <1>0, <1>2, <3>1, <4>1 DEF HeadSet
    <3>2. CASE newns[p] # Null
      BY SMTT(40), <1>0, <1>1, <1>2, <3>2 DEF Building, Builder, TypeOK
    <3> QED BY ZenonT(40), <3>1, <3>2
  <2>4. ASSUME NEW q \in Procs, q # p,
               pc'[q] \in {"uvmcopy", "parent", "runnable"}
        PROVE  head'[ns'[np'[q]]] # Null
    <3>1. /\ pc[q] \in {"uvmcopy", "parent", "runnable"}
          /\ np[q] \in Procs /\ ns[np[q]] \in Namespaces
      BY SMTT(40), <1>0, <1>1, <2>4
      DEF TypeOK, Building, Builder, BuildPcs, NsTree
    <3> QED BY ZenonT(40), <1>0, <1>1, <2>1, <3>1 DEF HeadSet
  <2> QED BY ZenonT(40), <1>1, <2>2, <2>3, <2>4 DEF HeadSet
<1>12. Sleepers'
  BY SMTT(40), <1>0, <1>1 DEF Sleepers, Zombies, Children, TypeOK
<1> QED
  BY ZenonT(40), <1>3, <1>4, <1>5, <1>6, <1>7, <1>8, <1>9, <1>10, <1>11, <1>12 DEF IInv

(* uvmcopy() succeeds. *)
LEMMA UvmcopyStep ==
  ASSUME IInv, NEW p \in Procs, Uvmcopy(p)
  PROVE  IInv'
<1> USE NullNotEntry DEF ProcPtr, NsPtr
<1>0. /\ TypeOK /\ PcState /\ Building /\ WaitLock /\ NsTree
      /\ Issued /\ Chains /\ Fresh /\ HeadSet /\ Sleepers
  BY ZenonT(40) DEF IInv
<1>1. /\ pc[p] = "uvmcopy"
      /\ pc' = [pc EXCEPT ![p] = "parent"]
      /\ UNCHANGED <<state, parent, ns, pids, chan, issuer, used, nsparent, head,
                     depth, next_ns_pid, wait_lock, np, newns, lev, curr_ns>>
  BY ZenonT(40) DEF Uvmcopy, Goto, tableVars, nsVars, localVars
<1>2. TypeOK'
  BY ZenonT(40), <1>0
  DEF TypeOK, Uvmcopy, Goto, Pcs, tableVars, nsVars, localVars
<1>3. PcState'
  BY ZenonT(40), <1>0, <1>1 DEF PcState, TypeOK
<1>4. Building'
  BY <1>0, <1>1 DEF Building, Builder, TypeOK, BuildPcs
<1>5. WaitLock'
  BY ZenonT(40), <1>0, <1>1 DEF WaitLock, TypeOK
<1>6. NsTree'
  BY ZenonT(40), <1>0, <1>1 DEF NsTree
<1>7. Issued'
  BY ZenonT(40), <1>0, <1>1 DEF Issued, PidsUnique
<1>8. Chains'
  <2>1. ASSUME NEW t \in Procs, Complete(t)' PROVE Chain(t, 0)'
    <3>1. Chain(t, 0)
      BY ZenonT(40), <1>0, <1>1, <2>1 DEF Chains, Complete
    <3> QED BY ZenonT(40), <1>1, <3>1, ChainFrame
  <2>2. ASSUME NEW q \in Procs, NEW t \in Procs, np'[q] = t, pc'[q] # "pids"
        PROVE  Chain(t, 0)'
    <3>1. np[q] = t /\ pc[q] # "pids"
      BY ZenonT(40), <1>0, <1>1, <2>2 DEF TypeOK
    <3>2. Chain(t, 0)
      BY ZenonT(40), <1>0, <3>1 DEF Chains
    <3> QED BY ZenonT(40), <1>1, <3>2, ChainFrame
  <2>3. ASSUME NEW q \in Procs, NEW t \in Procs, NEW k \in Levels,
               NEW c \in NsPtr, pc'[q] = "pids", np'[q] = t, lev'[q] = k,
               curr_ns'[q] = c
        PROVE  Climbing(t, k, c)'
    BY ZenonT(40), <1>0, <1>1, <2>3, ClimbingFrame DEF Chains, TypeOK
  <2> QED BY ZenonT(40), <2>1, <2>2, <2>3 DEF Chains
<1>9. Fresh'
  <2>1. ASSUME NEW q \in Procs, newns'[q] # Null PROVE FreshNs(q)'
    BY ZenonT(40), <1>0, <1>1, <2>1 DEF Fresh, FreshNs, TypeOK
  <2> QED BY ZenonT(40), <2>1 DEF Fresh
<1>10. HeadSet'
  BY ZenonT(40), <1>0, <1>1 DEF HeadSet, Complete, TypeOK
<1>11. Sleepers'
  <2>1. \A q \in Procs : Zombies(q)' = Zombies(q) /\ Children(q)' = Children(q)
    BY ZenonT(40), <1>1 DEF Zombies, Children
  <2>2. \A q \in Procs : /\ state'[q] = state[q]
                         /\ pc'[q] = "sleep" => pc[q] = "sleep"
    BY ZenonT(40), <1>0, <1>1 DEF TypeOK
  <2> QED BY ZenonT(40), <1>0, <2>1, <2>2 DEF Sleepers
<1> QED
  BY ZenonT(40), <1>2, <1>3, <1>4, <1>5, <1>6, <1>7, <1>8, <1>9, <1>10, <1>11 DEF IInv

(* The child gets its parent. *)
LEMMA SetParentStep ==
  ASSUME IInv, NEW p \in Procs, SetParent(p)
  PROVE  IInv'
<1> USE NullNotEntry DEF ProcPtr, NsPtr
<1>0. /\ TypeOK /\ PcState /\ Building /\ WaitLock /\ NsTree
      /\ Issued /\ Chains /\ Fresh /\ HeadSet /\ Sleepers
  BY ZenonT(40) DEF IInv
<1>1. /\ pc[p] = "parent" /\ np[p] \in Procs
      /\ wait_lock = Null
      /\ pc' = [pc EXCEPT ![p] = "runnable"]
      /\ UNCHANGED <<state, ns, pids, chan, issuer, used, nsparent, head,
                     depth, next_ns_pid, wait_lock, np, newns, lev, curr_ns>>
  BY <1>0 DEF SetParent, Goto, nsVars, localVars, TypeOK, Building, Builder, BuildPcs
<1>2. /\ parent' = [parent EXCEPT ![np[p]] = p]
      /\ parent[np[p]] = Null /\ state[np[p]] = "USED"
      /\ state[p] # "SLEEPING"
  BY ZenonT(40), <1>0, <1>1 DEF SetParent, Building, Builder, PcState
<1>3. TypeOK'
  BY ZenonT(40), <1>0 DEF TypeOK, SetParent, Goto, Pcs, nsVars, localVars
<1>4. PcState'
  BY ZenonT(40), <1>0, <1>1 DEF PcState, TypeOK
<1>5. Building'
  BY <1>0, <1>1, <1>2 DEF Building, Builder, TypeOK, BuildPcs
<1>6. WaitLock'
  BY ZenonT(40), <1>0, <1>1 DEF WaitLock, TypeOK
<1>7. NsTree'
  BY <1>0, <1>1, <1>2 DEF NsTree, TypeOK
<1>8. Issued'
  BY ZenonT(40), <1>0, <1>1 DEF Issued, PidsUnique
<1>9. Chains'
  <2>1. ASSUME NEW t \in Procs, Complete(t)' PROVE Chain(t, 0)'
    <3>1. Chain(t, 0)
      BY ZenonT(40), <1>0, <1>1, <2>1 DEF Chains, Complete
    <3> QED BY ZenonT(40), <1>1, <3>1, ChainFrame
  <2>2. ASSUME NEW q \in Procs, NEW t \in Procs, np'[q] = t, pc'[q] # "pids"
        PROVE  Chain(t, 0)'
    <3>1. np[q] = t /\ pc[q] # "pids"
      BY ZenonT(40), <1>0, <1>1, <2>2 DEF TypeOK
    <3>2. Chain(t, 0)
      BY ZenonT(40), <1>0, <3>1 DEF Chains
    <3> QED BY ZenonT(40), <1>1, <3>2, ChainFrame
  <2>3. ASSUME NEW q \in Procs, NEW t \in Procs, NEW k \in Levels,
               NEW c \in NsPtr, pc'[q] = "pids", np'[q] = t, lev'[q] = k,
               curr_ns'[q] = c
        PROVE  Climbing(t, k, c)'
    BY ZenonT(40), <1>0, <1>1, <2>3, ClimbingFrame DEF Chains, TypeOK
  <2> QED BY ZenonT(40), <2>1, <2>2, <2>3 DEF Chains
<1>10. Fresh'
  <2>1. ASSUME NEW q \in Procs, newns'[q] # Null PROVE FreshNs(q)'
    BY ZenonT(40), <1>0, <1>1, <2>1 DEF Fresh, FreshNs, TypeOK
  <2> QED BY ZenonT(40), <2>1 DEF Fresh
<1>11. HeadSet'
  <2>1. ns[np[p]] # Null /\ head[ns[np[p]]] # Null
    BY ZenonT(40), <1>0, <1>1, <1>2 DEF HeadSet, NsTree
  <2> QED BY ZenonT(40), <1>0, <1>1, <1>2, <2>1 DEF HeadSet, Complete, TypeOK
<1>12. Sleepers'
  BY <1>0, <1>1, <1>2 DEF Sleepers, Zombies, Children, TypeOK
<1> QED
  BY ZenonT(40), <1>3, <1>4, <1>5, <1>6, <1>7, <1>8, <1>9, <1>10, <1>11, <1>12 DEF IInv

-----------------------------------------------------------------------------
(* The steps of clone() and allocproc() on the namespaces *)

(* clone() takes an unused namespace, which nothing refers to yet. *)
LEMMA CloneStep ==
  ASSUME IInv, NEW p \in Procs, Clone(p)
  PROVE  IInv'
<1> USE NullNotEntry DEF ProcPtr, NsPtr
<1>0. /\ TypeOK /\ PcState /\ Building /\ WaitLock /\ NsTree
      /\ Issued /\ Chains /\ Fresh /\ HeadSet /\ Sleepers
  BY ZenonT(40) DEF IInv
<1>1. /\ pc[p] = "user" /\ np[p] = Null /\ newns[p] = Null
      /\ ns[p] \in Namespaces /\ used[ns[p]]
      /\ \A q \in Procs : np[q] # p
  <2>1. pc[p] = "user"
    BY ZenonT(40) DEF Clone, Enter
  <2>2. np[p] = Null /\ newns[p] = Null
    BY ZenonT(40), <1>0, <2>1 DEF Building, Builder, BuildPcs
  <2>3. state[p] \notin {"UNUSED", "USED"}
    BY ZenonT(40), <1>0, <2>1 DEF PcState
  <2>4. ns[p] \in Namespaces /\ used[ns[p]]
    BY <1>0, <2>3 DEF NsTree, TypeOK
  <2>5. \A q \in Procs : np[q] # p
    BY <1>0, <2>3 DEF Building, Builder
  <2> QED BY ZenonT(40), <2>1, <2>2, <2>4, <2>5
<1> DEFINE deep == TooDeep(ns[p])
<1>4. PICK n \in Namespaces :
      /\ ~used[n]
      /\ used' = [used EXCEPT ![n] = TRUE]
      /\ head' = [head EXCEPT ![n] = Null]
      /\ nsparent' = [nsparent EXCEPT ![n] = ns[p]]
      /\ depth' = [depth EXCEPT ![n] = IF deep THEN 0 ELSE depth[ns[p]] + 1]
      /\ next_ns_pid' = [next_ns_pid EXCEPT ![n] = 1]
      /\ newns' = [newns EXCEPT ![p] = IF deep THEN Null ELSE n]
      /\ pc' = [pc EXCEPT ![p] = IF deep THEN "user" ELSE "clone"]
  BY ZenonT(40) DEF Clone, allocnamespace, FirstNsPid, Goto
<1>5. UNCHANGED <<state, pid, parent, ns, pids, killed, chan, issuer, lock,
                  nextpid, wait_lock, np, lev, curr_ns, look>>
  BY ZenonT(40) DEF Clone, tableVars
<1>6. (IF deep THEN 0 ELSE depth[ns[p]] + 1) \in Levels
  <2>1. PICK d \in Levels : d = depth[ns[p]]
    BY ZenonT(40), <1>0, <1>1 DEF TypeOK
  <2>2. (IF d + 1 >= MAXDEPTH THEN 0 ELSE d + 1) \in Levels
    BY SizesAssumption DEF Levels
  <2> QED BY ZenonT(40), <2>1, <2>2 DEF TooDeep
<1> HIDE DEF deep
<1>7. TypeOK'
  BY ZenonT(40), <1>0, <1>1, <1>4, <1>5, <1>6 DEF TypeOK, Pcs
<1>8. PcState'
  BY ZenonT(40), <1>0, <1>1, <1>4, <1>5 DEF PcState, TypeOK
<1>9. Building'
  BY <1>0, <1>1, <1>4, <1>5 DEF Building, Builder, TypeOK, BuildPcs
<1>10. WaitLock'
  BY ZenonT(40), <1>0, <1>1, <1>4, <1>5 DEF WaitLock, TypeOK
<1>11. \A m \in Namespaces : used[m] =>
         /\ m # n /\ depth'[m] = depth[m] /\ nsparent'[m] = nsparent[m]
         /\ next_ns_pid'[m] = next_ns_pid[m] /\ head'[m] = head[m] /\ used'[m]
  BY ZenonT(40), <1>0, <1>4 DEF TypeOK
<1>12. NsTree'
  <2>1. ASSUME NEW m \in Namespaces, m # n, used[m], depth[m] > 0
        PROVE  /\ nsparent'[m] # Null /\ used'[nsparent'[m]]
               /\ depth'[nsparent'[m]] = depth'[m] - 1
    <3>1. nsparent[m] \in NsPtr
      BY ZenonT(40), <1>0 DEF TypeOK
    <3>2. /\ nsparent[m] # Null /\ used[nsparent[m]]
          /\ depth[nsparent[m]] = depth[m] - 1
      BY ZenonT(40), <1>0, <2>1 DEF NsTree
    <3> QED BY ZenonT(40), <1>11, <2>1, <3>1, <3>2
  <2>2. /\ nsparent'[n] = ns[p] /\ used'[ns[p]] /\ depth'[ns[p]] = depth[ns[p]]
        /\ depth'[n] > 0 => depth'[n] = depth[ns[p]] + 1
    BY <1>0, <1>1, <1>4, <1>11 DEF TypeOK
  <2>3. depth[ns[p]] \in Nat
    BY <1>0, <1>1 DEF TypeOK, Levels
  <2>4. \A m \in Namespaces :
          /\ next_ns_pid'[m] > 0
          /\ m # n => used'[m] = used[m] /\ depth'[m] = depth[m]
                      /\ nsparent'[m] = nsparent[m]
    <3>1. ASSUME NEW m \in Namespaces PROVE next_ns_pid'[m] > 0
      <4>1. next_ns_pid'[m] = IF m = n THEN 1 ELSE next_ns_pid[m]
        BY ZenonT(40), <1>0, <1>4 DEF TypeOK
      <4>2. next_ns_pid[m] > 0
        BY ZenonT(40), <1>0 DEF NsTree
      <4>3. 1 > 0
        OBVIOUS
      <4> QED BY ZenonT(40), <4>1, <4>2, <4>3
    <3>2. ASSUME NEW m \in Namespaces, m # n
          PROVE  /\ used'[m] = used[m] /\ depth'[m] = depth[m]
                 /\ nsparent'[m] = nsparent[m]
      BY ZenonT(40), <1>0, <1>4, <3>2 DEF TypeOK
    <3> QED BY ZenonT(40), <3>1, <3>2
  <2>5. ASSUME NEW m \in Namespaces
        PROVE  /\ used'[m] /\ depth'[m] > 0 =>
                    /\ nsparent'[m] # Null
                    /\ used'[nsparent'[m]]
                    /\ depth'[nsparent'[m]] = depth'[m] - 1
               /\ nsparent'[m] # Null => used'[nsparent'[m]]
    <3>1. CASE m = n
      <4>1. /\ ns[p] # Null
            /\ depth'[n] > 0 => depth[ns[p]] = depth'[n] - 1
        BY <1>1, <2>2, <2>3
      <4> QED BY ZenonT(40), <2>2, <3>1, <4>1
    <3>2. CASE m # n
      <4>1. /\ used'[m] = used[m] /\ depth'[m] = depth[m]
            /\ nsparent'[m] = nsparent[m]
        BY ZenonT(40), <2>4, <3>2
      <4>2. nsparent[m] # Null =>
              nsparent[m] \in Namespaces /\ used[nsparent[m]]
        BY ZenonT(40), <1>0 DEF NsTree, TypeOK
      <4> QED BY ZenonT(40), <1>11, <2>1, <3>2, <4>1, <4>2
    <3> QED BY ZenonT(40), <3>1, <3>2
  <2>6. \A s \in Procs :
          /\ ns[s] # Null => used'[ns[s]]
          /\ newns'[s] # Null => used'[newns'[s]]
    <3> SUFFICES ASSUME NEW s \in Procs
                 PROVE  /\ ns[s] # Null => used'[ns[s]]
                        /\ newns'[s] # Null => used'[newns'[s]]
      BY ZenonT(40)
    <3>1. ns[s] \in NsPtr /\ newns[s] \in NsPtr
      BY ZenonT(40), <1>0 DEF TypeOK
    <3>2. /\ ns[s] # Null => used[ns[s]]
          /\ newns[s] # Null => used[newns[s]]
      BY ZenonT(40), <1>0 DEF NsTree
    <3>3. used'[n] /\ (newns'[s] = newns[s] \/ newns'[s] = n \/ newns'[s] = Null)
      BY ZenonT(40), <1>0, <1>4, <3>1 DEF TypeOK
    <3> QED BY ZenonT(40), <1>11, <3>1, <3>2, <3>3
  <2> QED BY ZenonT(40), <1>0, <1>5, <2>4, <2>5, <2>6 DEF NsTree
<1>13. Issued'
  <2>1. \A s \in Procs, i \in Levels : issuer[s][i] # Null =>
          issuer[s][i] \in Namespaces /\ used[issuer[s][i]]
    BY SMTT(40), <1>0 DEF Issued, TypeOK
  <2>2. PidsUnique'
    BY ZenonT(40), <1>0, <1>5 DEF Issued, PidsUnique
  <2>3. ASSUME NEW s \in Procs, NEW i \in Levels, issuer[s][i] # Null
        PROVE  /\ used'[issuer[s][i]] /\ pids[s][i] > 0
               /\ pids[s][i] < next_ns_pid'[issuer[s][i]]
    <3>1. /\ issuer[s][i] \in Namespaces /\ used[issuer[s][i]] /\ pids[s][i] > 0
          /\ pids[s][i] < next_ns_pid[issuer[s][i]]
      BY ZenonT(40), <1>0, <2>1, <2>3 DEF Issued
    <3>2. /\ used'[issuer[s][i]]
          /\ next_ns_pid'[issuer[s][i]] = next_ns_pid[issuer[s][i]]
      BY ZenonT(40), <1>11, <3>1
    <3> QED BY ZenonT(40), <3>1, <3>2
  <2> QED BY ZenonT(40), <1>5, <2>2, <2>3 DEF Issued
<1>14. ASSUME NEW s \in Procs, NEW k, ns[s] # Null, Chain(s, k)
       PROVE  Chain(s, k)'
  <2>1. ns[s] \in Namespaces /\ used[ns[s]] /\ depth'[ns[s]] = depth[ns[s]]
    <3>1. ns[s] \in NsPtr /\ used[ns[s]]
      BY ZenonT(40), <1>0, <1>14 DEF NsTree, TypeOK
    <3> QED BY ZenonT(40), <1>11, <1>14, <3>1
  <2>2. ASSUME NEW i \in Levels, issuer[s][i] # Null
        PROVE  /\ depth'[issuer[s][i]] = depth[issuer[s][i]]
               /\ nsparent'[issuer[s][i]] = nsparent[issuer[s][i]]
    <3>1. issuer[s][i] \in Namespaces /\ used[issuer[s][i]]
      BY <1>0, <2>2 DEF Issued, TypeOK
    <3> QED BY ZenonT(40), <1>11, <3>1
  <2> QED BY ZenonT(40), <1>5, <1>14, <2>1, <2>2 DEF Chain
<1>15. Chains'
  <2>1. ASSUME NEW t \in Procs, Complete(t)' PROVE Chain(t, 0)'
    <3>1. Chain(t, 0) /\ ns[t] # Null
      BY ZenonT(40), <1>0, <1>5, <2>1 DEF Complete, Chains, NsTree
    <3> QED BY ZenonT(40), <1>14, <3>1
  <2>2. ASSUME NEW q \in Procs, NEW t \in Procs, np'[q] = t, pc'[q] # "pids"
        PROVE  Chain(t, 0)'
    <3>1. /\ q # p /\ np[q] = t /\ pc[q] # "pids" /\ state[t] = "USED"
      BY ZenonT(40), <1>0, <1>1, <1>4, <1>5, <2>2 DEF TypeOK, Building, Builder
    <3>2. Chain(t, 0) /\ ns[t] # Null
      BY ZenonT(40), <1>0, <3>1 DEF Chains, NsTree
    <3> QED BY ZenonT(40), <1>14, <3>2
  <2>3. ASSUME NEW q \in Procs, NEW t \in Procs, NEW k \in Levels,
               NEW c \in NsPtr, pc'[q] = "pids", np'[q] = t, lev'[q] = k,
               curr_ns'[q] = c
        PROVE  Climbing(t, k, c)'
    <3>1. /\ pc[q] = "pids" /\ np[q] = t /\ lev[q] = k /\ curr_ns[q] = c
          /\ state[t] = "USED"
      BY ZenonT(40), <1>0, <1>4, <1>5, <2>3 DEF TypeOK, Building, Builder
    <3>2. Climbing(t, k, c) /\ ns[t] \in Namespaces /\ used[ns[t]]
      BY SMTT(40), <1>0, <3>1 DEF Chains, NsTree, TypeOK
    <3>3. Chain(t, k + 1)'
      BY ZenonT(40), <1>14, <3>2 DEF Climbing
    <3>4. c \in Namespaces /\ used[c]
      BY ZenonT(40), <3>2 DEF Climbing
    <3>5. ASSUME k # depth[ns[t]]
          PROVE  nsparent'[issuer[t][k + 1]] = nsparent[issuer[t][k + 1]]
      <4>1. k + 1 \in Levels /\ k + 1 <= depth[ns[t]]
        <5>1. PICK d \in Levels : d = depth[ns[t]]
          BY ZenonT(40), <1>0, <3>2 DEF TypeOK
        <5>2. k <= d /\ k # d
          BY ZenonT(40), <3>2, <3>5, <5>1 DEF Climbing
        <5>3. k + 1 \in Levels /\ k + 1 <= d
          BY <5>2, SizesAssumption DEF Levels
        <5> QED BY ZenonT(40), <5>1, <5>3
      <4>2. k + 1 <= k + 1
        BY DEF Levels
      <4>3. issuer[t][k + 1] # Null
        BY ZenonT(40), <3>2, <4>1, <4>2 DEF Climbing, Chain
      <4>4. issuer[t][k + 1] \in Namespaces /\ used[issuer[t][k + 1]]
        BY <1>0, <4>1, <4>3 DEF Issued, TypeOK
      <4> QED BY ZenonT(40), <1>11, <4>4
    <3> QED BY ZenonT(40), <1>5, <1>11, <3>2, <3>3, <3>4, <3>5 DEF Climbing
  <2> QED BY ZenonT(40), <2>1, <2>2, <2>3 DEF Chains
<1>16. Fresh'
  <2>1. ASSUME NEW q \in Procs, q # p, newns'[q] # Null PROVE FreshNs(q)'
    <3>1. /\ newns'[q] = newns[q] /\ newns[q] \in Namespaces /\ used[newns[q]]
          /\ FreshNs(q) /\ pc'[q] = pc[q]
      BY SMTT(40), <1>0, <1>4, <2>1 DEF NsTree, TypeOK, Fresh
    <3>2. ns[p] # newns[q] /\ newns'[p] # newns[q]
      BY ZenonT(40), <1>0, <1>1, <1>4, <3>1 DEF FreshNs, TypeOK
    <3>3. \A m \in Namespaces : nsparent'[m] # newns[q]
      BY ZenonT(40), <1>0, <1>4, <3>1, <3>2 DEF FreshNs, TypeOK
    <3>4. \A r \in Procs : newns'[r] = newns[q] => r = q
      BY ZenonT(40), <1>0, <1>4, <3>1, <3>2 DEF FreshNs, TypeOK
    <3>5. /\ np'[q] = np[q] /\ lev'[q] = lev[q] /\ pids' = pids /\ ns' = ns
          /\ depth'[newns[q]] = depth[newns[q]]
          /\ next_ns_pid'[newns[q]] = next_ns_pid[newns[q]]
          /\ head'[newns[q]] = head[newns[q]]
      BY ZenonT(40), <1>5, <1>11, <3>1
    <3> QED BY ZenonT(40), <3>1, <3>3, <3>4, <3>5 DEF FreshNs
  <2>2. ASSUME newns'[p] # Null PROVE FreshNs(p)'
    <3>1. newns'[p] = n /\ pc'[p] = "clone" /\ next_ns_pid'[n] = 1
      BY ZenonT(40), <1>0, <1>1, <1>4, <2>2 DEF TypeOK
    <3>2. \A m \in Namespaces : nsparent'[m] # n
      BY ZenonT(40), <1>0, <1>1, <1>4 DEF NsTree, TypeOK
    <3>3. \A r \in Procs : ns[r] # n /\ (newns'[r] = n => r = p)
      BY <1>0, <1>4 DEF NsTree, TypeOK
    <3> QED BY ZenonT(40), <1>5, <3>1, <3>2, <3>3 DEF FreshNs
  <2> QED BY ZenonT(40), <2>1, <2>2 DEF Fresh
<1>17. HeadSet'
  <2>1. ASSUME NEW t \in Procs, Complete(t)' \/ parent'[t] # Null
        PROVE  ns'[t] # Null /\ head'[ns'[t]] # Null
    <3>1. ns[t] \in Namespaces /\ used[ns[t]] /\ head[ns[t]] # Null
      BY <1>0, <1>5, <2>1 DEF HeadSet, Complete, NsTree, TypeOK
    <3> QED BY ZenonT(40), <1>5, <1>11, <3>1
  <2>2. ASSUME NEW q \in Procs, pc'[q] \in {"uvmcopy", "parent", "runnable"}
        PROVE  head'[ns'[np'[q]]] # Null
    <3>1. /\ pc[q] \in {"uvmcopy", "parent", "runnable"}
          /\ np[q] \in Procs /\ state[np[q]] = "USED"
      <4>1. pc[q] \in {"uvmcopy", "parent", "runnable"} /\ np[q] \in ProcPtr
        BY ZenonT(40), <1>0, <1>1, <1>4, <2>2 DEF TypeOK
      <4>2. pc[q] \in BuildPcs
        BY ZenonT(40), <4>1 DEF BuildPcs
      <4>3. np[q] # Null /\ state[np[q]] = "USED"
        BY ZenonT(40), <1>0, <4>2 DEF Building, Builder
      <4> QED BY ZenonT(40), <4>1, <4>3
    <3>2. /\ ns[np[q]] \in Namespaces /\ used[ns[np[q]]]
          /\ head[ns[np[q]]] # Null
      <4>1. ns[np[q]] \in NsPtr
        BY ZenonT(40), <1>0, <3>1 DEF TypeOK
      <4>2. ns[np[q]] # Null /\ used[ns[np[q]]]
        BY ZenonT(40), <1>0, <3>1 DEF NsTree
      <4>3. head[ns[np[q]]] # Null
        BY ZenonT(40), <1>0, <3>1 DEF HeadSet
      <4> QED BY ZenonT(40), <4>1, <4>2, <4>3
    <3> QED BY ZenonT(40), <1>5, <1>11, <3>2
  <2> QED BY ZenonT(40), <2>1, <2>2 DEF HeadSet
<1>18. Sleepers'
  BY <1>0, <1>4, <1>5 DEF Sleepers, Zombies, Children, TypeOK
<1> QED
  BY ZenonT(40), <1>7, <1>8, <1>9, <1>10, <1>12, <1>13, <1>15, <1>16, <1>17, <1>18 DEF IInv

(* One turn of the loop of allocproc() at level i, as a change of the      *)
(* entry s and of the namespace n.                                         *)
LEMMA AllocPidFacts ==
  ASSUME IInv, NEW p \in Procs, AllocPid(p)
  PROVE  \E s \in Procs, n \in Namespaces, i \in Levels :
           /\ np[p] = s /\ curr_ns[p] = n /\ lev[p] = i /\ pc[p] = "pids"
           /\ state[s] = "USED"
           /\ \A q \in Procs : np[q] = s => q = p
           /\ Climbing(s, i, n)
           /\ pids' = [pids EXCEPT ![s][i] = next_ns_pid[n]]
           /\ issuer' = [issuer EXCEPT ![s][i] = n]
           /\ next_ns_pid' = [next_ns_pid EXCEPT ![n] = @ + 1]
           /\ curr_ns' = [curr_ns EXCEPT ![p] = nsparent[n]]
           /\ i = 0 => pc' = [pc EXCEPT ![p] = "trapframe"] /\ lev' = lev
           /\ i # 0 => pc' = pc /\ lev' = [lev EXCEPT ![p] = i - 1]
<1> USE NullNotEntry DEF ProcPtr, NsPtr
<1>0. /\ TypeOK /\ PcState /\ Building /\ WaitLock /\ NsTree
      /\ Issued /\ Chains /\ Fresh /\ HeadSet /\ Sleepers
  BY ZenonT(40) DEF IInv
<1>1. pc[p] = "pids"
  BY ZenonT(40) DEF AllocPid
<1>2. PICK s \in Procs : np[p] = s
  BY <1>0, <1>1 DEF Building, Builder, BuildPcs, TypeOK
<1>3. state[s] = "USED" /\ \A q \in Procs : np[q] = s => q = p
  BY ZenonT(40), <1>0, <1>2 DEF Building, Builder
<1>4. PICK i \in Levels : lev[p] = i
  BY ZenonT(40), <1>0 DEF TypeOK
<1>5. PICK n \in NsPtr : curr_ns[p] = n
  BY ZenonT(40), <1>0 DEF TypeOK
<1>6. Climbing(s, i, n)
  BY ZenonT(40), <1>0, <1>1, <1>2, <1>4, <1>5 DEF Chains
<1>7. n \in Namespaces
  BY ZenonT(40), <1>6 DEF Climbing
<1>8. /\ pids' = [pids EXCEPT ![s][i] = next_ns_pid[n]]
      /\ issuer' = [issuer EXCEPT ![s][i] = n]
      /\ next_ns_pid' = [next_ns_pid EXCEPT ![n] = @ + 1]
      /\ curr_ns' = [curr_ns EXCEPT ![p] = nsparent[n]]
      /\ i = 0 => pc' = [pc EXCEPT ![p] = "trapframe"] /\ lev' = lev
      /\ i # 0 => pc' = pc /\ lev' = [lev EXCEPT ![p] = i - 1]
  BY ZenonT(40), <1>2, <1>4, <1>5 DEF AllocPid, Issue, NextUp, Goto
<1> QED BY ZenonT(40), <1>1, <1>2, <1>3, <1>4, <1>5, <1>6, <1>7, <1>8

(* One turn of the loop over the levels keeps the invariant. *)
LEMMA AllocPidStep ==
  ASSUME IInv, NEW p \in Procs, AllocPid(p)
  PROVE  IInv'
<1> USE NullNotEntry DEF ProcPtr, NsPtr
<1>0. /\ TypeOK /\ PcState /\ Building /\ WaitLock /\ NsTree
      /\ Issued /\ Chains /\ Fresh /\ HeadSet /\ Sleepers
  BY ZenonT(40) DEF IInv
<1>1. PICK s \in Procs, n \in Namespaces, i \in Levels :
           /\ np[p] = s /\ curr_ns[p] = n /\ lev[p] = i /\ pc[p] = "pids"
           /\ state[s] = "USED"
           /\ \A q \in Procs : np[q] = s => q = p
           /\ Climbing(s, i, n)
           /\ pids' = [pids EXCEPT ![s][i] = next_ns_pid[n]]
           /\ issuer' = [issuer EXCEPT ![s][i] = n]
           /\ next_ns_pid' = [next_ns_pid EXCEPT ![n] = @ + 1]
           /\ curr_ns' = [curr_ns EXCEPT ![p] = nsparent[n]]
           /\ i = 0 => pc' = [pc EXCEPT ![p] = "trapframe"] /\ lev' = lev
           /\ i # 0 => pc' = pc /\ lev' = [lev EXCEPT ![p] = i - 1]
  BY ZenonT(40), AllocPidFacts
<1>2. UNCHANGED <<state, pid, parent, ns, killed, chan, lock, used, nsparent,
                  head, depth, nextpid, wait_lock, np, newns, look>>
  BY ZenonT(40) DEF AllocPid
<1>3. /\ \A t \in Procs : t # s => pids'[t] = pids[t] /\ issuer'[t] = issuer[t]
      /\ \A j \in Levels : j # i =>
           pids'[s][j] = pids[s][j] /\ issuer'[s][j] = issuer[s][j]
      /\ pids'[s][i] = next_ns_pid[n] /\ issuer'[s][i] = n
  BY <1>0, <1>1 DEF TypeOK
<1>4. /\ next_ns_pid[n] \in Nat /\ next_ns_pid[n] > 0
      /\ next_ns_pid'[n] = next_ns_pid[n] + 1
      /\ \A m \in Namespaces : m # n => next_ns_pid'[m] = next_ns_pid[m]
  BY ZenonT(40), <1>0, <1>1 DEF TypeOK, NsTree
<1>5. used[n] /\ depth[n] = i /\ Chain(s, i + 1) /\ i <= depth[ns[s]]
  BY ZenonT(40), <1>1 DEF Climbing
<1>6. /\ ns[s] \in Namespaces /\ depth[ns[s]] \in Levels
  <2>1. ns[s] \in NsPtr /\ depth \in [Namespaces -> Levels]
    BY ZenonT(40), <1>0, <1>1 DEF TypeOK
  <2>2. ns[s] # Null
    BY ZenonT(40), <1>0, <1>1 DEF NsTree
  <2> QED BY ZenonT(40), <2>1, <2>2
<1>7. /\ i # 0 => i - 1 \in Levels /\ (i - 1) + 1 = i /\ i - 1 < i
      /\ i \in Nat /\ depth[ns[s]] \in Nat
  BY <1>6, SizesAssumption DEF Levels
<1>8. /\ \A q \in Procs : q # p => pc'[q] = pc[q] /\ lev'[q] = lev[q]
                                   /\ curr_ns'[q] = curr_ns[q]
      /\ pc'[p] = IF i = 0 THEN "trapframe" ELSE "pids"
      /\ i # 0 => lev'[p] = i - 1
      /\ curr_ns'[p] = nsparent[n]
  BY SMTT(40), <1>0, <1>1 DEF TypeOK
<1>9. TypeOK'
  <2>1. pids' \in [Procs -> [Levels -> Nat]]
    BY ZenonT(40), <1>0, <1>1, <1>4 DEF TypeOK
  <2>2. issuer' \in [Procs -> [Levels -> NsPtr]]
    BY ZenonT(40), <1>0, <1>1 DEF TypeOK
  <2>3. next_ns_pid' \in [Namespaces -> Nat]
    BY <1>0, <1>1, <1>4 DEF TypeOK
  <2>4. curr_ns' \in [Procs -> NsPtr]
    BY ZenonT(40), <1>0, <1>1 DEF TypeOK
  <2>5. pc' \in [Procs -> Pcs]
    <3>1. pc \in [Procs -> Pcs] /\ "trapframe" \in Pcs
      BY ZenonT(40), <1>0 DEF TypeOK, Pcs
    <3>2. pc' = [pc EXCEPT ![p] = "trapframe"] \/ pc' = pc
      BY ZenonT(40), <1>1
    <3> QED BY ZenonT(40), <3>1, <3>2
  <2>6. lev' \in [Procs -> Levels]
    <3>1. lev \in [Procs -> Levels]
      BY ZenonT(40), <1>0 DEF TypeOK
    <3>2. lev' = lev \/ (lev' = [lev EXCEPT ![p] = i - 1] /\ i - 1 \in Levels)
      BY ZenonT(40), <1>1, <1>7
    <3> QED BY ZenonT(40), <3>1, <3>2
  <2> QED BY ZenonT(40), <1>0, <1>2, <2>1, <2>2, <2>3, <2>4, <2>5, <2>6 DEF TypeOK
<1>10. PcState'
  BY ZenonT(40), <1>0, <1>1, <1>2, <1>8 DEF PcState
<1>11. Building'
  <2> SUFFICES ASSUME NEW q \in Procs PROVE Builder(q)'
    BY ZenonT(40) DEF Building
  <2>1. pc'[q] = pc[q] \/ (pc[q] = "pids" /\ pc'[q] = "trapframe")
    BY ZenonT(40), <1>0, <1>1, <1>8 DEF TypeOK
  <2>2. /\ pc'[q] \in BuildPcs <=> pc[q] \in BuildPcs
        /\ pc'[q] = "runnable" <=> pc[q] = "runnable"
        /\ pc'[q] = "clone" <=> pc[q] = "clone"
    BY ZenonT(40), <2>1 DEF BuildPcs
  <2>3. Builder(q)
    BY ZenonT(40), <1>0 DEF Building
  <2> QED BY ZenonT(40), <1>2, <2>2, <2>3 DEF Builder
<1>12. WaitLock'
  BY ZenonT(40), <1>0, <1>1, <1>2, <1>8 DEF WaitLock
<1>13. NsTree'
  <2>1. \A m \in Namespaces : next_ns_pid'[m] > 0
    <3>1. \A m \in Namespaces : next_ns_pid[m] > 0
      BY ZenonT(40), <1>0 DEF NsTree
    <3> QED BY <1>4, <3>1
  <2> QED BY ZenonT(40), <1>0, <1>2, <2>1 DEF NsTree
<1>14. ASSUME NEW t \in Procs, NEW j \in Levels, issuer[t][j] # Null
       PROVE  /\ issuer[t][j] \in Namespaces /\ used[issuer[t][j]]
              /\ pids[t][j] \in Nat /\ pids[t][j] > 0
              /\ next_ns_pid[issuer[t][j]] \in Nat
              /\ pids[t][j] < next_ns_pid[issuer[t][j]]
  BY <1>0, <1>14 DEF Issued, TypeOK
<1>15. PidsUnique'
  <2>1. ASSUME NEW t \in Procs, NEW j \in Levels, issuer'[t][j] # Null
        PROVE  pids'[t][j] > 0
    <3>1. CASE t = s /\ j = i
      BY ZenonT(40), <1>3, <1>4, <3>1
    <3>2. CASE ~(t = s /\ j = i)
      <4>1. pids'[t][j] = pids[t][j] /\ issuer'[t][j] = issuer[t][j]
        BY ZenonT(40), <1>3, <3>2
      <4> QED BY ZenonT(40), <1>14, <2>1, <4>1
    <3> QED BY ZenonT(40), <3>1, <3>2
  <2>2. ASSUME NEW t \in Procs, t # s, issuer[t][i] = n
        PROVE  pids[t][i] # next_ns_pid[n]
    <3>1. n # Null
      BY ZenonT(40)
    <3>2. /\ pids[t][i] \in Nat /\ next_ns_pid[n] \in Nat
          /\ pids[t][i] < next_ns_pid[n]
      BY ZenonT(40), <1>14, <2>2, <3>1
    <3> QED BY ZenonT(40), <3>2, BelowCounter
  <2>3. ASSUME NEW t \in Procs, NEW u \in Procs, NEW j \in Levels, t # u,
               issuer'[t][j] = issuer'[u][j], issuer'[t][j] # Null
        PROVE  pids'[t][j] # pids'[u][j]
    <3>1. CASE t = s /\ j = i
      BY ZenonT(40), <1>3, <2>2, <2>3, <3>1
    <3>2. CASE u = s /\ j = i
      BY ZenonT(40), <1>3, <2>2, <2>3, <3>2
    <3>3. CASE ~(t = s /\ j = i) /\ ~(u = s /\ j = i)
      <4>1. /\ pids'[t][j] = pids[t][j] /\ issuer'[t][j] = issuer[t][j]
            /\ pids'[u][j] = pids[u][j] /\ issuer'[u][j] = issuer[u][j]
        BY ZenonT(40), <1>3, <3>3
      <4>2. issuer[t][j] = issuer[u][j] /\ issuer[t][j] # Null /\ t # u
        BY ZenonT(40), <2>3, <4>1
      <4>3. pids[t][j] # pids[u][j]
        BY ZenonT(40), <1>0, <4>2 DEF Issued, PidsUnique
      <4> QED BY ZenonT(40), <4>1, <4>3
    <3> QED BY ZenonT(40), <3>1, <3>2, <3>3
  <2> QED BY ZenonT(40), <2>1, <2>3 DEF PidsUnique
<1>16. Issued'
  <2>1. ASSUME NEW t \in Procs, NEW j \in Levels, issuer'[t][j] # Null
        PROVE  /\ used'[issuer'[t][j]] /\ pids'[t][j] > 0
               /\ pids'[t][j] < next_ns_pid'[issuer'[t][j]]
    <3>1. CASE t = s /\ j = i
      BY ZenonT(40), <1>2, <1>3, <1>4, <1>5, <3>1, NextCounter
    <3>2. CASE ~(t = s /\ j = i)
      <4>1. pids'[t][j] = pids[t][j] /\ issuer'[t][j] = issuer[t][j]
        BY ZenonT(40), <1>3, <3>2
      <4>2. issuer[t][j] # Null
        BY ZenonT(40), <2>1, <4>1
      <4>3. /\ issuer[t][j] \in Namespaces /\ used[issuer[t][j]]
            /\ pids[t][j] \in Nat /\ pids[t][j] > 0
            /\ next_ns_pid[issuer[t][j]] \in Nat
            /\ pids[t][j] < next_ns_pid[issuer[t][j]]
        BY ZenonT(40), <1>14, <4>2
      <4>4. pids[t][j] < next_ns_pid'[issuer[t][j]]
        <5>1. CASE issuer[t][j] = n
          <6>1. /\ pids[t][j] \in Nat /\ next_ns_pid[n] \in Nat
                /\ pids[t][j] < next_ns_pid[n]
            BY ZenonT(40), <4>3, <5>1
          <6>2. pids[t][j] < next_ns_pid[n] + 1
            BY ZenonT(40), <6>1, BelowCounter
          <6> QED BY ZenonT(40), <1>4, <5>1, <6>2
        <5>2. CASE issuer[t][j] # n
          BY ZenonT(40), <1>4, <4>3, <5>2
        <5> QED BY ZenonT(40), <5>1, <5>2
      <4> QED BY ZenonT(40), <1>2, <4>1, <4>3, <4>4
    <3> QED BY ZenonT(40), <3>1, <3>2
  <2> QED BY ZenonT(40), <1>15, <2>1 DEF Issued
<1>17. Chain(s, i)'
  <2>1. \A j \in Levels : j # i => issuer'[s][j] = issuer[s][j]
    BY ZenonT(40), <1>3
  <2>2. UNCHANGED <<ns, depth, nsparent>> /\ issuer'[s][i] = n /\ n # Null
    BY ZenonT(40), <1>2, <1>3
  <2>3. Climbing(s, i, n) /\ depth[ns[s]] \in Levels
    BY ZenonT(40), <1>1, <1>6
  <2> QED BY ZenonT(40), <2>1, <2>2, <2>3, ChainExtend
<1>18. ASSUME i # 0 PROVE Climbing(s, i - 1, nsparent[n])'
  <2>1. /\ nsparent[n] # Null /\ used[nsparent[n]]
        /\ depth[nsparent[n]] = i - 1
    <3>1. used[n] /\ depth[n] > 0 =>
            /\ nsparent[n] # Null /\ used[nsparent[n]]
            /\ depth[nsparent[n]] = depth[n] - 1
      BY ZenonT(40), <1>0 DEF NsTree
    <3>2. i > 0
      BY ZenonT(40), <1>5, <1>7, <1>18, AboveRoot
    <3> QED BY ZenonT(40), <1>5, <3>1, <3>2
  <2>2. /\ i - 1 <= depth[ns[s]] /\ i - 1 # depth[ns[s]] /\ (i - 1) + 1 = i
    BY ZenonT(40), <1>5, <1>7, <1>18, AboveRoot
  <2>3. Chain(s, (i - 1) + 1)'
    BY ZenonT(40), <1>17, <2>2
  <2>4. nsparent[issuer'[s][(i - 1) + 1]] = nsparent[n]
    BY ZenonT(40), <1>3, <2>2
  <2> QED BY ZenonT(40), <1>2, <2>1, <2>2, <2>3, <2>4 DEF Climbing
<1>19. Chains'
  <2>1. ASSUME NEW t \in Procs, Complete(t)' PROVE Chain(t, 0)'
    <3>1. t # s /\ Complete(t)
      BY ZenonT(40), <1>1, <1>2, <2>1 DEF Complete
    <3> QED BY ZenonT(40), <1>0, <1>2, <1>3, <3>1, ChainFrame DEF Chains
  <2>2. ASSUME NEW q \in Procs, NEW t \in Procs, np'[q] = t, pc'[q] # "pids"
        PROVE  Chain(t, 0)'
    <3>1. CASE q = p
      BY ZenonT(40), <1>1, <1>2, <1>8, <1>17, <2>2, <3>1
    <3>2. CASE q # p
      <4>1. np[q] = t /\ pc[q] # "pids" /\ t # s
        BY ZenonT(40), <1>1, <1>2, <1>8, <2>2, <3>2
      <4> QED BY ZenonT(40), <1>0, <1>2, <1>3, <4>1, ChainFrame DEF Chains
    <3> QED BY ZenonT(40), <3>1, <3>2
  <2>3. ASSUME NEW q \in Procs, NEW t \in Procs, NEW k \in Levels,
               NEW c \in NsPtr, pc'[q] = "pids", np'[q] = t, lev'[q] = k,
               curr_ns'[q] = c
        PROVE  Climbing(t, k, c)'
    <3>1. CASE q = p
      <4>1. t = s /\ i # 0 /\ k = i - 1 /\ c = nsparent[n]
        BY ZenonT(40), <1>1, <1>2, <1>8, <2>3, <3>1
      <4>2. Climbing(s, i - 1, nsparent[n])'
        BY ZenonT(40), <1>18, <4>1
      <4>3. \A d : d = nsparent[n] => (Climbing(s, i - 1, d)' <=>
                                       Climbing(s, i - 1, nsparent[n])')
        BY ZenonT(40), <1>2 DEF Climbing
      <4> QED BY ZenonT(40), <4>1, <4>2, <4>3
    <3>2. CASE q # p
      <4>1. /\ pc[q] = "pids" /\ np[q] = t /\ lev[q] = k /\ curr_ns[q] = c
            /\ t # s
        BY ZenonT(40), <1>1, <1>2, <1>8, <2>3, <3>2
      <4> QED BY ZenonT(40), <1>0, <1>2, <1>3, <4>1, ClimbingFrame DEF Chains
    <3> QED BY ZenonT(40), <3>1, <3>2
  <2> QED BY ZenonT(40), <2>1, <2>2, <2>3 DEF Chains
<1>20. Fresh'
  <2>1. ASSUME NEW q \in Procs, q # p, newns[q] # Null PROVE FreshNs(q)'
    <3>1. FreshNs(q) /\ newns[q] \in Namespaces /\ np[q] # s
      BY ZenonT(40), <1>0, <1>1, <2>1 DEF Fresh, TypeOK
    <3>2. n # newns[q]
      <4>1. CASE i = depth[ns[s]]
        BY ZenonT(40), <1>1, <3>1, <4>1 DEF Climbing, FreshNs
      <4>2. CASE i # depth[ns[s]]
        <5>1. i + 1 \in Levels /\ i + 1 <= depth[ns[s]] /\ i + 1 <= i + 1
          BY SMTT(40), <1>5, <1>6, <1>7, <4>2, SizesAssumption DEF Levels
        <5>2. issuer[s][i + 1] \in Namespaces
          BY ZenonT(40), <1>5, <1>14, <5>1 DEF Chain
        <5>3. n = nsparent[issuer[s][i + 1]]
          BY ZenonT(40), <1>1, <4>2 DEF Climbing
        <5> QED BY ZenonT(40), <3>1, <5>2, <5>3 DEF FreshNs
      <4> QED BY ZenonT(40), <4>1, <4>2
    <3>3. /\ next_ns_pid'[newns[q]] = next_ns_pid[newns[q]]
          /\ pc'[q] = pc[q] /\ lev'[q] = lev[q]
      BY ZenonT(40), <1>4, <1>8, <2>1, <3>1, <3>2
    <3>4. pc[q] # "clone" => np[q] \in Procs
      BY ZenonT(40), <1>0, <2>1 DEF Building, Builder, TypeOK
    <3>5. pc[q] # "clone" => pids'[np[q]] = pids[np[q]]
      BY ZenonT(40), <1>3, <3>1, <3>4
    <3> QED BY ZenonT(40), <1>2, <3>1, <3>3, <3>5 DEF FreshNs
  <2>2. ASSUME newns[p] # Null PROVE FreshNs(p)'
    <3>1. FreshNs(p) /\ newns[p] \in Namespaces /\ ns[s] = newns[p]
      BY ZenonT(40), <1>0, <1>1, <2>2 DEF Fresh, TypeOK, Building, Builder
    <3>2. pids'[s][depth[newns[p]]] = 1
      <4>1. CASE i = depth[newns[p]]
        <5>1. n = newns[p]
          BY ZenonT(40), <1>1, <3>1, <4>1 DEF Climbing
        <5>2. next_ns_pid[newns[p]] = 1
          BY ZenonT(40), <1>1, <3>1, <4>1 DEF FreshNs
        <5> QED BY ZenonT(40), <1>3, <4>1, <5>1, <5>2
      <4>2. CASE i # depth[newns[p]]
        <5>1. pids[s][depth[newns[p]]] = 1
          BY ZenonT(40), <1>1, <3>1, <4>2 DEF FreshNs
        <5> QED BY ZenonT(40), <1>3, <1>6, <3>1, <4>2, <5>1
      <4> QED BY ZenonT(40), <4>1, <4>2
    <3>3. ~(pc'[p] = "clone" \/ (pc'[p] = "pids" /\ lev'[p] = depth[newns[p]]))
      BY <1>5, <1>7, <1>8, <3>1
    <3>4. pc'[p] \notin {"uvmcopy", "parent", "runnable"}
      BY ZenonT(40), <1>8
    <3> QED BY ZenonT(40), <1>1, <1>2, <3>1, <3>2, <3>3, <3>4 DEF FreshNs
  <2> QED BY ZenonT(40), <1>2, <2>1, <2>2 DEF Fresh
<1>21. HeadSet'
  BY ZenonT(40), <1>0, <1>1, <1>2, <1>8 DEF HeadSet, Complete
<1>22. Sleepers'
  BY <1>0, <1>1, <1>2, <1>8 DEF Sleepers, Zombies, Children
<1> QED
  BY ZenonT(40), <1>9, <1>10, <1>11, <1>12, <1>13, <1>16, <1>19, <1>20, <1>21, <1>22
  DEF IInv

-----------------------------------------------------------------------------
(* Every step, and the theorems *)

(* A failed fork() or clone() gives its entry back. *)
LEMMA AllocFailsStep ==
  ASSUME IInv, NEW p \in Procs, AllocFails(p)
  PROVE  IInv'
<1> USE NullNotEntry DEF ProcPtr, NsPtr
<1>0. /\ TypeOK /\ PcState /\ Building /\ WaitLock /\ NsTree
      /\ Issued /\ Chains /\ Fresh /\ HeadSet /\ Sleepers
  BY ZenonT(40) DEF IInv
<1>1. PICK s \in Procs : np[p] = s
  BY <1>0 DEF AllocFails, TypeOK, Building, Builder, BuildPcs
<1>2. /\ pc[p] \in {"trapframe", "uvmcopy"}
      /\ state[s] = "USED" /\ parent[s] = Null /\ s # p
      /\ \A q \in Procs : np[q] = s => q = p
  BY ZenonT(40), <1>0, <1>1 DEF AllocFails, Building, Builder, PcState
<1>3. /\ state' = [state EXCEPT ![s] = "UNUSED"]
      /\ parent' = [parent EXCEPT ![s] = Null]
      /\ chan' = [chan EXCEPT ![s] = Null]
      /\ ns' = [ns EXCEPT ![s] = Null]
      /\ pids' = [pids EXCEPT ![s] = NoPids]
      /\ issuer' = [issuer EXCEPT ![s] = NoPids]
      /\ np' = [np EXCEPT ![p] = Null]
      /\ newns' = [newns EXCEPT ![p] = Null]
      /\ pc' = [pc EXCEPT ![p] = "user"]
      /\ UNCHANGED <<used, nsparent, head, depth, next_ns_pid, wait_lock, lev,
                     curr_ns>>
  BY ZenonT(40), <1>1 DEF AllocFails, freeproc, Goto, nsVars
<1>4. TypeOK'
  BY ZenonT(40), <1>0
  DEF TypeOK, AllocFails, freeproc, NoPids, Null, Goto, Pcs, ProcStates,
              nsVars
<1>5. PcState'
  BY ZenonT(40), <1>0, <1>2, <1>3 DEF PcState, TypeOK
<1>6. Building'
  <2> SUFFICES ASSUME NEW q \in Procs PROVE Builder(q)'
    BY ZenonT(40) DEF Building
  <2>1. CASE q = p
    BY ZenonT(40), <1>0, <1>3, <2>1 DEF Builder, TypeOK, BuildPcs
  <2>2. CASE q # p
    <3>1. /\ pc'[q] = pc[q] /\ np'[q] = np[q] /\ newns'[q] = newns[q]
          /\ np[q] # s /\ Builder(q)
      BY ZenonT(40), <1>0, <1>2, <1>3, <2>2 DEF Building, TypeOK
    <3>2. ASSUME np[q] # Null
          PROVE  /\ q # s /\ np[q] \in Procs /\ ns'[q] = ns[q]
                 /\ UNCHANGED <<state[np[q]], parent[np[q]], ns[np[q]]>>
      BY SMTT(40), <1>0, <1>2, <1>3, <3>1, <3>2
      DEF Builder, PcState, TypeOK, BuildPcs
    <3> QED BY ZenonT(40), <1>0, <1>3, <2>2, <3>1, <3>2 DEF Builder, TypeOK
  <2> QED BY ZenonT(40), <2>1, <2>2
<1>7. WaitLock'
  BY ZenonT(40), <1>0, <1>2, <1>3 DEF WaitLock, TypeOK
<1>8. NsTree'
  BY ZenonT(40), <1>0, <1>3 DEF NsTree, TypeOK
<1>9. Issued'
  <2>1. \A t \in Procs, i \in Levels :
          issuer'[t][i] # Null =>
            t # s /\ issuer'[t][i] = issuer[t][i] /\ pids'[t][i] = pids[t][i]
    BY ZenonT(40), <1>0, <1>3 DEF TypeOK, NoPids, Null
  <2> QED BY SMTT(40), <1>0, <1>3, <2>1 DEF Issued, PidsUnique
<1>10. Chains'
  <2>1. ASSUME NEW t \in Procs, Complete(t)' PROVE Chain(t, 0)'
    <3>1. t # s /\ Complete(t)
      BY ZenonT(40), <1>0, <1>3, <2>1 DEF Complete, TypeOK
    <3> QED BY ZenonT(40), <1>0, <1>3, <3>1, ChainFrame DEF Chains, TypeOK
  <2>2. ASSUME NEW q \in Procs, NEW t \in Procs, np'[q] = t, pc'[q] # "pids"
        PROVE  Chain(t, 0)'
    <3>1. q # p /\ t # s /\ np[q] = t /\ pc[q] # "pids"
      BY ZenonT(40), <1>0, <1>2, <1>3, <2>2 DEF TypeOK
    <3> QED BY ZenonT(40), <1>0, <1>3, <3>1, ChainFrame DEF Chains, TypeOK
  <2>3. ASSUME NEW q \in Procs, NEW t \in Procs, NEW k \in Levels,
               NEW c \in NsPtr, pc'[q] = "pids", np'[q] = t, lev'[q] = k,
               curr_ns'[q] = c
        PROVE  Climbing(t, k, c)'
    <3>1. /\ pc[q] = "pids" /\ np[q] = t /\ lev[q] = k /\ curr_ns[q] = c
          /\ t # s /\ ns'[t] = ns[t] /\ issuer'[t] = issuer[t]
      BY ZenonT(40), <1>0, <1>2, <1>3, <2>3 DEF TypeOK
    <3> QED BY ZenonT(40), <1>0, <1>3, <3>1, ClimbingFrame DEF Chains
  <2> QED BY ZenonT(40), <2>1, <2>2, <2>3 DEF Chains
<1>11. Fresh'
  <2>1. ASSUME NEW q \in Procs, newns'[q] # Null PROVE FreshNs(q)'
    <3>1. /\ q # p /\ newns[q] # Null /\ newns'[q] = newns[q] /\ np'[q] = np[q]
          /\ pc'[q] = pc[q] /\ lev'[q] = lev[q] /\ np[q] # s
          /\ FreshNs(q)
      BY ZenonT(40), <1>0, <1>2, <1>3, <2>1 DEF TypeOK, Fresh
    <3>2. pc[q] # "clone" => pids'[np[q]] = pids[np[q]]
      BY <1>0, <1>3, <3>1 DEF Building, Builder, TypeOK
    <3> QED BY SMTT(40), <1>0, <1>1, <1>2, <1>3, <3>1, <3>2 DEF FreshNs, TypeOK
  <2> QED BY ZenonT(40), <2>1 DEF Fresh
<1>12. HeadSet'
  <2>1. ASSUME NEW t \in Procs, Complete(t)' \/ parent'[t] # Null
        PROVE  ns'[t] # Null /\ head'[ns'[t]] # Null
    <3>1. t # s /\ (Complete(t) \/ parent[t] # Null)
      BY ZenonT(40), <1>0, <1>3, <2>1 DEF TypeOK, Complete
    <3> QED BY ZenonT(40), <1>0, <1>3, <3>1 DEF HeadSet, TypeOK
  <2>2. ASSUME NEW q \in Procs, pc'[q] \in {"uvmcopy", "parent", "runnable"}
        PROVE  head'[ns'[np'[q]]] # Null
    <3>1. /\ pc[q] \in {"uvmcopy", "parent", "runnable"} /\ np'[q] = np[q]
          /\ np[q] # s /\ np[q] \in Procs
      <4>1. pc[q] \in {"uvmcopy", "parent", "runnable"} /\ np[q] \in ProcPtr
        BY ZenonT(40), <1>0, <1>3, <2>2 DEF TypeOK
      <4>2. q # p /\ pc[q] \in BuildPcs /\ np'[q] = np[q]
        BY ZenonT(40), <1>0, <1>3, <2>2, <4>1 DEF TypeOK, BuildPcs
      <4>3. np[q] # Null /\ np[q] # s
        BY ZenonT(40), <1>0, <1>2, <4>2 DEF Building, Builder
      <4> QED BY ZenonT(40), <4>1, <4>2, <4>3
    <3> QED BY ZenonT(40), <1>0, <1>3, <3>1 DEF HeadSet, TypeOK
  <2> QED BY ZenonT(40), <2>1, <2>2 DEF HeadSet
<1>13. Sleepers'
  BY <1>0, <1>2, <1>3 DEF Sleepers, Zombies, Children, TypeOK
<1> QED
  BY ZenonT(40), <1>4, <1>5, <1>6, <1>7, <1>8, <1>9, <1>10, <1>11, <1>12, <1>13
     DEF IInv

(* wait() frees an exited child. *)
LEMMA ReapStep ==
  ASSUME IInv, NEW p \in Procs, Reap(p)
  PROVE  IInv'
<1> USE NullNotEntry DEF ProcPtr, NsPtr
<1>0. /\ TypeOK /\ PcState /\ Building /\ WaitLock /\ NsTree
      /\ Issued /\ Chains /\ Fresh /\ HeadSet /\ Sleepers
  BY ZenonT(40) DEF IInv
<1>1. PICK z \in Procs :
        /\ parent[z] = p /\ state[z] = "ZOMBIE"
        /\ freeproc(z)
        /\ pc' = [pc EXCEPT ![p] = "user", ![z] = "none"]
  BY ZenonT(40) DEF Reap, Zombies, Children
<1>2. /\ pc[p] = "scan" /\ pc[z] = "dead" /\ z # p
      /\ wait_lock = p /\ wait_lock' = Null
      /\ \A q \in Procs : np[q] # z /\ (newns[q] # Null => q # z /\ q # p)
  BY ZenonT(40), <1>0, <1>1 DEF Reap, PcState, WaitLock, Building, Builder, BuildPcs
<1>3. /\ state' = [state EXCEPT ![z] = "UNUSED"]
      /\ parent' = [parent EXCEPT ![z] = Null]
      /\ chan' = [chan EXCEPT ![z] = Null]
      /\ ns' = [ns EXCEPT ![z] = Null]
      /\ pids' = [pids EXCEPT ![z] = NoPids]
      /\ issuer' = [issuer EXCEPT ![z] = NoPids]
      /\ UNCHANGED <<used, nsparent, head, depth, next_ns_pid, np, newns, lev,
                     curr_ns>>
  BY ZenonT(40), <1>1 DEF Reap, freeproc, nsVars, localVars
<1>4. TypeOK'
  <2>1. lock' = lock /\ nextpid' = nextpid /\ look' = look
    BY ZenonT(40) DEF Reap, localVars
  <2>2. pid' \in [Procs -> Nat] /\ killed' \in [Procs -> BOOLEAN]
    BY ZenonT(40), <1>0, <1>1 DEF TypeOK, freeproc
  <2>3. NoPids \in [Levels -> Nat] /\ NoPids \in [Levels -> NsPtr]
    BY ZenonT(40) DEF NoPids, Null
  <2>4. pc' \in [Procs -> Pcs]
    BY ZenonT(40), <1>0, <1>1 DEF TypeOK, Pcs
  <2> QED BY ZenonT(40), <1>0, <1>2, <1>3, <2>1, <2>2, <2>3, <2>4
          DEF TypeOK, ProcStates
<1>5. PcState'
  BY ZenonT(40), <1>0, <1>1, <1>2, <1>3 DEF PcState, TypeOK
<1>6. Building'
  <2> SUFFICES ASSUME NEW q \in Procs PROVE Builder(q)'
    BY ZenonT(40) DEF Building
  <2>1. CASE q \in {p, z}
    BY ZenonT(40), <1>0, <1>1, <1>2, <1>3, <2>1
    DEF Building, Builder, TypeOK, BuildPcs
  <2>2. CASE q \notin {p, z}
    <3>1. pc'[q] = pc[q] /\ np[q] # z /\ Builder(q)
      BY ZenonT(40), <1>0, <1>1, <1>2, <1>3, <2>2 DEF Building, TypeOK
    <3>2. ASSUME np[q] # Null
          PROVE  /\ np[q] \in Procs /\ ns'[q] = ns[q]
                 /\ UNCHANGED <<state[np[q]], parent[np[q]], ns[np[q]]>>
      BY ZenonT(40), <1>0, <1>2, <1>3, <2>2, <3>1, <3>2 DEF TypeOK
    <3> QED BY ZenonT(40), <1>3, <3>1, <3>2 DEF Builder
  <2> QED BY ZenonT(40), <2>1, <2>2
<1>7. WaitLock'
  BY ZenonT(40), <1>0, <1>1, <1>2 DEF WaitLock, TypeOK
<1>8. NsTree'
  BY <1>0, <1>3 DEF NsTree, TypeOK
<1>9. Issued'
  <2>1. \A t \in Procs, i \in Levels :
          issuer'[t][i] # Null =>
            t # z /\ issuer'[t][i] = issuer[t][i] /\ pids'[t][i] = pids[t][i]
    BY ZenonT(40), <1>0, <1>3 DEF TypeOK, NoPids, Null
  <2> QED BY <1>0, <1>3, <2>1 DEF Issued, PidsUnique
<1>10. Chains'
  <2>1. ASSUME NEW t \in Procs, Complete(t)' PROVE Chain(t, 0)'
    <3>1. t # z /\ Complete(t)
      BY ZenonT(40), <1>0, <1>3, <2>1 DEF Complete, TypeOK
    <3> QED BY ZenonT(40), <1>0, <1>3, <3>1, ChainFrame DEF Chains, TypeOK
  <2>2. ASSUME NEW q \in Procs, NEW t \in Procs, np'[q] = t, pc'[q] # "pids"
        PROVE  Chain(t, 0)'
    <3>1. t # z /\ np[q] = t /\ pc[q] # "pids"
      BY ZenonT(40), <1>0, <1>1, <1>2, <1>3, <2>2
      DEF TypeOK, Building, Builder, BuildPcs
    <3> QED BY ZenonT(40), <1>0, <1>3, <3>1, ChainFrame DEF Chains, TypeOK
  <2>3. ASSUME NEW q \in Procs, NEW t \in Procs, NEW k \in Levels,
               NEW c \in NsPtr, pc'[q] = "pids", np'[q] = t, lev'[q] = k,
               curr_ns'[q] = c
        PROVE  Climbing(t, k, c)'
    <3>1. /\ pc[q] = "pids" /\ np[q] = t /\ lev[q] = k /\ curr_ns[q] = c
          /\ t # z /\ ns'[t] = ns[t] /\ issuer'[t] = issuer[t]
      BY ZenonT(40), <1>0, <1>1, <1>2, <1>3, <2>3 DEF TypeOK
    <3> QED BY ZenonT(40), <1>0, <1>3, <3>1, ClimbingFrame DEF Chains
  <2> QED BY ZenonT(40), <2>1, <2>2, <2>3 DEF Chains
<1>11. Fresh'
  <2>1. ASSUME NEW q \in Procs, newns'[q] # Null PROVE FreshNs(q)'
    <3>1. pc'[q] = pc[q] /\ np[q] # z /\ FreshNs(q)
      BY ZenonT(40), <1>0, <1>1, <1>2, <1>3, <2>1 DEF TypeOK, Fresh
    <3>2. pc[q] # "clone" => pids'[np[q]] = pids[np[q]]
      BY <1>0, <1>3, <2>1, <3>1 DEF Building, Builder, TypeOK
    <3> QED BY ZenonT(40), <1>0, <1>3, <2>1, <3>1, <3>2 DEF FreshNs, TypeOK
  <2> QED BY ZenonT(40), <2>1 DEF Fresh
<1>12. HeadSet'
  <2>1. ASSUME NEW t \in Procs, Complete(t)' \/ parent'[t] # Null
        PROVE  ns'[t] # Null /\ head'[ns'[t]] # Null
    <3>1. t # z /\ (Complete(t) \/ parent[t] # Null)
      BY ZenonT(40), <1>0, <1>3, <2>1 DEF TypeOK, Complete
    <3> QED BY ZenonT(40), <1>0, <1>3, <3>1 DEF HeadSet, TypeOK
  <2>2. ASSUME NEW q \in Procs, pc'[q] \in {"uvmcopy", "parent", "runnable"}
        PROVE  head'[ns'[np'[q]]] # Null
    <3>1. /\ pc[q] \in {"uvmcopy", "parent", "runnable"} /\ np'[q] = np[q]
          /\ np[q] # z /\ np[q] \in Procs
      BY <1>0, <1>1, <1>2, <1>3, <2>2 DEF TypeOK, Building, Builder, BuildPcs
    <3> QED BY ZenonT(40), <1>0, <1>3, <3>1 DEF HeadSet, TypeOK
  <2> QED BY ZenonT(40), <2>1, <2>2 DEF HeadSet
<1>13. Sleepers'
  <2> SUFFICES ASSUME NEW q \in Procs,
                      state'[q] = "SLEEPING" \/ pc'[q] = "sleep"
               PROVE  Zombies(q)' = {} /\ Children(q)' # {}
    BY ZenonT(40) DEF Sleepers
  <2>1. q # p /\ state[q] = "SLEEPING"
    BY ZenonT(40), <1>0, <1>1, <1>2, <1>3 DEF WaitLock, PcState, TypeOK
  <2>2. Zombies(q) = {} /\ Children(q) # {}
    BY ZenonT(40), <1>0, <2>1 DEF Sleepers
  <2> QED BY ZenonT(40), <1>0, <1>1, <1>3, <2>1, <2>2 DEF Zombies, Children, TypeOK
<1> QED
  BY ZenonT(40), <1>4, <1>5, <1>6, <1>7, <1>8, <1>9, <1>10, <1>11, <1>12, <1>13 DEF IInv

(* The child becomes runnable: its pids are complete. *)
LEMMA SetRunnableStep ==
  ASSUME IInv, NEW p \in Procs, SetRunnable(p)
  PROVE  IInv'
<1> USE NullNotEntry DEF ProcPtr, NsPtr
<1>0. /\ TypeOK /\ PcState /\ Building /\ WaitLock /\ NsTree
      /\ Issued /\ Chains /\ Fresh /\ HeadSet /\ Sleepers
  BY ZenonT(40) DEF IInv
<1>1. PICK s \in Procs : np[p] = s
  BY SMTT(40), <1>0 DEF SetRunnable, TypeOK, Building, Builder, BuildPcs
<1>2. /\ pc[p] = "runnable" /\ state[s] = "USED" /\ pc[s] = "none" /\ s # p
      /\ np[s] = Null /\ newns[s] = Null
      /\ \A q \in Procs : np[q] = s => q = p
  BY ZenonT(40), <1>0, <1>1 DEF SetRunnable, Building, Builder, BuildPcs, PcState
<1>3. /\ state' = [state EXCEPT ![s] = "RUNNABLE"]
      /\ pc' = [pc EXCEPT ![p] = "user", ![s] = "user"]
      /\ np' = [np EXCEPT ![p] = Null]
      /\ newns' = [newns EXCEPT ![p] = Null]
      /\ UNCHANGED <<parent, ns, pids, chan, issuer, used, nsparent, head, depth,
                     next_ns_pid, wait_lock, lev, curr_ns>>
  BY ZenonT(40), <1>1 DEF SetRunnable, nsVars
<1>4. TypeOK'
  BY ZenonT(40), <1>0 DEF TypeOK, SetRunnable, Pcs, ProcStates, nsVars
<1>5. PcState'
  BY ZenonT(40), <1>0, <1>2, <1>3 DEF PcState, TypeOK
<1>6. Building'
  <2> SUFFICES ASSUME NEW q \in Procs PROVE Builder(q)'
    BY ZenonT(40) DEF Building
  <2>1. CASE q \in {p, s}
    BY ZenonT(40), <1>0, <1>2, <1>3, <2>1 DEF Builder, TypeOK, BuildPcs
  <2>2. CASE q \notin {p, s}
    <3>1. /\ pc'[q] = pc[q] /\ np'[q] = np[q] /\ newns'[q] = newns[q]
          /\ np[q] # s /\ Builder(q)
      BY ZenonT(40), <1>0, <1>2, <1>3, <2>2 DEF Building, TypeOK
    <3>2. ASSUME np[q] # Null
          PROVE  np[q] \in Procs /\ state'[np[q]] = state[np[q]]
      BY ZenonT(40), <1>0, <1>3, <3>1, <3>2 DEF TypeOK
    <3> QED BY ZenonT(40), <1>0, <1>3, <2>2, <3>1, <3>2 DEF Builder, TypeOK
  <2> QED BY ZenonT(40), <2>1, <2>2
<1>7. WaitLock'
  BY ZenonT(40), <1>0, <1>2, <1>3 DEF WaitLock, TypeOK
<1>8. NsTree'
  BY <1>0, <1>2, <1>3 DEF NsTree, TypeOK
<1>9. Issued'
  BY ZenonT(40), <1>0, <1>3 DEF Issued, PidsUnique
<1>10. Chains'
  <2>1. ASSUME NEW t \in Procs, Complete(t)' PROVE Chain(t, 0)'
    <3>1. t = s \/ Complete(t)
      BY ZenonT(40), <1>0, <1>3, <2>1 DEF Complete, TypeOK
    <3>2. Chain(t, 0)
      BY ZenonT(40), <1>0, <1>1, <1>2, <3>1 DEF Chains
    <3> QED BY ZenonT(40), <1>3, <3>2, ChainFrame
  <2>2. ASSUME NEW q \in Procs, NEW t \in Procs, np'[q] = t, pc'[q] # "pids"
        PROVE  Chain(t, 0)'
    <3>1. q # p /\ np[q] = t /\ pc[q] # "pids"
      BY ZenonT(40), <1>0, <1>2, <1>3, <2>2 DEF TypeOK
    <3> QED BY ZenonT(40), <1>0, <1>3, <3>1, ChainFrame DEF Chains
  <2>3. ASSUME NEW q \in Procs, NEW t \in Procs, NEW k \in Levels,
               NEW c \in NsPtr, pc'[q] = "pids", np'[q] = t, lev'[q] = k,
               curr_ns'[q] = c
        PROVE  Climbing(t, k, c)'
    <3>1. pc[q] = "pids" /\ np[q] = t /\ lev[q] = k /\ curr_ns[q] = c
      BY ZenonT(40), <1>0, <1>3, <2>3 DEF TypeOK
    <3> QED BY ZenonT(40), <1>0, <1>3, <3>1, ClimbingFrame DEF Chains
  <2> QED BY ZenonT(40), <2>1, <2>2, <2>3 DEF Chains
<1>11. Fresh'
  <2>1. ASSUME NEW q \in Procs, newns'[q] # Null PROVE FreshNs(q)'
    <3>1. /\ q # p /\ newns[q] # Null /\ newns'[q] = newns[q] /\ np'[q] = np[q]
          /\ pc'[q] = pc[q] /\ FreshNs(q)
      BY ZenonT(40), <1>0, <1>2, <1>3, <2>1 DEF TypeOK, Fresh
    <3> QED BY ZenonT(40), <1>0, <1>3, <3>1 DEF FreshNs, TypeOK
  <2> QED BY ZenonT(40), <2>1 DEF Fresh
<1>12. HeadSet'
  <2>1. ns[s] # Null /\ head[ns[s]] # Null
    BY ZenonT(40), <1>0, <1>1, <1>2 DEF HeadSet, NsTree
  <2>2. ASSUME NEW t \in Procs, Complete(t)' \/ parent'[t] # Null
        PROVE  ns'[t] # Null /\ head'[ns'[t]] # Null
    BY ZenonT(40), <1>0, <1>3, <2>1, <2>2 DEF HeadSet, Complete, TypeOK
  <2>3. ASSUME NEW q \in Procs, pc'[q] \in {"uvmcopy", "parent", "runnable"}
        PROVE  head'[ns'[np'[q]]] # Null
    BY ZenonT(40), <1>0, <1>2, <1>3, <2>3 DEF HeadSet, TypeOK
  <2> QED BY ZenonT(40), <2>2, <2>3 DEF HeadSet
<1>13. Sleepers'
  BY <1>0, <1>2, <1>3 DEF Sleepers, Zombies, Children, TypeOK
<1> QED
  BY ZenonT(40), <1>4, <1>5, <1>6, <1>7, <1>8, <1>9, <1>10, <1>11, <1>12, <1>13 DEF IInv

(* The state that userinit() leaves satisfies the invariant. *)
LEMMA InitInv == Init => IInv
<1> USE NullNotEntry DEF ProcPtr, NsPtr
<1> SUFFICES ASSUME Init PROVE IInv
  OBVIOUS
<1>1. initproc \in Procs /\ initnamespace \in Namespaces /\ 0 \in Levels
  BY SizesAssumption DEF initproc, initnamespace, Procs, Namespaces, Levels
<1>2. TypeOK
  <2>1. NoPids \in [Levels -> Nat] /\ NoPids \in [Levels -> NsPtr]
    BY ZenonT(40) DEF NoPids, Null
  <2>2. /\ pids \in [Procs -> [Levels -> Nat]]
        /\ issuer \in [Procs -> [Levels -> NsPtr]]
    BY ZenonT(40), <1>1, <2>1 DEF Init, userinit
  <2>3. /\ state \in [Procs -> ProcStates]
        /\ pid \in [Procs -> Nat]
        /\ parent \in [Procs -> ProcPtr]
        /\ ns \in [Procs -> NsPtr]
        /\ killed \in [Procs -> BOOLEAN]
        /\ chan \in [Procs -> ProcPtr]
        /\ lock \in [Procs -> ProcPtr]
    BY ZenonT(40), <1>1 DEF Init, userinit, ProcStates
  <2>4. /\ used \in [Namespaces -> BOOLEAN]
        /\ nsparent \in [Namespaces -> NsPtr]
        /\ head \in [Namespaces -> ProcPtr]
        /\ depth \in [Namespaces -> Levels]
        /\ next_ns_pid \in [Namespaces -> Nat]
        /\ nextpid \in Nat
    BY ZenonT(40), <1>1 DEF Init, userinit
  <2>5. /\ wait_lock \in ProcPtr
        /\ pc \in [Procs -> Pcs]
        /\ np \in [Procs -> ProcPtr]
        /\ newns \in [Procs -> NsPtr]
        /\ lev \in [Procs -> Levels]
        /\ curr_ns \in [Procs -> NsPtr]
        /\ look \in [Procs -> ProcPtr]
    BY ZenonT(40), <1>1 DEF Init, Pcs
  <2> QED BY ZenonT(40), <2>2, <2>3, <2>4, <2>5 DEF TypeOK
<1>3. PcState
  BY ZenonT(40), <1>1 DEF Init, userinit, PcState
<1>4. Building
  BY ZenonT(40), <1>1 DEF Init, userinit, Building, Builder, BuildPcs
<1>5. WaitLock
  BY ZenonT(40), <1>1 DEF Init, WaitLock
<1>6. NsTree
  <2>1. /\ \A m \in Namespaces : /\ nsparent[m] = Null /\ depth[m] = 0
                                 /\ next_ns_pid[m] > 0
        /\ \A s \in Procs : parent[s] = Null /\ newns[s] = Null
    BY <1>1 DEF Init, userinit
  <2>2. \A s \in Procs :
          /\ ns[s] = IF s = initproc THEN initnamespace ELSE Null
          /\ state[s] = IF s = initproc THEN "RUNNABLE" ELSE "UNUSED"
    BY ZenonT(40), <1>1 DEF Init, userinit
  <2>3. \A m \in Namespaces : ~(depth[m] > 0) /\ nsparent[m] = Null
    BY <2>1
  <2>4. used[initnamespace]
    BY ZenonT(40), <1>1 DEF Init, userinit
  <2> QED BY ZenonT(40), <1>1, <2>1, <2>2, <2>3, <2>4 DEF NsTree
<1>7. /\ \A s \in Procs, i \in Levels : issuer[s][i] # Null =>
           /\ s = initproc /\ i = 0 /\ issuer[s][i] = initnamespace
           /\ pids[s][i] = 1
      /\ issuer[initproc][0] = initnamespace
  <2>1. /\ \A s \in Procs : s # initproc => issuer[s] = NoPids
        /\ issuer[initproc] = [NoPids EXCEPT ![0] = initnamespace]
        /\ pids[initproc] = [NoPids EXCEPT ![0] = 1]
    BY ZenonT(40), <1>1 DEF Init, userinit
  <2>2. \A i \in Levels : NoPids[i] = Null
    BY ZenonT(40) DEF NoPids, Null
  <2>3. \A i \in Levels :
          /\ issuer[initproc][i] = IF i = 0 THEN initnamespace ELSE Null
          /\ i = 0 => pids[initproc][i] = 1
    BY ZenonT(40), <1>1, <2>1, <2>2 DEF NoPids, Null
  <2>4. ASSUME NEW s \in Procs, NEW i \in Levels, issuer[s][i] # Null
        PROVE  /\ s = initproc /\ i = 0 /\ issuer[s][i] = initnamespace
               /\ pids[s][i] = 1
    <3>1. s = initproc
      BY ZenonT(40), <2>1, <2>2, <2>4
    <3> QED BY ZenonT(40), <2>3, <2>4, <3>1
  <2> QED BY ZenonT(40), <1>1, <2>3, <2>4
<1>8. Issued
  <2>1. used[initnamespace] /\ next_ns_pid[initnamespace] = 2
    BY ZenonT(40), <1>1 DEF Init, userinit
  <2>2. 1 > 0 /\ 1 < 2
    OBVIOUS
  <2>3. PidsUnique
    <3>1. ASSUME NEW s \in Procs, NEW t \in Procs, NEW i \in Levels, issuer[s][i] # Null
          PROVE  pids[s][i] > 0 /\ ~(s # t /\ issuer[s][i] = issuer[t][i])
      BY ZenonT(40), <1>7, <2>2, <3>1
    <3> QED BY ZenonT(40), <3>1 DEF PidsUnique
  <2>4. ASSUME NEW s \in Procs, NEW i \in Levels, issuer[s][i] # Null
        PROVE  /\ used[issuer[s][i]] /\ pids[s][i] > 0
               /\ pids[s][i] < next_ns_pid[issuer[s][i]]
    BY ZenonT(40), <1>7, <2>1, <2>2, <2>4
  <2> QED BY ZenonT(40), <2>3, <2>4 DEF Issued
<1>9. Chains
  <2>1. Chain(initproc, 0)
    <3>1. ns[initproc] = initnamespace /\ depth[initnamespace] = 0
      BY ZenonT(40), <1>1 DEF Init, userinit
    <3>2. \A i \in Levels : 0 <= i /\ i <= 0 => i = 0
      BY DEF Levels
    <3> QED BY <1>1, <1>7, <3>1, <3>2 DEF Chain
  <2>2. \A s \in Procs : Complete(s) => s = initproc
    BY ZenonT(40) DEF Complete, Init, userinit
  <2>3. \A q \in Procs : np[q] = Null
    BY ZenonT(40) DEF Init
  <2> QED BY ZenonT(40), <2>1, <2>2, <2>3 DEF Chains
<1>10. Fresh
  BY ZenonT(40) DEF Init, Fresh
<1>11. HeadSet
  BY ZenonT(40), <1>1 DEF Init, userinit, HeadSet, Complete
<1>12. Sleepers
  BY ZenonT(40), <1>1 DEF Init, userinit, Sleepers
<1> QED
  BY ZenonT(40), <1>2, <1>3, <1>4, <1>5, <1>6, <1>8, <1>9, <1>10, <1>11, <1>12 DEF IInv

(* Every step keeps the invariant. *)
LEMMA NextInv == IInv /\ [Next]_vars => IInv'
<1> SUFFICES ASSUME IInv, [Next]_vars PROVE IInv'
  OBVIOUS
<1>1. CASE UNCHANGED vars
  BY ZenonT(40), <1>1, StutterStep
<1>2. ASSUME NEW p \in Procs, KernelStep(p) PROVE IInv'
  BY ZenonT(40), <1>2, CloneAllocStep, CloneNoSlotStep, AllocPidStep, AllocMemoryStep,
     AllocFailsStep, UvmcopyStep, SetParentStep, SetRunnableStep, ReparentStep,
     ZombifyStep, ReapStep, WaitLockSteps, SleepStep, ResumeStep, PsSteps
  DEF KernelStep
<1>3. ASSUME NEW p \in Procs,
             \/ Fork(p) \/ Clone(p) \/ Exit(p) \/ Wait(p) \/ PsList(p)
             \/ \E k \in KillPids : Kill(p, k)
      PROVE  IInv'
  BY ZenonT(40), <1>3, ForkStep, CloneStep, WaitLockSteps, PsSteps, KillStep
<1> QED BY <1>1, <1>2, <1>3 DEF Next

(* The inductive invariant holds in every reachable state, for tables of   *)
(* any size, any depth of namespaces and any mix of system calls.          *)
THEOREM Invariance == Spec => []IInv
  BY InitInv, NextInv, PTL DEF Spec

(* Every variable keeps its type; in particular no namespace is ever       *)
(* deeper than the array pids of struct proc is long.                      *)
THEOREM TypeCorrect == Spec => []TypeOK
<1>1. IInv => TypeOK
  BY ZenonT(40) DEF IInv
<1> QED BY <1>1, Invariance, PTL

(* next_ns_pid never hands out the same pid twice within a namespace.      *)
THEOREM UniquePids == Spec => []PidsUnique
<1>1. IInv => PidsUnique
  BY ZenonT(40) DEF IInv, Issued
<1> QED BY <1>1, Invariance, PTL

(* allocproc() gives a process a pid of every namespace from its own to    *)
(* the root.                                                               *)
THEOREM PidOfEveryLevel == Spec => []PidChain
<1>1. IInv => PidChain
  <2> SUFFICES ASSUME IInv, NEW s \in Procs, Complete(s)
               PROVE  /\ ns[s] # Null
                      /\ issuer[s][depth[ns[s]]] = ns[s]
                      /\ \A i \in 0 .. depth[ns[s]] :
                           /\ issuer[s][i] # Null
                           /\ depth[issuer[s][i]] = i
                           /\ i > 0 =>
                                issuer[s][i - 1] = nsparent[issuer[s][i]]
    BY ZenonT(40) DEF PidChain
  <2>1. Chain(s, 0) /\ ns[s] \in Namespaces
    BY ZenonT(40), NullNotEntry DEF IInv, Chains, HeadSet, TypeOK, NsPtr
  <2>2. depth[ns[s]] \in Levels
    BY ZenonT(40), <2>1 DEF IInv, TypeOK
  <2>3. \A i \in 0 .. depth[ns[s]] : i \in Levels /\ 0 <= i /\ i <= depth[ns[s]]
                                     /\ (i > 0 => 0 < i)
    BY <2>2, SizesAssumption DEF Levels
  <2>4. 0 <= depth[ns[s]]
    BY ZenonT(40), <2>2, LevelIsNat
  <2> QED BY ZenonT(40), <2>1, <2>3, <2>4, NullNotEntry DEF Chain
<1> QED BY <1>1, Invariance, PTL

(* A fork() or clone() shares the entry it builds with nobody. *)
THEOREM EntryOwned == Spec => []SlotOwned
<1>1. IInv => SlotOwned
  BY NullNotEntry DEF IInv, SlotOwned, Building, Builder, PcState, TypeOK, ProcPtr
<1> QED BY <1>1, Invariance, PTL

(* The first process of a namespace is its head and has pid 1 in it. *)
THEOREM HeadIsPid1 == Spec => []CloneChildIsPid1
<1>1. IInv => CloneChildIsPid1
  BY ZenonT(40), ZenonT(40)
  DEF IInv, CloneChildIsPid1, Building, Builder, BuildPcs, Fresh, FreshNs
<1> QED BY <1>1, Invariance, PTL

(* wait_lock closes the window between the scan of wait() and its sleep(). *)
THEOREM WakeupNotLost == Spec => []NoLostWakeup
<1>1. IInv => NoLostWakeup
  BY ZenonT(40) DEF IInv, NoLostWakeup, Sleepers
<1> QED BY <1>1, Invariance, PTL

-----------------------------------------------------------------------------
(* What ps_list() shows *)

(* A set of natural numbers that is not empty has a least element. *)
LEMMA Least ==
  ASSUME NEW T, T \subseteq Nat, T # {}
  PROVE  \E x \in T : \A y \in T : ~(y < x)
<1> DEFINE R == OpToRel(<, Nat)
<1>1. \A x, y \in Nat : x < y => <<x, y>> \in R
  BY DEF OpToRel
<1>2. IsWellFoundedOn(R, Nat)
  BY NatLessThanWellFounded, ZenonT(40)
<1> HIDE DEF R
<1>3. PICK x \in T : \A y \in T : ~(<<y, x>> \in R)
  BY <1>2, WFMin, ZenonT(40)
<1> QED BY <1>1, <1>3, ZenonT(40)

(* f is the function that the loop of compare_ns() computes for n2: it     *)
(* follows par from namespace to namespace.                                *)
Follows(f, par, n2) ==
  f = [n \in Namespaces |-> n = n2 \/ (par[n] # Null /\ f[par[n]])]

(* The loop of compare_ns() computes such a function: the least set that   *)
(* holds n2 and every namespace whose parent it holds.                     *)
LEMMA FollowsExists ==
  ASSUME NEW n2, NEW par \in [Namespaces -> NsPtr]
  PROVE  \E f : Follows(f, par, n2)
<1> USE NullNotEntry DEF NsPtr
<1> DEFINE Closed(S) == /\ \A n \in Namespaces : n = n2 => n \in S
                        /\ \A n \in Namespaces :
                             par[n] # Null /\ par[n] \in S => n \in S
           G == {n \in Namespaces :
                   \A S \in SUBSET Namespaces : Closed(S) => n \in S}
           H == {n \in Namespaces : n = n2 \/ (par[n] # Null /\ par[n] \in G)}
           f == [n \in Namespaces |-> n \in G]
<1>1. \A n \in Namespaces : par[n] # Null => par[n] \in Namespaces
  BY ZenonT(40)
<1>2. \A n \in H : n \in G
  BY ZenonT(40)
<1>3. Closed(H)
  BY <1>1, <1>2, ZenonT(40)
<1>4. \A n \in Namespaces : n \in G => n \in H
  BY <1>3, ZenonT(40)
<1>5. \A n \in Namespaces : n \in G <=> (n = n2 \/ (par[n] # Null /\ par[n] \in G))
  BY <1>2, <1>4, ZenonT(40)
<1>6. \A n \in Namespaces : par[n] # Null => f[par[n]] = (par[n] \in G)
  BY <1>1, ZenonT(40)
<1>7. \A n \in Namespaces :
        (n \in G) = (n = n2 \/ (par[n] # Null /\ f[par[n]]))
  <2> HIDE DEF G, f
  <2> TAKE n \in Namespaces
  <2>1. CASE n \in G
    <3>1. n = n2 \/ (par[n] # Null /\ f[par[n]])
      BY <1>5, <1>6, <2>1, ZenonT(40)
    <3> QED BY <2>1, <3>1
  <2>2. CASE n \notin G
    <3>1. ~(n = n2 \/ (par[n] # Null /\ f[par[n]]))
      BY <1>5, <1>6, <2>2, ZenonT(40)
    <3> QED BY <2>2, <3>1
  <2> QED BY <2>1, <2>2
<1> QED
  <2>1. f = [n \in Namespaces |-> n = n2 \/ (par[n] # Null /\ f[par[n]])]
    <3> HIDE DEF G
    <3> QED BY <1>7
  <2> HIDE DEF f
  <2> QED BY <2>1, ZenonT(40) DEF Follows

(* compare_ns() in terms of such a function. *)
LEMMA CompareNs ==
  ASSUME NEW n2, nsparent \in [Namespaces -> NsPtr]
  PROVE  \E f : /\ Follows(f, nsparent, n2)
                /\ \A n1 : compare_ns(n1, n2) <=> (n1 # Null /\ f[n1])
<1> DEFINE up == CHOOSE f : Follows(f, nsparent, n2)
<1>1. Follows(up, nsparent, n2)
  BY FollowsExists, ZenonT(40)
<1>2. \A n1 : compare_ns(n1, n2) <=> (n1 # Null /\ up[n1])
  BY DEF compare_ns, Follows
<1> HIDE DEF up
<1> QED BY <1>1, <1>2, ZenonT(40)

(* c[D], c[D - 1], ... c[0] are a namespace and its ancestors. *)
Ancestors(c, par, D) ==
  /\ D \in Nat
  /\ \A i \in 0 .. D : c[i] \in Namespaces
  /\ par[c[0]] = Null
  /\ \A i \in 0 .. D : i > 0 => par[c[i]] = c[i - 1]

(* The loop of compare_ns() meets n2 exactly when n2 is one of them. *)
LEMMA WalkUp ==
  ASSUME NEW n2, NEW par, NEW f, NEW D, NEW c,
         Follows(f, par, n2), Ancestors(c, par, D)
  PROVE  f[c[D]] <=> \E j \in 0 .. D : c[j] = n2
<1> USE DEF Ancestors
<1> DEFINE Met(i) == \E j \in 0 .. i : c[j] = n2
           Bad == {i \in 0 .. D : ~(f[c[i]] <=> Met(i))}
<1>1. \A i \in 0 .. D :
        f[c[i]] <=> (c[i] = n2 \/ (par[c[i]] # Null /\ f[par[c[i]]]))
  BY ZenonT(40) DEF Follows
<1>2. Met(0) <=> c[0] = n2
  BY SMT
<1>3. \A i \in 0 .. D : i > 0 =>
        /\ i - 1 \in 0 .. D /\ i - 1 < i
        /\ Met(i) <=> (Met(i - 1) \/ c[i] = n2)
  <2> SUFFICES ASSUME NEW i \in 0 .. D, i > 0
               PROVE  /\ i - 1 \in 0 .. D /\ i - 1 < i
                      /\ Met(i) <=> (Met(i - 1) \/ c[i] = n2)
    OBVIOUS
  <2>1. 0 .. i = (0 .. i - 1) \cup {i}
    OBVIOUS
  <2> QED BY <2>1
<1>4. Bad = {}
  <2> SUFFICES ASSUME Bad # {} PROVE FALSE
    OBVIOUS
  <2>1. Bad \subseteq Nat
    OBVIOUS
  <2>2. PICK m \in Bad : \A k \in Bad : ~(k < m)
    <3> HIDE DEF Bad
    <3> QED BY <2>1, Least, ZenonT(40)
  <2>3. m \in 0 .. D /\ ~(f[c[m]] <=> Met(m))
    BY <2>2, ZenonT(40)
  <2>4. CASE m = 0
    BY <1>1, <1>2, <2>3, <2>4, ZenonT(40)
  <2>5. CASE m # 0
    <3> HIDE DEF Met
    <3>1. m > 0
      BY <2>3, <2>5
    <3>2. /\ m - 1 \in 0 .. D /\ m - 1 < m
          /\ Met(m) <=> (Met(m - 1) \/ c[m] = n2)
      BY <1>3, <2>3, <3>1, ZenonT(40)
    <3>3. f[c[m - 1]] <=> Met(m - 1)
      BY <2>2, <3>2, ZenonT(40)
    <3>4. par[c[m]] = c[m - 1] /\ c[m - 1] \in Namespaces
      BY <2>3, <3>1, <3>2, ZenonT(40)
    <3> QED BY <1>1, <2>3, <3>2, <3>3, <3>4, NullNotEntry, ZenonT(40)
  <2> QED BY <2>4, <2>5, ZenonT(40)
<1>5. D \in 0 .. D
  OBVIOUS
<1> QED BY <1>4, <1>5, ZenonT(40)

(* Only the first namespace is a root in use: one that clone() left behind *)
(* because it was too deep has depth 0 as well, but nobody is in it or     *)
(* below it.  And a process has no pid above the level of its namespace.   *)
Rooted ==
  /\ used[initnamespace]
  /\ depth[initnamespace] = 0
  /\ nsparent[initnamespace] = Null
  /\ \A n \in Namespaces :
       used[n] /\ depth[n] > 0 /\ depth[nsparent[n]] = 0
         => nsparent[n] = initnamespace
  /\ \A s \in Procs :
       /\ ns[s] # Null /\ depth[ns[s]] = 0 => ns[s] = initnamespace
       /\ newns[s] # Null => depth[newns[s]] > 0
       /\ \A i \in Levels : issuer[s][i] # Null =>
            ns[s] # Null /\ i <= depth[ns[s]]

(* A step that changes no namespace, and in the process table frees at     *)
(* most some entries, keeps it.                                            *)
LEMMA RootedFrame ==
  ASSUME Rooted, UNCHANGED <<used, nsparent, depth>>,
         \A s \in Procs :
           /\ newns'[s] = newns[s] \/ newns'[s] = Null
           /\ \/ ns'[s] = ns[s] /\ issuer'[s] = issuer[s]
              \/ ns'[s] = Null /\ issuer'[s] = NoPids
  PROVE  Rooted'
<1>1. ASSUME NEW s \in Procs
      PROVE  /\ ns'[s] # Null /\ depth'[ns'[s]] = 0 => ns'[s] = initnamespace
             /\ newns'[s] # Null => depth'[newns'[s]] > 0
             /\ \A i \in Levels : issuer'[s][i] # Null =>
                  ns'[s] # Null /\ i <= depth'[ns'[s]]
  <2>1. \A i \in Levels : NoPids[i] = Null
    BY ZenonT(40) DEF NoPids, Null
  <2>2. CASE ns'[s] = ns[s] /\ issuer'[s] = issuer[s]
    BY ZenonT(40), <2>2 DEF Rooted
  <2>3. CASE ns'[s] = Null /\ issuer'[s] = NoPids
    BY ZenonT(40), <2>1, <2>3 DEF Rooted
  <2> QED BY ZenonT(40), <2>2, <2>3
<1> QED BY ZenonT(40), <1>1 DEF Rooted

(* freeproc() clears the entry it frees and no other. *)
LEMMA FreeprocFrame ==
  ASSUME TypeOK, NEW z \in Procs, freeproc(z)
  PROVE  \A s \in Procs : \/ ns'[s] = ns[s] /\ issuer'[s] = issuer[s]
                          \/ ns'[s] = Null /\ issuer'[s] = NoPids
  BY ZenonT(40) DEF freeproc, TypeOK

(* The steps that touch neither a namespace nor an entry's place in one. *)
LEMMA RootedCalm ==
  ASSUME Rooted, UNCHANGED <<used, nsparent, depth, ns, newns, issuer>>
  PROVE  Rooted'
  BY ZenonT(40), RootedFrame

(* allocproc() enters a free entry in a namespace that is in use. *)
LEMMA RootedTakeSlot ==
  ASSUME IInv, Rooted, NEW p \in Procs, NEW n \in Namespaces, TakeSlot(p, n),
         UNCHANGED <<nsVars, newns>>, n = ns[p] \/ n = newns[p]
  PROVE  Rooted'
<1> USE NullNotEntry
<1>1. PICK s \in Procs : state[s] = "UNUSED" /\ ns' = [ns EXCEPT ![s] = n]
  BY ZenonT(40) DEF TakeSlot, FreeEntry
<1>2. UNCHANGED <<used, nsparent, depth, newns, issuer>>
  BY ZenonT(40) DEF TakeSlot, nsVars
<1>3. ns \in [Procs -> NsPtr] /\ NsTree
  BY ZenonT(40) DEF IInv, TypeOK
<1>4. \A i \in Levels : issuer[s][i] = Null
  <2>1. ns[s] = Null
    BY ZenonT(40), <1>1, <1>3 DEF NsTree
  <2> QED BY ZenonT(40), <2>1 DEF Rooted
<1>5. depth[n] = 0 => n = initnamespace
  <2>1. CASE n = ns[p]
    BY ZenonT(40), <2>1 DEF Rooted
  <2>2. CASE n = newns[p]
    <3>1. depth[n] > 0
      BY ZenonT(40), <2>2 DEF Rooted
    <3>2. ~(0 > 0)
      OBVIOUS
    <3> QED BY ZenonT(40), <3>1, <3>2
  <2> QED BY ZenonT(40), <2>1, <2>2
<1>6. ASSUME NEW t \in Procs
      PROVE  /\ ns'[t] # Null /\ depth'[ns'[t]] = 0 => ns'[t] = initnamespace
             /\ newns'[t] # Null => depth'[newns'[t]] > 0
             /\ \A i \in Levels : issuer'[t][i] # Null =>
                  ns'[t] # Null /\ i <= depth'[ns'[t]]
  <2>1. CASE t = s
    <3>1. ns'[t] = n
      BY ZenonT(40), <1>1, <1>3, <2>1
    <3> QED BY ZenonT(40), <1>2, <1>4, <1>5, <2>1, <3>1 DEF Rooted
  <2>2. CASE t # s
    <3>1. ns'[t] = ns[t]
      BY ZenonT(40), <1>1, <1>3, <2>2
    <3> QED BY ZenonT(40), <1>2, <3>1 DEF Rooted
  <2> QED BY ZenonT(40), <2>1, <2>2
<1> QED BY ZenonT(40), <1>2, <1>6 DEF Rooted

(* One turn of the loop of allocproc() is at or below the level of the new *)
(* process's namespace.                                                    *)
LEMMA RootedAllocPid ==
  ASSUME IInv, Rooted, NEW p \in Procs, AllocPid(p)
  PROVE  Rooted'
<1> USE NullNotEntry DEF ProcPtr, NsPtr
<1> DEFINE s == np[p]
           i == lev[p]
           n == curr_ns[p]
<1>1. /\ pc[p] = "pids"
      /\ issuer' = [issuer EXCEPT ![s][i] = n]
      /\ UNCHANGED <<used, nsparent, depth, ns, newns>>
  BY ZenonT(40) DEF AllocPid
<1>2. /\ TypeOK /\ Building /\ Chains /\ NsTree
  BY ZenonT(40) DEF IInv
<1>3. s \in Procs /\ i \in Levels /\ n \in NsPtr /\ state[s] = "USED"
  <2>1. s \in ProcPtr /\ i \in Levels /\ n \in NsPtr
    BY ZenonT(40), <1>2 DEF TypeOK
  <2>2. s # Null /\ state[s] = "USED"
    BY <1>1, <1>2 DEF Building, Builder, BuildPcs
  <2> QED BY ZenonT(40), <2>1, <2>2
<1>4. Climbing(s, i, n)
  BY ZenonT(40), <1>1, <1>2, <1>3 DEF Chains
<1>5. i <= depth[ns[s]] /\ ns[s] # Null
  BY ZenonT(40), <1>2, <1>3, <1>4 DEF Climbing, NsTree
<1>6. ASSUME NEW t \in Procs, NEW j \in Levels, issuer'[t][j] # Null
      PROVE  ns'[t] # Null /\ j <= depth'[ns'[t]]
  <2>1. CASE t = s /\ j = i
    BY ZenonT(40), <1>1, <1>5, <2>1
  <2>2. CASE ~(t = s /\ j = i)
    <3>1. issuer \in [Procs -> [Levels -> NsPtr]]
      BY ZenonT(40), <1>2 DEF TypeOK
    <3>2. issuer'[t][j] = issuer[t][j]
      BY ZenonT(40), <1>1, <2>2, <3>1
    <3> QED BY ZenonT(40), <1>1, <1>6, <3>2 DEF Rooted
  <2> QED BY ZenonT(40), <2>1, <2>2
<1> QED BY ZenonT(40), <1>1, <1>6 DEF Rooted

(* clone() takes a namespace that nobody is in or below, and makes it a    *)
(* child of the caller's.                                                  *)
LEMMA RootedClone ==
  ASSUME IInv, Rooted, NEW p \in Procs, Clone(p)
  PROVE  Rooted'
<1> USE NullNotEntry DEF NsPtr
<1>1. /\ TypeOK /\ NsTree /\ PcState
  BY ZenonT(40) DEF IInv
<1>2. PICK n \in Namespaces :
        LET deep == TooDeep(ns[p]) IN
        /\ allocnamespace(n, ns[p], IF deep THEN 0 ELSE depth[ns[p]] + 1)
        /\ newns' = [newns EXCEPT ![p] = IF deep THEN Null ELSE n]
  BY ZenonT(40) DEF Clone
<1>3. pc[p] = "user" /\ UNCHANGED <<ns, issuer>>
  BY ZenonT(40) DEF Clone, Enter, tableVars
<1>4. /\ ~used[n] /\ used' = [used EXCEPT ![n] = TRUE]
      /\ nsparent' = [nsparent EXCEPT ![n] = ns[p]]
      /\ depth' = [depth EXCEPT
                     ![n] = IF TooDeep(ns[p]) THEN 0 ELSE depth[ns[p]] + 1]
      /\ newns' = [newns EXCEPT ![p] = IF TooDeep(ns[p]) THEN Null ELSE n]
  BY ZenonT(40), <1>2 DEF allocnamespace
<1>5. ns[p] \in Namespaces /\ used[ns[p]]
  <2>1. ns[p] \in NsPtr
    BY ZenonT(40), <1>1 DEF TypeOK
  <2>2. state[p] # "UNUSED"
    BY <1>1, <1>3 DEF PcState
  <2> QED BY ZenonT(40), <1>1, <2>1, <2>2 DEF NsTree
<1>6. depth[ns[p]] \in Nat /\ depth[ns[p]] + 1 > 0 /\ ~(0 > 0)
  <2>1. depth[ns[p]] \in Levels
    BY ZenonT(40), <1>1, <1>5 DEF TypeOK
  <2> QED BY <2>1 DEF Levels
<1>7. \A m \in Namespaces : m # n =>
        /\ used'[m] = used[m] /\ depth'[m] = depth[m]
        /\ nsparent'[m] = nsparent[m]
  BY ZenonT(40), <1>1, <1>4 DEF TypeOK
<1>8. /\ used'[n] /\ nsparent'[n] = ns[p]
      /\ depth'[n] = IF TooDeep(ns[p]) THEN 0 ELSE depth[ns[p]] + 1
      /\ n # ns[p] /\ n # initnamespace /\ depth'[ns[p]] = depth[ns[p]]
  BY ZenonT(40), <1>1, <1>4, <1>5 DEF TypeOK, Rooted
<1>9. initnamespace \in Namespaces
  BY SizesAssumption DEF initnamespace, Namespaces
<1>10. /\ used'[initnamespace] /\ depth'[initnamespace] = 0
       /\ nsparent'[initnamespace] = Null
  BY ZenonT(40), <1>7, <1>8, <1>9 DEF Rooted
<1>11. ASSUME NEW m \in Namespaces, used'[m], depth'[m] > 0,
              depth'[nsparent'[m]] = 0
       PROVE  nsparent'[m] = initnamespace
  <2>1. CASE m = n
    <3>1. depth[ns[p]] = 0
      BY ZenonT(40), <1>8, <1>11, <2>1
    <3> QED BY ZenonT(40), <1>5, <1>8, <2>1, <3>1 DEF Rooted
  <2>2. CASE m # n
    <3>1. /\ used[m] /\ depth[m] > 0 /\ nsparent'[m] = nsparent[m]
      BY ZenonT(40), <1>7, <1>11, <2>2
    <3>2. nsparent[m] \in Namespaces /\ used[nsparent[m]]
      BY ZenonT(40), <1>1, <3>1 DEF NsTree, TypeOK
    <3>3. nsparent[m] # n
      BY ZenonT(40), <1>4, <3>2
    <3>4. depth[nsparent[m]] = 0
      BY ZenonT(40), <1>7, <1>11, <3>1, <3>2, <3>3
    <3> QED BY ZenonT(40), <3>1, <3>4 DEF Rooted
  <2> QED BY ZenonT(40), <2>1, <2>2
<1>12. ASSUME NEW s \in Procs
       PROVE  /\ ns'[s] # Null /\ depth'[ns'[s]] = 0 => ns'[s] = initnamespace
              /\ newns'[s] # Null => depth'[newns'[s]] > 0
              /\ \A i \in Levels : issuer'[s][i] # Null =>
                   ns'[s] # Null /\ i <= depth'[ns'[s]]
  <2>1. ns[s] # Null => depth'[ns[s]] = depth[ns[s]]
    <3>1. ns[s] \in NsPtr /\ (ns[s] # Null => used[ns[s]])
      BY ZenonT(40), <1>1 DEF NsTree, TypeOK
    <3> QED BY ZenonT(40), <1>4, <1>7, <3>1
  <2>2. newns'[s] # Null => depth'[newns'[s]] > 0
    <3>1. CASE s = p
      <4>1. newns'[s] = IF TooDeep(ns[p]) THEN Null ELSE n
        BY ZenonT(40), <1>1, <1>4, <3>1 DEF TypeOK
      <4> QED BY ZenonT(40), <1>6, <1>8, <4>1
    <3>2. CASE s # p
      <4>1. newns'[s] = newns[s]
        BY ZenonT(40), <1>1, <1>4, <3>2 DEF TypeOK
      <4>2. newns[s] # Null => /\ newns[s] \in Namespaces /\ used[newns[s]]
                               /\ depth[newns[s]] > 0
        <5>1. newns[s] \in NsPtr
          BY ZenonT(40), <1>1 DEF TypeOK
        <5>2. newns[s] # Null => used[newns[s]] /\ depth[newns[s]] > 0
          BY ZenonT(40), <1>1 DEF NsTree, Rooted
        <5> QED BY ZenonT(40), <5>1, <5>2
      <4> QED BY ZenonT(40), <1>4, <1>7, <4>1, <4>2
    <3> QED BY ZenonT(40), <3>1, <3>2
  <2> QED BY ZenonT(40), <1>3, <2>1, <2>2 DEF Rooted
<1> QED BY ZenonT(40), <1>10, <1>11, <1>12 DEF Rooted

(* The initial state. *)
LEMMA RootedInit == Init => Rooted
<1> SUFFICES ASSUME Init PROVE Rooted
  OBVIOUS
<1>1. initnamespace \in Namespaces /\ ~(0 > 0)
  BY SizesAssumption DEF initnamespace, Namespaces
<1>2. /\ \A n \in Namespaces : depth[n] = 0 /\ nsparent[n] = Null
      /\ \A s \in Procs : newns[s] = Null
      /\ \A s \in Procs : ns[s] = IF s = initproc THEN initnamespace ELSE Null
      /\ used[initnamespace]
  BY ZenonT(40), <1>1 DEF Init, userinit
<1>3. ASSUME NEW s \in Procs, NEW i \in Levels, issuer[s][i] # Null
      PROVE  ns[s] # Null /\ i <= depth[ns[s]]
  <2>1. issuer[s] = IF s = initproc THEN [NoPids EXCEPT ![0] = initnamespace]
                                    ELSE NoPids
    BY ZenonT(40) DEF Init, userinit
  <2>2. \A j \in Levels : NoPids[j] = Null
    BY ZenonT(40) DEF NoPids, Null
  <2>3. s = initproc
    BY ZenonT(40), <1>3, <2>1, <2>2
  <2>4. i = 0
    BY ZenonT(40), <1>3, <2>1, <2>2, <2>3 DEF NoPids
  <2>5. initnamespace # Null /\ 0 <= 0
    BY DEF initnamespace, Null
  <2> QED BY ZenonT(40), <1>1, <1>2, <2>3, <2>4, <2>5
<1> QED BY ZenonT(40), <1>1, <1>2, <1>3 DEF Rooted

(* Every step. *)
LEMMA RootedNext == IInv /\ Rooted /\ [Next]_vars => Rooted'
<1> SUFFICES ASSUME IInv, Rooted, [Next]_vars PROVE Rooted'
  OBVIOUS
<1> USE NullNotEntry
<1>0. TypeOK /\ Building /\ PcState /\ NsTree
  BY ZenonT(40) DEF IInv
<1>1. CASE UNCHANGED vars
  BY ZenonT(40), <1>1, RootedCalm DEF vars, tableVars, nsVars, localVars
<1>2. ASSUME NEW p \in Procs, KernelStep(p) PROVE Rooted'
  <2>1. CASE CloneAlloc(p)
    <3>1. newns[p] \in Namespaces
      <4>1. newns[p] \in NsPtr
        BY ZenonT(40), <1>0 DEF TypeOK
      <4>2. newns[p] # Null
        BY ZenonT(40), <1>0, <2>1 DEF CloneAlloc, Building, Builder
      <4> QED BY ZenonT(40), <4>1, <4>2 DEF NsPtr
    <3> QED BY ZenonT(40), <2>1, <3>1, RootedTakeSlot DEF CloneAlloc
  <2>2. CASE CloneNoSlot(p)
    <3>1. \A s \in Procs : newns'[s] = newns[s] \/ newns'[s] = Null
      BY ZenonT(40), <1>0, <2>2 DEF CloneNoSlot, TypeOK
    <3>2. UNCHANGED <<used, nsparent, depth, ns, issuer>>
      BY ZenonT(40), <2>2 DEF CloneNoSlot, tableVars, nsVars
    <3> QED BY ZenonT(40), <3>1, <3>2, RootedFrame
  <2>3. CASE AllocPid(p)
    BY ZenonT(40), <2>3, RootedAllocPid
  <2>4. CASE AllocFails(p)
    <3>1. np[p] \in Procs
      <4>1. np[p] \in ProcPtr
        BY ZenonT(40), <1>0 DEF TypeOK
      <4>2. np[p] # Null
        BY <1>0, <2>4 DEF AllocFails, Building, Builder, BuildPcs
      <4> QED BY ZenonT(40), <4>1, <4>2 DEF ProcPtr
    <3>2. \A s \in Procs : newns'[s] = newns[s] \/ newns'[s] = Null
      BY ZenonT(40), <1>0, <2>4 DEF AllocFails, TypeOK
    <3>3. UNCHANGED <<used, nsparent, depth>> /\ freeproc(np[p])
      BY ZenonT(40), <2>4 DEF AllocFails, nsVars
    <3> QED BY ZenonT(40), <1>0, <3>1, <3>2, <3>3, FreeprocFrame, RootedFrame
  <2>5. CASE SetRunnable(p)
    <3>1. \A s \in Procs : newns'[s] = newns[s] \/ newns'[s] = Null
      BY ZenonT(40), <1>0, <2>5 DEF SetRunnable, TypeOK
    <3>2. UNCHANGED <<used, nsparent, depth, ns, issuer>>
      BY ZenonT(40), <2>5 DEF SetRunnable, nsVars
    <3> QED BY ZenonT(40), <3>1, <3>2, RootedFrame
  <2>6. CASE Reap(p)
    <3>1. PICK z \in Zombies(p) : freeproc(z)
      BY ZenonT(40), <2>6 DEF Reap
    <3>2. z \in Procs
      BY ZenonT(40), <3>1 DEF Zombies, Children
    <3>3. UNCHANGED <<used, nsparent, depth, newns>>
      BY ZenonT(40), <2>6 DEF Reap, nsVars, localVars
    <3> QED BY ZenonT(40), <1>0, <3>1, <3>2, <3>3, FreeprocFrame, RootedFrame
  <2>7. CASE \/ AllocMemory(p) \/ Uvmcopy(p) \/ SetParent(p) \/ reparent(p)
             \/ Zombify(p) \/ WaitFails(p) \/ WaitForChild(p) \/ Sleep(p)
             \/ Resume(p) \/ PsCheck(p) \/ PsRead(p) \/ PsStops(p)
    <3>1. UNCHANGED <<used, nsparent, depth, ns, newns, issuer>>
      BY ZenonT(40), <2>7
      DEF AllocMemory, Uvmcopy, SetParent, reparent, Zombify, WaitFails,
          WaitForChild, Sleep, Resume, PsCheck, PsRead, PsStops, tableVars,
          nsVars, localVars
    <3> QED BY ZenonT(40), <3>1, RootedCalm
  <2> QED BY ZenonT(40), <1>2, <2>1, <2>2, <2>3, <2>4, <2>5, <2>6, <2>7
          DEF KernelStep
<1>3. ASSUME NEW p \in Procs,
             \/ Fork(p) \/ Clone(p) \/ Exit(p) \/ Wait(p) \/ PsList(p)
             \/ \E k \in KillPids : Kill(p, k)
      PROVE  Rooted'
  <2>1. CASE Fork(p)
    <3>1. ns[p] \in Namespaces
      <4>1. ns[p] \in NsPtr
        BY ZenonT(40), <1>0 DEF TypeOK
      <4>2. pc[p] = "user"
        BY ZenonT(40), <2>1 DEF Fork, Enter
      <4>3. state[p] # "UNUSED"
        BY <1>0, <4>2 DEF PcState
      <4> QED BY ZenonT(40), <1>0, <4>1, <4>3 DEF NsTree, NsPtr
    <3> QED BY ZenonT(40), <2>1, <3>1, RootedTakeSlot DEF Fork
  <2>2. CASE Clone(p)
    BY ZenonT(40), <2>2, RootedClone
  <2>3. CASE \/ Exit(p) \/ Wait(p) \/ PsList(p)
             \/ \E k \in KillPids : Kill(p, k)
    <3>1. UNCHANGED <<used, nsparent, depth, ns, newns, issuer>>
      BY ZenonT(40), <2>3
      DEF Exit, Wait, PsList, Kill, tableVars, nsVars, localVars
    <3> QED BY ZenonT(40), <3>1, RootedCalm
  <2> QED BY ZenonT(40), <1>3, <2>1, <2>2, <2>3
<1> QED BY ZenonT(40), <1>1, <1>2, <1>3 DEF Next

(* compare_ns() finds namespace n above a process exactly when the process *)
(* carries a pid that n issued, at the level of n: ps_list() neither hides *)
(* a process of n nor shows one that has no pid there.                     *)
THEOREM ListedByPid == Spec => []ListedHavePid
<1>1. Spec => []Rooted
  BY Invariance, RootedInit, RootedNext, PTL DEF Spec
<1>2. IInv /\ Rooted => ListedHavePid
  <2> SUFFICES ASSUME IInv, Rooted, NEW s \in Procs, NEW n \in Namespaces,
                      Complete(s)
               PROVE  compare_ns(ns[s], n) <=> issuer[s][depth[n]] = n
    BY ZenonT(40) DEF ListedHavePid
  <2> USE NullNotEntry DEF NsPtr
  <2> DEFINE D == depth[ns[s]]
             c == issuer[s]
  <2>1. TypeOK /\ Chain(s, 0) /\ ns[s] # Null
    BY ZenonT(40) DEF IInv, Chains, HeadSet
  <2>2. /\ ns[s] \in Namespaces /\ D \in Levels /\ depth[n] \in Levels
        /\ nsparent \in [Namespaces -> NsPtr]
        /\ \A i \in Levels : c[i] \in NsPtr
    <3>1. /\ ns \in [Procs -> NsPtr] /\ depth \in [Namespaces -> Levels]
          /\ issuer \in [Procs -> [Levels -> NsPtr]]
          /\ nsparent \in [Namespaces -> NsPtr]
      BY ZenonT(40), <2>1 DEF TypeOK
    <3>2. ns[s] \in Namespaces
      BY ZenonT(40), <2>1, <3>1
    <3>3. c \in [Levels -> NsPtr]
      BY ZenonT(40), <3>1
    <3> QED BY ZenonT(40), <3>1, <3>2, <3>3
  <2>3. /\ D \in Nat /\ 0 <= D /\ 0 \in 0 .. D /\ D \in 0 .. D
        /\ \A i \in 0 .. D : i \in Levels /\ 0 <= i /\ i <= D
                             /\ (i > 0 => 0 < i)
        /\ \A i \in Levels : i <= D => i \in 0 .. D
    BY <2>2, SizesAssumption DEF Levels
  <2>4. c[D] = ns[s]
    BY ZenonT(40), <2>1, <2>3 DEF Chain
  <2>5. \A i \in 0 .. D : /\ c[i] \in Namespaces /\ depth[c[i]] = i
                          /\ i > 0 => nsparent[c[i]] = c[i - 1]
    BY ZenonT(40), <2>1, <2>2, <2>3 DEF Chain
  <2>6. nsparent[c[0]] = Null
    <3>1. c[0] = initnamespace
      <4>1. CASE D = 0
        BY ZenonT(40), <2>1, <2>4, <4>1 DEF Rooted
      <4>2. CASE D # 0
        <5>1. 1 \in 0 .. D /\ 1 > 0 /\ 1 - 1 = 0
          BY <2>3, <4>2
        <5>2. /\ depth[c[1]] = 1 /\ nsparent[c[1]] = c[0] /\ depth[c[0]] = 0
              /\ c[1] \in Namespaces
          BY ZenonT(40), <2>3, <2>5, <5>1
        <5>3. used[c[1]]
          BY ZenonT(40), <2>3, <5>1, <5>2 DEF IInv, Issued
        <5> QED BY ZenonT(40), <5>1, <5>2, <5>3 DEF Rooted
      <4> QED BY ZenonT(40), <4>1, <4>2
    <3> QED BY ZenonT(40), <3>1 DEF Rooted
  <2>7. PICK f : /\ Follows(f, nsparent, n)
                 /\ \A m : compare_ns(m, n) <=> (m # Null /\ f[m])
    BY ZenonT(40), <2>2, CompareNs
  <2>8. f[c[D]] <=> \E j \in 0 .. D : c[j] = n
    <3> HIDE DEF c, D
    <3>1. Ancestors(c, nsparent, D)
      BY ZenonT(40), <2>3, <2>5, <2>6 DEF Ancestors
    <3> QED BY <2>7, <3>1, WalkUp
  <2>9. (\E j \in 0 .. D : c[j] = n) <=> c[depth[n]] = n
    <3>1. ASSUME NEW j \in 0 .. D, c[j] = n PROVE c[depth[n]] = n
      BY ZenonT(40), <2>5, <3>1
    <3>2. ASSUME c[depth[n]] = n PROVE depth[n] \in 0 .. D
      BY ZenonT(40), <2>2, <2>3, <3>2 DEF Rooted
    <3> QED BY ZenonT(40), <3>1, <3>2
  <2> QED BY ZenonT(40), <2>1, <2>4, <2>7, <2>8, <2>9
<1> QED BY <1>1, <1>2, Invariance, PTL
=============================================================================
