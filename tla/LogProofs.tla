----------------------------- MODULE LogProofs ------------------------------
(* What the log promises, for any number of threads, blocks and buffers:    *)
(* the inductive invariant of Log; the steps of system calls, of commit()   *)
(* and of the recovery, which keep it; and the theorems that follow.        *)
EXTENDS Log, FiniteSetTheorems, TLAPS

TypeOK ==
  /\ home \in [Blocks -> OnDisk]
  /\ hdr \in Seq(Blocks) /\ lh \in Seq(Blocks)
  /\ logblk \in [1 .. LOGSIZE -> OnDisk]
  /\ outstanding \in Nat /\ committing \in BOOLEAN
  /\ cache \in [Blocks -> OnDisk \cup {NotCached}] /\ pins \in [Blocks -> Nat]
  /\ pc \in [Threads -> Pcs]
  /\ buf \in [Threads -> SUBSET Blocks]
  /\ tail \in [Threads -> Nat]

(* A header fits into its block and names no block twice (absorption). *)
IsHeader(s) ==
  /\ Len(s) <= LOGSIZE
  /\ \A k, l \in 1 .. Len(s) : s[k] = s[l] => k = l
Headers == IsHeader(lh) /\ IsHeader(hdr)

Counted == outstanding = Cardinality(ActiveThreads)

(* A buffer that is not pinned agrees with the disk.  A panic of           *)
(* log_write() may leave one that does not.                                *)
Clean ==
  panic \in {"", "bget: no buffers"} =>
    \A b \in Blocks : cache[b] # NotCached /\ pins[b] = 0 => cache[b] = home[b]
Panicked ==
  panic \notin {"", "bget: no buffers"} => outstanding > 0

(* The first m blocks of lh are in the log as they are in the cache; the   *)
(* first m blocks of the header are at home as they are in the log.        *)
Copied(m) == \A k \in 1 .. m : logblk[k] = bread(lh[k])
Installed(m) == \A k \in 1 .. m : home[hdr[k]] = logblk[k]

(* The blocks of lh from the m-th on are pinned, and no others. *)
Pinned(m) ==
  \A b \in Blocks :
    pins[b] = IF \E k \in 1 .. Len(lh) : k > m /\ lh[k] = b THEN 1 ELSE 0

Calm == {"user", "user_buf", "begin_op", "asleep"}

(* The log is open for operations: nothing of theirs is on the disk. *)
Open ==
  /\ ~committing /\ hdr = << >> /\ Pinned(0)
  /\ outstanding = 0 => lh = << >>
  /\ \A u \in Threads : pc[u] \in Calm \cup Active /\ tail[u] = 0

(* The stages of a commit by thread t. *)
Copying(t) ==
  /\ pc[t] = "write_log" /\ tail[t] < Len(lh)
  /\ hdr = << >> /\ Copied(tail[t]) /\ Pinned(0)
ReadyToCommit(t) ==
  /\ pc[t] = "write_head" /\ tail[t] = 0 /\ Len(lh) > 0
  /\ hdr = << >> /\ Copied(Len(lh)) /\ Pinned(0)
Installing(t) ==
  /\ pc[t] = "install_trans" /\ tail[t] < Len(lh)
  /\ hdr = lh /\ Copied(Len(lh)) /\ Installed(tail[t]) /\ Pinned(tail[t])
AllInstalled(t) ==
  /\ pc[t] = "clear_head" /\ tail[t] = 0
  /\ lh = << >> /\ Installed(Len(hdr)) /\ Pinned(0)
Emptied(t) ==
  /\ pc[t] = "end_op" /\ tail[t] = 0
  /\ lh = << >> /\ hdr = << >> /\ Pinned(0)

(* A thread commits alone, beside readers and threads that wait. *)
Commits(t) ==
  /\ committing /\ outstanding = 0
  /\ \A u \in Threads \ {t} : pc[u] \in Calm /\ tail[u] = 0
  /\ \/ Copying(t) \/ ReadyToCommit(t) \/ Installing(t)
     \/ AllInstalled(t) \/ Emptied(t)

(* The stages of the recovery by thread t. *)
Restarted(t) == pc[t] = "read_head" /\ tail[t] = 0 /\ lh = << >>
Reinstalling(t) ==
  /\ pc[t] = "reinstall" /\ tail[t] < Len(hdr)
  /\ lh = hdr /\ Installed(tail[t])
Reinstalled(t) ==
  /\ pc[t] = "reclear" /\ tail[t] = 0
  /\ lh = << >> /\ Installed(Len(hdr))

(* The first process recovers the log before anybody makes a call. *)
Recovers(t) ==
  /\ ~committing /\ outstanding = 0 /\ panic = ""
  /\ \A b \in Blocks : pins[b] = 0
  /\ \A u \in Threads \ {t} : pc[u] = "user" /\ tail[u] = 0
  /\ Restarted(t) \/ Reinstalling(t) \/ Reinstalled(t)

Phase == Open \/ \E t \in Threads : Commits(t) \/ Recovers(t)

IInv == TypeOK /\ Headers /\ Counted /\ Clean /\ Panicked /\ Phase

-----------------------------------------------------------------------------
(* Facts about the parts of the state *)

(* The threads inside an operation are finitely many. *)
LEMMA ActiveFinite == IsFiniteSet(ActiveThreads)
BY LogAssumption, FS_Subset DEF ActiveThreads

(* When log.outstanding is 0 no thread is inside an operation. *)
ZeroMeansNone == outstanding = 0 <=> \A t \in Threads : pc[t] \notin Active

(* log.outstanding counts the operations, so 0 means that there are none. *)
LEMMA NoneActive == Counted => ZeroMeansNone
<1> SUFFICES ASSUME Counted PROVE ZeroMeansNone
  OBVIOUS
<1>1. outstanding = 0 <=> ActiveThreads = {}
  BY ActiveFinite, FS_EmptySet DEF Counted
<1> QED BY <1>1 DEF ActiveThreads, ZeroMeansNone

(* The same after a step. *)
LEMMA NoneActiveNext == Counted' => ZeroMeansNone'
BY NoneActive, PTL

(* Where the action of a thread is, the log is in the phase it belongs to. *)
LEMMA PhaseOf ==
  ASSUME IInv, NEW t \in Threads
  PROVE  /\ pc[t] \in Active => Open
         /\ pc[t] \in Committing => Commits(t)
         /\ pc[t] \in Recovering => Recovers(t)
<1>1. CASE Open
  BY ZenonT(40), <1>1 DEF Open, Calm, Active, Committing, Recovering
<1>2. ASSUME NEW u \in Threads, Commits(u)
      PROVE  u = t \/ pc[t] \in Calm
  BY ZenonT(40), <1>2 DEF Commits
<1>3. ASSUME NEW u \in Threads, Commits(u)
      PROVE  pc[u] \in Committing
  BY ZenonT(40), <1>3 DEF Commits, Copying, ReadyToCommit, Installing,
       AllInstalled, Emptied, Committing
<1>4. ASSUME NEW u \in Threads, Recovers(u)
      PROVE  u = t \/ pc[t] \in Calm
  BY ZenonT(40), <1>4 DEF Recovers, Calm
<1>5. ASSUME NEW u \in Threads, Recovers(u)
      PROVE  pc[u] \in Recovering
  BY ZenonT(40), <1>5 DEF Recovers, Restarted, Reinstalling, Reinstalled, Recovering
<1>6. \A l \in Calm : l \notin Active \cup Committing \cup Recovering
  BY ZenonT(40) DEF Calm, Active, Committing, Recovering
<1>7. \A l \in Committing : l \notin Active \cup Recovering
  BY ZenonT(40) DEF Active, Committing, Recovering
<1>8. \A l \in Recovering : l \notin Active
  BY ZenonT(40) DEF Active, Recovering
<1> QED BY ZenonT(40), <1>1, <1>2, <1>3, <1>4, <1>5, <1>6, <1>7, <1>8 DEF IInv, Phase

(* While the kernel is up, the log is open or a thread commits. *)
LEMMA UpPhase ==
  ASSUME IInv, Up
  PROVE  Open \/ \E t \in Threads : Commits(t)
<1>1. ASSUME NEW u \in Threads, Recovers(u)
      PROVE  pc[u] \in Recovering
  BY ZenonT(40), <1>1 DEF Recovers, Restarted, Reinstalling, Reinstalled, Recovering
<1> QED BY ZenonT(40), <1>1 DEF IInv, Phase, Up

(* The entries of the two headers are blocks. *)
LEMMA Entries ==
  ASSUME TypeOK
  PROVE  /\ Len(lh) \in Nat /\ \A k \in 1 .. Len(lh) : lh[k] \in Blocks
         /\ Len(hdr) \in Nat /\ \A k \in 1 .. Len(hdr) : hdr[k] \in Blocks
         /\ \A t \in Threads : tail[t] \in Nat
BY DEF TypeOK

(* A step that no operation begins or ends with. *)
LEMMA SameActive ==
  ASSUME Counted, outstanding' = outstanding,
         \A u \in Threads : pc'[u] \in Active <=> pc[u] \in Active
  PROVE  Counted'
<1>1. ActiveThreads' = ActiveThreads
  BY DEF ActiveThreads
<1> QED BY <1>1 DEF Counted

(* What a buffer cache c says of block b. *)
Content(c, b) == IF c[b] # NotCached THEN c[b] ELSE home[b]

(* bread() returns what the cache says, or else the disk. *)
LEMMA BreadContent ==
  \A b \in Blocks : bread(b) = Content(cache, b)
BY DEF bread, Cached, Content

(* Recycling a buffer in bget() loses nothing: it is not pinned, and so     *)
(* agrees with the disk.                                                    *)
LEMMA RecycleSafe ==
  ASSUME TypeOK, Clean, panic = "", NEW c \in Recycle
  PROVE  /\ c \in [Blocks -> OnDisk \cup {NotCached}]
         /\ \A b \in Blocks : Content(c, b) = Content(cache, b)
         /\ \A b \in Blocks : c[b] # NotCached /\ pins[b] = 0 => c[b] = home[b]
<1>1. CASE c = cache
  BY <1>1, ZenonT(40) DEF TypeOK, Clean
<1>2. CASE \E x \in Unused : c = [cache EXCEPT ![x] = NotCached]
  <2>1. PICK x \in Unused : c = [cache EXCEPT ![x] = NotCached]
    BY <1>2, ZenonT(40)
  <2>2. x \in Blocks /\ cache[x] = home[x] /\ cache[x] # NotCached
    BY ZenonT(40) DEF Unused, Cached, Clean
  <2> QED BY <2>1, <2>2, ZenonT(40) DEF TypeOK, Clean, Content
<1> QED BY <1>1, <1>2, ZenonT(40) DEF Recycle

(* So does reading the block afterwards. *)
LEMMA BgetSafe ==
  ASSUME TypeOK, Clean, panic = "", NEW b \in Blocks, NEW c \in bget(b)
  PROVE  /\ c \in [Blocks -> OnDisk \cup {NotCached}]
         /\ \A x \in Blocks : Content(c, x) = Content(cache, x)
         /\ \A x \in Blocks : c[x] # NotCached /\ pins[x] = 0 => c[x] = home[x]
<1>1. CASE b \in Cached
  BY <1>1, ZenonT(40) DEF bget, TypeOK, Clean
<1>2. CASE b \notin Cached
  <2>1. PICK r \in Recycle : c = [r EXCEPT ![b] = home[b]]
    BY <1>2, ZenonT(40) DEF bget
  <2>2. /\ r \in [Blocks -> OnDisk \cup {NotCached}]
        /\ \A x \in Blocks : Content(r, x) = Content(cache, x)
        /\ \A x \in Blocks : r[x] # NotCached /\ pins[x] = 0 => r[x] = home[x]
    BY RecycleSafe, ZenonT(40)
  <2>3. home[b] \in OnDisk /\ home[b] # NotCached /\ cache[b] = NotCached
    BY <1>2, LogAssumption, ZenonT(40) DEF TypeOK, OnDisk, Cached
  <2> QED BY <2>1, <2>2, <2>3, ZenonT(40) DEF Content
<1> QED BY <1>1, <1>2, ZenonT(40)

-----------------------------------------------------------------------------
(* Steps outside commit() and the recovery *)

(* A step that moves threads between calls, or inside an operation, and     *)
(* neither writes the disk nor the log nor changes what the cache says.     *)
LEMMA CalmStep ==
  ASSUME IInv, Up, UNCHANGED <<diskVars, logVars, pins, tail, panic>>,
         pc' \in [Threads -> Pcs], buf' \in [Threads -> SUBSET Blocks],
         \A u \in Threads : \/ pc'[u] = pc[u]
                            \/ pc[u] \in Calm /\ pc'[u] \in Calm
                            \/ pc[u] \in Active /\ pc'[u] \in Active,
         cache' \in [Blocks -> OnDisk \cup {NotCached}],
         \A b \in Blocks : Content(cache', b) = Content(cache, b),
         \A b \in Blocks : cache'[b] # NotCached /\ pins[b] = 0 => cache'[b] = home[b]
  PROVE  IInv'
<1>1. TypeOK /\ Headers /\ Counted /\ Panicked
  BY DEF IInv
<1>2. TypeOK'
  BY <1>1 DEF TypeOK, diskVars, logVars
<1>3. \A b \in Blocks : bread(b)' = bread(b)
  BY DEF bread, Cached, Content, diskVars
<1>4. Headers' /\ Clean' /\ Panicked'
  BY ZenonT(40), <1>1 DEF Headers, IsHeader, Clean, Panicked, diskVars, logVars
<1>5. Counted'
  <2>1. \A u \in Threads : pc'[u] \in Active <=> pc[u] \in Active
    BY ZenonT(40) DEF Calm, Active
  <2> QED BY <1>1, <2>1, SameActive DEF logVars
<1>6. ASSUME Open PROVE Open'
  <2>1. \A u \in Threads : pc'[u] \in Calm \cup Active
    BY ZenonT(40), <1>6 DEF Open
  <2> QED BY ZenonT(40), <1>6, <2>1 DEF Open, Pinned, diskVars, logVars
<1>7. ASSUME NEW t \in Threads, Commits(t) PROVE Commits(t)'
  <2>1. pc[t] \notin Calm \cup Active
    BY ZenonT(40), <1>7 DEF Commits, Copying, ReadyToCommit, Installing,
       AllInstalled, Emptied, Calm, Active
  <2>2. pc'[t] = pc[t] /\ \A u \in Threads \ {t} : pc'[u] \in Calm
    <3>1. \A u \in Threads \ {t} : pc[u] \in Calm
      BY <1>7 DEF Commits
    <3>2. \A l \in Calm : l \notin Active
      BY ZenonT(40) DEF Calm, Active
    <3> QED BY ZenonT(40), <2>1, <3>1, <3>2
  <2>3. Len(lh) \in Nat /\ tail[t] \in Nat /\ \A k \in 1 .. Len(lh) : lh[k] \in Blocks
    BY <1>1, Entries
  <2>4. tail[t] < Len(lh) /\ Copied(tail[t]) => Copied(tail[t])'
    <3> SUFFICES ASSUME tail[t] < Len(lh), Copied(tail[t]) PROVE Copied(tail[t])'
      OBVIOUS
    <3>1. \A k \in 1 .. tail[t] : k \in 1 .. Len(lh)
      BY <2>3
    <3>2. \A k \in 1 .. tail[t] : lh[k] \in Blocks
      BY <2>3, <3>1
    <3> QED BY ZenonT(40), <1>3, <3>2 DEF Copied, diskVars, logVars
  <2>5. Copied(Len(lh)) => Copied(Len(lh))'
    BY ZenonT(40), <1>3, <2>3 DEF Copied, diskVars, logVars
  <2> QED BY ZenonT(40), <1>7, <2>2, <2>4, <2>5 DEF Commits, Copying, ReadyToCommit,
       Installing, AllInstalled, Emptied, Installed, Pinned, diskVars, logVars
<1> QED BY <1>2, <1>4, <1>5, <1>6, <1>7, UpPhase DEF IInv, Phase

(* A thread goes from one place to another of the same kind. *)
LEMMA CalmMove ==
  ASSUME TypeOK, NEW t \in Threads, NEW l, pc' = [pc EXCEPT ![t] = l],
         \/ pc[t] \in Calm /\ l \in Calm
         \/ pc[t] \in Active /\ l \in Active
  PROVE  /\ pc' \in [Threads -> Pcs]
         /\ \A u \in Threads : \/ pc'[u] = pc[u]
                               \/ pc[u] \in Calm /\ pc'[u] \in Calm
                               \/ pc[u] \in Active /\ pc'[u] \in Active
<1>1. pc \in [Threads -> Pcs]
  BY ZenonT(40) DEF TypeOK
<1>2. l \in Pcs
  BY ZenonT(40) DEF Pcs, Calm
<1> QED BY <1>1, <1>2

(* bread() of a block by a reader or an operation. *)
LEMMA BreadInv ==
  ASSUME IInv, NEW t \in Threads, NEW b \in Blocks, Bread(t, b)
  PROVE  IInv'
<1>1. TypeOK /\ Clean /\ panic = "" /\ Up
  BY ZenonT(40) DEF IInv, Bread, Up
<1>2. /\ cache' \in [Blocks -> OnDisk \cup {NotCached}]
      /\ \A x \in Blocks : Content(cache', x) = Content(cache, x)
      /\ \A x \in Blocks : cache'[x] # NotCached /\ pins[x] = 0 => cache'[x] = home[x]
  BY <1>1, BgetSafe, ZenonT(40) DEF Bread
<1>3. /\ pc' \in [Threads -> Pcs] /\ buf' \in [Threads -> SUBSET Blocks]
      /\ \A u \in Threads : \/ pc'[u] = pc[u]
                            \/ pc[u] \in Calm /\ pc'[u] \in Calm
                            \/ pc[u] \in Active /\ pc'[u] \in Active
  <2>0. buf \in [Threads -> SUBSET Blocks]
    BY ZenonT(40), <1>1 DEF TypeOK
  <2> DEFINE l == IF pc[t] = "op" THEN "op_buf" ELSE "user_buf"
  <2>1. pc' = [pc EXCEPT ![t] = l]
    BY DEF Bread, Goto
  <2>2. \/ pc[t] \in Calm /\ l \in Calm
        \/ pc[t] \in Active /\ l \in Active
    BY ZenonT(40) DEF Bread, Calm, Active
  <2>3. buf' \in [Threads -> SUBSET Blocks]
    BY <2>0 DEF Bread
  <2> HIDE DEF l
  <2> QED BY <1>1, <2>1, <2>2, <2>3, CalmMove, ZenonT(40)
<1>4. UNCHANGED <<diskVars, logVars, pins, tail, panic>>
  BY DEF Bread
<1> QED BY <1>1, <1>2, <1>3, <1>4, CalmStep, ZenonT(40)

(* The same for a block that the operations do not write. *)
LEMMA ReadOtherInv ==
  ASSUME IInv, NEW t \in Threads, ReadOther(t)
  PROVE  IInv'
<1>1. TypeOK /\ Clean /\ panic = "" /\ Up
  BY ZenonT(40) DEF IInv, ReadOther, Up
<1>2. /\ cache' \in [Blocks -> OnDisk \cup {NotCached}]
      /\ \A x \in Blocks : Content(cache', x) = Content(cache, x)
      /\ \A x \in Blocks : cache'[x] # NotCached /\ pins[x] = 0 => cache'[x] = home[x]
  BY <1>1, RecycleSafe, ZenonT(40) DEF ReadOther
<1>3. /\ pc' \in [Threads -> Pcs] /\ buf' \in [Threads -> SUBSET Blocks]
      /\ \A u \in Threads : \/ pc'[u] = pc[u]
                            \/ pc[u] \in Calm /\ pc'[u] \in Calm
                            \/ pc[u] \in Active /\ pc'[u] \in Active
  <2>0. buf \in [Threads -> SUBSET Blocks]
    BY ZenonT(40), <1>1 DEF TypeOK
  <2> DEFINE l == IF pc[t] = "op" THEN "op_buf" ELSE "user_buf"
  <2>1. pc' = [pc EXCEPT ![t] = l]
    BY DEF ReadOther, Goto
  <2>2. \/ pc[t] \in Calm /\ l \in Calm
        \/ pc[t] \in Active /\ l \in Active
    BY ZenonT(40) DEF ReadOther, Calm, Active
  <2>3. buf' \in [Threads -> SUBSET Blocks]
    BY ZenonT(40), <1>1 DEF ReadOther, TypeOK
  <2> HIDE DEF l
  <2> QED BY <1>1, <2>1, <2>2, <2>3, CalmMove, ZenonT(40)
<1>4. UNCHANGED <<diskVars, logVars, pins, tail, panic>>
  BY DEF ReadOther
<1> QED BY <1>1, <1>2, <1>3, <1>4, CalmStep, ZenonT(40)

(* brelse() *)
LEMMA BrelseInv ==
  ASSUME IInv, NEW t \in Threads, Brelse(t)
  PROVE  IInv'
<1>1. TypeOK /\ Clean /\ panic = "" /\ Up
  BY ZenonT(40) DEF IInv, Brelse, Up
<1>2. cache' = cache /\ UNCHANGED <<diskVars, logVars, pins, tail, panic>>
  BY DEF Brelse, bufVars
<1>3. /\ pc' \in [Threads -> Pcs] /\ buf' \in [Threads -> SUBSET Blocks]
      /\ \A u \in Threads : \/ pc'[u] = pc[u]
                            \/ pc[u] \in Calm /\ pc'[u] \in Calm
                            \/ pc[u] \in Active /\ pc'[u] \in Active
  <2>0. buf \in [Threads -> SUBSET Blocks]
    BY ZenonT(40), <1>1 DEF TypeOK
  <2> DEFINE l == IF pc[t] = "op_buf" THEN "op" ELSE "user"
  <2>1. pc' = [pc EXCEPT ![t] = l]
    BY DEF Brelse, Goto
  <2>2. \/ pc[t] \in Calm /\ l \in Calm
        \/ pc[t] \in Active /\ l \in Active
    BY ZenonT(40) DEF Brelse, Calm, Active
  <2>3. buf' \in [Threads -> SUBSET Blocks]
    BY <2>0 DEF Brelse
  <2> HIDE DEF l
  <2> QED BY <1>1, <2>1, <2>2, <2>3, CalmMove, ZenonT(40)
<1>4. /\ cache' \in [Blocks -> OnDisk \cup {NotCached}]
      /\ \A x \in Blocks : Content(cache', x) = Content(cache, x)
      /\ \A x \in Blocks : cache'[x] # NotCached /\ pins[x] = 0 => cache'[x] = home[x]
  BY <1>1, <1>2, ZenonT(40) DEF TypeOK, Clean
<1> QED BY <1>1, <1>2, <1>3, <1>4, CalmStep, ZenonT(40)

(* begin_op() waits, or lets a thread into an operation. *)
LEMMA BeginOpInv ==
  ASSUME IInv, NEW t \in Threads, begin_op(t)
  PROVE  IInv'
<1>1. TypeOK /\ Headers /\ Counted /\ Clean /\ Panicked /\ panic = "" /\ Up
  BY ZenonT(40) DEF IInv, begin_op, Up
<1>2. /\ UNCHANGED <<diskVars, lh, committing, cache, pins, buf, tail, panic>>
      /\ pc[t] \in {"user", "begin_op"}
  BY DEF begin_op, bufVars
<1>3. CASE committing \/ NoSpace
  <2>1. UNCHANGED <<diskVars, logVars, pins, tail, panic>> /\ pc' = [pc EXCEPT ![t] = "asleep"]
    BY <1>2, <1>3 DEF begin_op, Goto, logVars
  <2>2. /\ pc' \in [Threads -> Pcs] /\ buf' \in [Threads -> SUBSET Blocks]
        /\ \A u \in Threads : \/ pc'[u] = pc[u]
                              \/ pc[u] \in Calm /\ pc'[u] \in Calm
                              \/ pc[u] \in Active /\ pc'[u] \in Active
    BY <1>1, <1>2, <2>1, ZenonT(40) DEF TypeOK, Pcs, Calm
  <2>3. /\ cache' \in [Blocks -> OnDisk \cup {NotCached}]
        /\ \A x \in Blocks : Content(cache', x) = Content(cache, x)
        /\ \A x \in Blocks : cache'[x] # NotCached /\ pins[x] = 0 => cache'[x] = home[x]
    BY <1>1, <1>2, ZenonT(40) DEF TypeOK, Clean
  <2> QED BY <1>1, <2>1, <2>2, <2>3, CalmStep, ZenonT(40)
<1>4. CASE ~(committing \/ NoSpace)
  <2>0. outstanding \in Nat
    BY ZenonT(40), <1>1 DEF TypeOK
  <2>1. pc' = [pc EXCEPT ![t] = "op"] /\ outstanding' = outstanding + 1 /\ ~committing
    BY <1>4 DEF begin_op, Goto
  <2>2. Open
    BY <1>1, <2>1, UpPhase, ZenonT(40) DEF Commits
  <2>3. TypeOK'
    <3>1. pc' \in [Threads -> Pcs]
      BY <1>1, <2>1, ZenonT(40) DEF TypeOK, Pcs, Active
    <3>2. outstanding' \in Nat
      BY <2>0, <2>1
    <3> QED BY ZenonT(40), <1>1, <1>2, <3>1, <3>2 DEF TypeOK, diskVars
  <2>4. Counted'
    <3>1. ActiveThreads' = ActiveThreads \cup {t} /\ t \notin ActiveThreads
      BY <1>1, <1>2, <2>1, ZenonT(40) DEF ActiveThreads, Active, TypeOK
    <3> QED BY <1>1, <2>1, <3>1, ActiveFinite, FS_AddElement, ZenonT(40)
       DEF Counted
  <2>5. Open'
    <3>1. \A u \in Threads : pc'[u] \in Calm \cup Active
      BY <1>1, <2>1, <2>2, ZenonT(40) DEF Open, TypeOK, Active
    <3>2. outstanding' # 0
      BY <2>0, <2>1
    <3> QED BY ZenonT(40), <1>2, <2>2, <3>1, <3>2 DEF Open, Pinned, diskVars
  <2>6. Headers' /\ Clean'
    BY ZenonT(40), <1>1, <1>2 DEF Headers, IsHeader, Clean, diskVars
  <2>7. Panicked'
    BY ZenonT(40), <1>1, <1>2 DEF Panicked
  <2> QED BY <2>3, <2>4, <2>5, <2>6, <2>7 DEF IInv, Phase
<1> QED BY <1>3, <1>4

(* bget() finds no buffer: the kernel stops. *)
LEMMA NoBuffersInv ==
  ASSUME IInv, NEW t \in Threads, NoBuffers(t)
  PROVE  IInv'
<1>1. /\ Up /\ panic = "" /\ panic' = "bget: no buffers"
      /\ UNCHANGED <<diskVars, logVars, bufVars, threadVars>>
  BY ZenonT(40) DEF NoBuffers, Up
<1>2. TypeOK' /\ Headers' /\ Counted'
  BY ZenonT(40), <1>1 DEF IInv, TypeOK, Headers, IsHeader, Counted, ActiveThreads,
       diskVars, logVars, bufVars, threadVars
<1>3. Clean' /\ Panicked'
  BY ZenonT(40), <1>1 DEF IInv, Clean, Panicked, diskVars, logVars, bufVars, threadVars
<1>4. Open => Open'
  BY ZenonT(40), <1>1 DEF Open, Pinned, diskVars, logVars, bufVars, threadVars
<1>5. ASSUME NEW u \in Threads PROVE Commits(u) => Commits(u)'
  BY ZenonT(40), <1>1 DEF Commits, Copying, ReadyToCommit, Installing, AllInstalled,
       Emptied, Installed, Copied, Pinned, bread, Cached,
       diskVars, logVars, bufVars, threadVars
<1> QED BY <1>1, <1>2, <1>3, <1>4, <1>5, UpPhase, ZenonT(40) DEF IInv, Phase

(* A new entry of the log header, and its pin. *)
LEMMA NewEntry ==
  ASSUME TypeOK, IsHeader(lh), Len(lh) < LOGSIZE, Pinned(0), NEW b \in Blocks,
         lh' = Absorb(b), pins' = bpin(b)
  PROVE  /\ lh' \in Seq(Blocks) /\ IsHeader(lh') /\ Pinned(0)'
         /\ pins' \in [Blocks -> Nat] /\ pins'[b] > 0
         /\ \A x \in Blocks : x # b => pins'[x] = pins[x]
<1>1. lh \in Seq(Blocks) /\ pins \in [Blocks -> Nat]
  BY ZenonT(40) DEF TypeOK
<1>2. CASE b \in Range(lh)
  <2>1. lh' = lh /\ pins' = pins
    BY <1>1, <1>2 DEF Absorb, bpin
  <2>2. PICK k \in 1 .. Len(lh) : lh[k] = b
    BY <1>1, <1>2 DEF Range
  <2>3. pins[b] = 1
    BY <1>1, <2>2 DEF Pinned
  <2> QED BY <1>1, <2>1, <2>3 DEF Pinned
<1>3. CASE b \notin Range(lh)
  <2>1. lh' = Append(lh, b) /\ pins' = [pins EXCEPT ![b] = @ + 1]
    BY <1>1, <1>3 DEF Absorb, bpin
  <2>2. \A k \in 1 .. Len(lh) : lh[k] # b
    BY <1>1, <1>3 DEF Range
  <2>3. pins[b] = 0
    BY ZenonT(40), <1>1, <2>2 DEF Pinned
  <2>4. /\ Len(lh') = Len(lh) + 1 /\ lh'[Len(lh) + 1] = b
        /\ \A k \in 1 .. Len(lh) : lh'[k] = lh[k]
    BY <1>1, <2>1
  <2>5. IsHeader(lh')
    BY <1>1, <2>2, <2>4, LogAssumption DEF IsHeader
  <2>6. ASSUME NEW x \in Blocks
        PROVE  pins'[x] = IF \E k \in 1 .. Len(lh') : k > 0 /\ lh'[k] = x THEN 1 ELSE 0
    <3>1. CASE x = b
      BY <1>1, <2>1, <2>3, <2>4, <3>1
    <3>2. CASE x # b
      <4>1. pins'[x] = pins[x]
        BY <1>1, <2>1, <3>2
      <4>2. (\E k \in 1 .. Len(lh') : k > 0 /\ lh'[k] = x)
              <=> \E k \in 1 .. Len(lh) : k > 0 /\ lh[k] = x
        <5>1. Len(lh) \in Nat
          BY <1>1
        <5> QED BY ONLY <2>4, <3>2, <5>1
      <4>3. pins[x] = IF \E k \in 1 .. Len(lh) : k > 0 /\ lh[k] = x THEN 1 ELSE 0
        BY ZenonT(40) DEF Pinned
      <4> QED BY ONLY ZenonT(40), <4>1, <4>2, <4>3
    <3> QED BY <3>1, <3>2
  <2> QED BY <1>1, <2>1, <2>3, <2>5, <2>6 DEF Pinned
<1> QED BY <1>2, <1>3

(* log_write() *)
LEMMA LogWriteInv ==
  ASSUME IInv, NEW t \in Threads, NEW d \in Data, log_write(t, d)
  PROVE  IInv'
<1>1. TypeOK /\ Headers /\ Counted /\ Clean /\ Panicked /\ panic = "" /\ Up
  BY ZenonT(40) DEF IInv, log_write, Up
<1>2. pc[t] = "op_buf" /\ UNCHANGED <<diskVars, outstanding, committing, tail>>
  BY ZenonT(40) DEF log_write
<1>3. Open
  BY <1>2, PhaseOf DEF Active
<1>4. outstanding # 0 /\ outstanding \in Nat
  <2>1. outstanding \in Nat
    BY ZenonT(40), <1>1 DEF TypeOK
  <2>2. pc[t] \in Active
    BY <1>2 DEF Active
  <2> QED BY <1>1, <2>1, <2>2, NoneActive, ZenonT(40) DEF ZeroMeansNone
<1>5. PICK b \in buf[t] :
        /\ cache' = [cache EXCEPT ![b] = d]
        /\ panic' = LogWritePanic
        /\ IF LogWritePanic = ""
           THEN /\ lh' = Absorb(b)
                /\ pins' = bpin(b)
                /\ buf' = [buf EXCEPT ![t] = {}]
                /\ pc' = [pc EXCEPT ![t] = "op"]
           ELSE UNCHANGED <<lh, pins, buf, pc>>
  BY ZenonT(40) DEF log_write, Goto
<1>6. b \in Blocks
  BY ZenonT(40), <1>1 DEF TypeOK
<1>7. cache' \in [Blocks -> OnDisk \cup {NotCached}]
  BY <1>1, <1>5, ZenonT(40) DEF TypeOK, OnDisk
<1>8. \A x \in Blocks : x # b => cache'[x] = cache[x]
  BY <1>1, <1>5, ZenonT(40) DEF TypeOK
<1>9. CASE LogWritePanic = ""
  <2>1. /\ lh' = Absorb(b) /\ pins' = bpin(b) /\ panic' = ""
        /\ buf' = [buf EXCEPT ![t] = {}] /\ pc' = [pc EXCEPT ![t] = "op"]
    BY <1>5, <1>9, ZenonT(40)
  <2>2. Len(lh) < LOGSIZE
    <3>1. ~(Len(lh) >= LOGSIZE)
      BY ZenonT(40), <1>9 DEF LogWritePanic
    <3>2. Len(lh) \in Nat
      BY <1>1, Entries, ZenonT(40)
    <3> QED BY <3>1, <3>2, LogAssumption
  <2>3. Pinned(0) /\ IsHeader(lh)
    BY <1>1, <1>3, ZenonT(40) DEF Open, Headers
  <2>4. /\ lh' \in Seq(Blocks) /\ IsHeader(lh') /\ Pinned(0)'
        /\ pins' \in [Blocks -> Nat] /\ pins'[b] > 0
        /\ \A x \in Blocks : x # b => pins'[x] = pins[x]
    BY <1>1, <1>6, <2>1, <2>2, <2>3, NewEntry, ZenonT(40)
  <2>5. /\ pc' \in [Threads -> Pcs]
        /\ \A u \in Threads : \/ pc'[u] = pc[u]
                              \/ pc[u] \in Calm /\ pc'[u] \in Calm
                              \/ pc[u] \in Active /\ pc'[u] \in Active
    <3>1. pc[t] \in Active /\ "op" \in Active
      BY <1>2 DEF Active
    <3> QED BY ZenonT(40), <1>1, <2>1, <3>1, CalmMove
  <2>6. TypeOK'
    <3>1. buf' \in [Threads -> SUBSET Blocks]
      BY <1>1, <2>1, ZenonT(40) DEF TypeOK
    <3> QED BY ZenonT(40), <1>1, <1>2, <1>7, <2>4, <2>5, <3>1 DEF TypeOK, diskVars
  <2>7. Headers'
    BY <1>1, <1>2, <2>4, ZenonT(40) DEF Headers, diskVars, IsHeader
  <2>8. Counted'
    <3>1. \A u \in Threads : pc'[u] \in Active <=> pc[u] \in Active
      BY ZenonT(40), <2>5 DEF Calm, Active
    <3> QED BY <1>1, <1>2, <3>1, SameActive, ZenonT(40)
  <2>9. Clean'
    <3> SUFFICES ASSUME NEW x \in Blocks, cache'[x] # NotCached, pins'[x] = 0
                 PROVE  cache'[x] = home'[x]
      BY ZenonT(40) DEF Clean
    <3>1. x # b
      BY <2>4
    <3> QED BY <1>1, <1>2, <1>8, <2>4, <3>1, ZenonT(40) DEF Clean, diskVars
  <2>10. Panicked'
    BY <2>1, ZenonT(40) DEF Panicked
  <2>11. Open'
    <3>1. \A u \in Threads : pc'[u] \in Calm \cup Active
      BY ZenonT(40), <1>3, <2>5 DEF Open
    <3> QED BY ZenonT(40), <1>2, <1>3, <1>4, <2>4, <3>1 DEF Open, diskVars
  <2> QED BY <2>6, <2>7, <2>8, <2>9, <2>10, <2>11 DEF IInv, Phase
<1>10. CASE LogWritePanic # ""
  <2>1. UNCHANGED <<lh, pins, buf, pc>> /\ panic' = LogWritePanic
    BY <1>5, <1>10, ZenonT(40)
  <2>2. panic' \notin {"", "bget: no buffers"}
    BY ZenonT(40), <1>10, <2>1 DEF LogWritePanic
  <2>3. TypeOK' /\ Headers' /\ Counted'
    BY ZenonT(40), <1>1, <1>2, <1>7, <2>1 DEF TypeOK, Headers, IsHeader, Counted,
         ActiveThreads, diskVars
  <2>4. Clean'
    BY ZenonT(40), <2>2 DEF Clean
  <2>5. Panicked'
    <3>1. outstanding' > 0
      BY <1>2, <1>4
    <3> QED BY <3>1, ZenonT(40) DEF Panicked
  <2>6. Open'
    BY ZenonT(40), <1>2, <1>3, <2>1 DEF Open, Pinned, diskVars
  <2> QED BY <2>3, <2>4, <2>5, <2>6 DEF IInv, Phase
<1> QED BY <1>9, <1>10, ZenonT(40)

(* end_op() of the last operation begins the commit. *)
LEMMA EndOpInv ==
  ASSUME IInv, NEW t \in Threads, end_op(t)
  PROVE  IInv'
<1>1. TypeOK /\ Headers /\ Counted /\ Clean /\ panic = "" /\ pc[t] = "op"
  BY ZenonT(40) DEF IInv, end_op, Up
<1>2. Open
  BY <1>1, PhaseOf, ZenonT(40) DEF Active
<1>3. /\ outstanding' = outstanding - 1 /\ panic' = ""
      /\ UNCHANGED <<diskVars, lh, cache, pins, buf, tail>>
  BY <1>2, ZenonT(40) DEF end_op, Open, bufVars
<1>4. outstanding \in Nat /\ outstanding # 0
  <2>1. outstanding \in Nat
    BY ZenonT(40), <1>1 DEF TypeOK
  <2>2. pc[t] \in Active
    BY <1>1, ZenonT(40) DEF Active
  <2> QED BY <1>1, <2>1, <2>2, NoneActive, ZenonT(40) DEF ZeroMeansNone
<1>0. outstanding' \in Nat
  <2>1. outstanding' = outstanding - 1
    BY ZenonT(40), <1>3
  <2> QED BY ONLY <1>4, <2>1
<1>5. Headers' /\ Clean' /\ Panicked'
  BY ZenonT(40), <1>1, <1>3 DEF Headers, IsHeader, Clean, Panicked, diskVars
<1>6. pc \in [Threads -> Pcs] /\ \A u \in Threads : pc[u] \in Calm \cup Active /\ tail[u] = 0
  BY ZenonT(40), <1>1, <1>2 DEF Open, TypeOK
<1>7. ASSUME pc' \in [Threads -> Pcs], pc'[t] \notin Active, committing' \in BOOLEAN,
             \A u \in Threads \ {t} : pc'[u] \in Active <=> pc[u] \in Active
      PROVE  TypeOK' /\ Counted'
  <2>2. TypeOK'
    BY ZenonT(40), <1>1, <1>3, <1>7, <1>0 DEF TypeOK, diskVars
  <2>3. ActiveThreads' = ActiveThreads \ {t} /\ t \in ActiveThreads
    BY <1>1, <1>7, ZenonT(40) DEF ActiveThreads, Active
  <2> QED BY <1>1, <1>3, <2>2, <2>3, ActiveFinite, FS_RemoveElement,
     ZenonT(40)
     DEF Counted
<1>8. CASE outstanding' = 0
  <2>1. /\ committing' = TRUE
        /\ pc' = [pc EXCEPT ![t] = IF CommitNeeded THEN "write_log" ELSE "end_op"]
    BY <1>8, ZenonT(40) DEF end_op, Goto
  <2>2. \A u \in Threads \ {t} : pc'[u] = pc[u]
    BY <1>6, <2>1
  <2>3. pc'[t] = IF CommitNeeded THEN "write_log" ELSE "end_op"
    BY <1>6, <2>1
  <2>4. pc' \in [Threads -> Pcs]
    BY <1>6, <2>1 DEF Pcs, Committing
  <2>5. TypeOK' /\ Counted'
    <3>1. pc'[t] \notin Active
      BY ZenonT(40), <2>3 DEF Active
    <3> QED BY <1>7, <2>1, <2>2, <2>4, <3>1
  <2>6. \A u \in Threads \ {t} : pc'[u] \in Calm /\ tail'[u] = 0
    <3>1. \A u \in Threads : pc'[u] \notin Active
      BY <1>8, <2>5, NoneActiveNext DEF ZeroMeansNone
    <3> QED BY ZenonT(40), <1>3, <1>6, <2>2, <3>1
  <2>7. tail'[t] = 0 /\ hdr' = << >> /\ Pinned(0)'
    BY ZenonT(40), <1>2, <1>3 DEF Open, Pinned, diskVars
  <2>8. CASE CommitNeeded
    <3>1. tail'[t] < Len(lh')
      BY <1>3, <2>7, <2>8, ZenonT(40) DEF CommitNeeded
    <3>2. Copied(tail[t])'
      BY <2>7 DEF Copied
    <3>3. Copying(t)'
      BY <2>3, <2>7, <2>8, <3>1, <3>2 DEF Copying
    <3> QED BY <1>5, <1>8, <2>1, <2>5, <2>6, <3>3 DEF IInv, Phase, Commits
  <2>9. CASE ~CommitNeeded
    <3>0. lh \in Seq(Blocks)
      BY ZenonT(40), <1>1 DEF TypeOK
    <3>1. lh' = << >>
      <4>1. lh = << >>
        BY ONLY <2>9, <3>0 DEF CommitNeeded
      <4> QED BY ZenonT(40), <1>3, <4>1
    <3>2. Emptied(t)'
      BY <2>3, <2>7, <2>9, <3>1 DEF Emptied
    <3> QED BY <1>5, <1>8, <2>1, <2>5, <2>6, <3>2 DEF IInv, Phase, Commits
  <2> QED BY <2>8, <2>9
<1>9. CASE outstanding' # 0
  <2>1. /\ committing' = committing
        /\ pc' = [u \in Threads |-> IF u = t THEN "user"
                                    ELSE IF pc[u] = "asleep" THEN "begin_op" ELSE pc[u]]
    BY <1>9, ZenonT(40) DEF end_op, WakeupGoto
  <2>2. pc' \in [Threads -> Pcs] /\ \A u \in Threads : pc'[u] \in Calm \cup Active
    BY <1>6, <2>1 DEF Calm, Active, Pcs
  <2>3. TypeOK' /\ Counted'
    <3>1. pc'[t] = "user" /\ "user" \notin Active
      BY ZenonT(40), <2>1 DEF Active
    <3>2. \A u \in Threads \ {t} : pc'[u] \in Active <=> pc[u] \in Active
      BY ZenonT(40), <2>1 DEF Active
    <3>3. committing' \in BOOLEAN
      BY ZenonT(40), <1>1, <2>1 DEF TypeOK
    <3> QED BY <1>7, <2>2, <3>1, <3>2, <3>3
  <2>4. Open'
    BY ZenonT(40), <1>2, <1>3, <1>9, <2>1, <2>2 DEF Open, Pinned, diskVars
  <2> QED BY <1>5, <2>3, <2>4 DEF IInv, Phase
<1> QED BY <1>8, <1>9

-----------------------------------------------------------------------------
(* commit() *)

(* Recycling a buffer and filling another one with v. *)
LEMMA FillSafe ==
  ASSUME TypeOK, Clean, panic = "", NEW b \in Blocks, NEW v \in OnDisk,
         \E c \in Recycle : cache' = [c EXCEPT ![b] = v]
  PROVE  /\ cache' \in [Blocks -> OnDisk \cup {NotCached}]
         /\ cache'[b] = v /\ v # NotCached
         /\ \A x \in Blocks \ {b} : Content(cache', x) = Content(cache, x)
         /\ \A x \in Blocks \ {b} :
              cache'[x] # NotCached /\ pins[x] = 0 => cache'[x] = home[x]
<1>0. PICK c \in Recycle : cache' = [c EXCEPT ![b] = v]
  BY ZenonT(40)
<1>1. /\ c \in [Blocks -> OnDisk \cup {NotCached}]
      /\ \A x \in Blocks : Content(c, x) = Content(cache, x)
      /\ \A x \in Blocks : c[x] # NotCached /\ pins[x] = 0 => c[x] = home[x]
  BY RecycleSafe, ZenonT(40)
<1>2. v # NotCached
  BY LogAssumption, ZenonT(40) DEF OnDisk
<1>3. cache'[b] = v /\ \A x \in Blocks \ {b} : cache'[x] = c[x]
  BY <1>0, <1>1, ZenonT(40)
<1>4. cache' \in [Blocks -> OnDisk \cup {NotCached}]
  BY <1>0, <1>1, ZenonT(40)
<1> QED BY ZenonT(40), <1>1, <1>2, <1>3, <1>4 DEF Content

(* What bread() returns is what a disk can hold. *)
LEMMA BreadType ==
  ASSUME TypeOK, NEW b \in Blocks
  PROVE  bread(b) \in OnDisk
<1>1. home[b] \in OnDisk /\ cache[b] \in OnDisk \cup {NotCached}
  BY DEF TypeOK
<1> QED BY ZenonT(40), <1>1 DEF bread, Cached

(* A turn of a loop over the entries of lh. *)
LEMMA LoopTurn ==
  ASSUME TypeOK, NEW t \in Threads, NEW l \in Pcs, Loop(t, l), tail[t] < Len(lh)
  PROVE  /\ pc' \in [Threads -> Pcs] /\ tail' \in [Threads -> Nat]
         /\ \A u \in Threads \ {t} : pc'[u] = pc[u] /\ tail'[u] = tail[u]
         /\ \/ tail[t] + 1 = Len(lh) /\ pc'[t] = l /\ tail'[t] = 0
            \/ /\ tail[t] + 1 < Len(lh) /\ pc'[t] = pc[t]
               /\ tail'[t] = tail[t] + 1
<1>1. pc \in [Threads -> Pcs] /\ tail \in [Threads -> Nat]
  BY ZenonT(40) DEF TypeOK
<1>2. Len(lh) \in Nat
  BY Entries
<1>3. CASE tail[t] + 1 = Len(lh)
  <2>1. pc' = [pc EXCEPT ![t] = l] /\ tail' = [tail EXCEPT ![t] = 0]
    BY <1>3 DEF Loop, Goto
  <2> QED BY <1>1, <1>3, <2>1
<1>4. CASE tail[t] + 1 # Len(lh)
  <2>1. pc' = pc /\ tail' = [tail EXCEPT ![t] = @ + 1]
    BY <1>4 DEF Loop
  <2> QED BY <1>1, <1>2, <1>4, <2>1
<1> QED BY <1>3, <1>4

(* The thread that commits, at a step that is not the end of commit().     *)
LEMMA StillCommits ==
  ASSUME IInv, NEW t \in Threads, Commits(t), UNCHANGED <<outstanding, committing>>,
         \A u \in Threads \ {t} : pc'[u] = pc[u] /\ tail'[u] = tail[u],
         pc'[t] \in Committing
  PROVE  /\ Counted'
         /\ committing' /\ outstanding' = 0
         /\ \A u \in Threads \ {t} : pc'[u] \in Calm /\ tail'[u] = 0
<1>1. Counted
  BY DEF IInv
<1>2. pc[t] \in Committing
  BY ZenonT(40) DEF Commits, Copying, ReadyToCommit, Installing,
       AllInstalled, Emptied, Committing
<1>3. \A u \in Threads : pc'[u] \in Active <=> pc[u] \in Active
  <2>1. \A l \in Committing : l \notin Active
    BY ZenonT(40) DEF Active, Committing
  <2> QED BY ZenonT(40), <1>2, <2>1
<1>4. Counted'
  BY <1>1, <1>3, SameActive
<1> QED BY ZenonT(40), <1>4 DEF Commits

(* A turn of write_log(). *)
LEMMA WriteLogInv ==
  ASSUME IInv, NEW t \in Threads, write_log(t)
  PROVE  IInv'
<1>1. TypeOK /\ Headers /\ Counted /\ Clean /\ panic = "" /\ pc[t] = "write_log"
  BY ZenonT(40) DEF IInv, write_log, Up
<1>2. Commits(t)
  BY <1>1, PhaseOf, ZenonT(40) DEF Committing
<1>3. Copying(t)
  BY ZenonT(40), <1>1, <1>2 DEF Commits, Copying, ReadyToCommit, Installing,
       AllInstalled, Emptied
<1> DEFINE m == tail[t] + 1
           b == lh[m]
<1>4. /\ \E c \in Recycle : cache' = [c EXCEPT ![b] = bread(b)]
      /\ logblk' = [logblk EXCEPT ![m] = bread(b)]
      /\ Loop(t, "write_head")
      /\ UNCHANGED <<home, hdr, pins, buf, panic>>
      /\ UNCHANGED <<lh, outstanding, committing>>
  BY ZenonT(40) DEF write_log, logVars
<1>5. /\ tail[t] \in Nat /\ Len(lh) \in Nat /\ Len(lh) <= LOGSIZE
      /\ tail[t] < Len(lh) /\ \A k \in 1 .. Len(lh) : lh[k] \in Blocks
  BY <1>1, <1>3, Entries, ZenonT(40) DEF Copying, Headers, IsHeader
<1>6. m \in 1 .. Len(lh) /\ m \in 1 .. LOGSIZE /\ b \in Blocks
  BY <1>5, LogAssumption
<1>7. bread(b) \in OnDisk
  BY <1>1, <1>6, BreadType, ZenonT(40)
<1>8. /\ pc' \in [Threads -> Pcs] /\ tail' \in [Threads -> Nat]
      /\ \A u \in Threads \ {t} : pc'[u] = pc[u] /\ tail'[u] = tail[u]
      /\ \/ m = Len(lh) /\ pc'[t] = "write_head" /\ tail'[t] = 0
         \/ m < Len(lh) /\ pc'[t] = pc[t] /\ tail'[t] = m
  BY <1>1, <1>4, <1>5, LoopTurn, ZenonT(40) DEF Pcs, Committing
<1> HIDE DEF m, b
<1>9. /\ cache' \in [Blocks -> OnDisk \cup {NotCached}]
      /\ cache'[b] = bread(b) /\ bread(b) # NotCached
      /\ \A x \in Blocks \ {b} : Content(cache', x) = Content(cache, x)
      /\ \A x \in Blocks \ {b} : cache'[x] # NotCached /\ pins[x] = 0 => cache'[x] = home[x]
  BY <1>1, <1>4, <1>6, <1>7, FillSafe, ZenonT(40)
<1>10. \A x \in Blocks : bread(x)' = bread(x)
  BY ZenonT(40), <1>4, <1>9 DEF bread, Cached, Content
<1>11. TypeOK'
  <2>1. logblk' \in [1 .. LOGSIZE -> OnDisk]
    BY <1>1, <1>4, <1>6, <1>7, ZenonT(40) DEF TypeOK
  <2> QED BY ZenonT(40), <1>1, <1>4, <1>8, <1>9, <2>1 DEF TypeOK
<1>12. Headers' /\ Panicked'
  BY ZenonT(40), <1>1, <1>4 DEF Headers, IsHeader, Panicked
<1>13. Clean'
  <2>1. pins[b] = 1
    BY <1>3, <1>5, <1>6 DEF Copying, Pinned, b
  <2>2. \A x \in Blocks : pins[x] = 0 => x # b
    BY <2>1
  <2> QED BY ZenonT(40), <1>4, <1>9, <2>2 DEF Clean
<1>14. Pinned(0)' /\ hdr' = << >>
  BY ZenonT(40), <1>3, <1>4 DEF Copying, Pinned
<1>15. \A k \in 1 .. m : logblk'[k] = bread(lh[k])
  <2>1. \A k \in 1 .. tail[t] : logblk[k] = bread(lh[k])
    BY <1>3 DEF Copying, Copied
  <2>2. \A k \in 1 .. tail[t] : logblk'[k] = logblk[k] /\ k \in 1 .. LOGSIZE
    <3>1. \A k \in 1 .. tail[t] : k # m /\ k \in 1 .. LOGSIZE
      BY <1>5, LogAssumption DEF m
    <3>2. logblk \in [1 .. LOGSIZE -> OnDisk]
      BY ZenonT(40), <1>1 DEF TypeOK
    <3> QED BY <1>4, <3>1, <3>2
  <2>3. logblk'[m] = bread(b)
    BY <1>1, <1>4, <1>6, ZenonT(40) DEF TypeOK
  <2>4. \A k \in 1 .. m : k = m \/ k \in 1 .. tail[t]
    BY <1>5 DEF m
  <2> QED BY ZenonT(40), <2>1, <2>2, <2>3, <2>4 DEF b
<1>16. \A k \in 1 .. m : logblk'[k] = bread(lh[k])' /\ lh'[k] = lh[k]
  <2>1. \A k \in 1 .. m : lh[k] \in Blocks
    BY <1>5, <1>6
  <2> QED BY ZenonT(40), <1>4, <1>10, <1>15, <2>1
<1>17. Copying(t)' \/ ReadyToCommit(t)'
  <2>1. CASE m = Len(lh) /\ pc'[t] = "write_head" /\ tail'[t] = 0
    <3>1. Copied(Len(lh))'
      BY ZenonT(40), <1>4, <1>16, <2>1 DEF Copied
    <3>2. Len(lh') > 0
      BY <1>4, <1>5
    <3> QED BY <1>14, <2>1, <3>1, <3>2 DEF ReadyToCommit
  <2>2. CASE m < Len(lh) /\ pc'[t] = pc[t] /\ tail'[t] = m
    <3>1. Copied(tail[t])'
      BY ZenonT(40), <1>4, <1>16, <2>2 DEF Copied
    <3> QED BY <1>1, <1>4, <1>14, <2>2, <3>1, ZenonT(40) DEF Copying
  <2> QED BY <1>8, <2>1, <2>2
<1>18. pc'[t] \in Committing
  BY ZenonT(40), <1>1, <1>8 DEF Committing
<1>19. /\ Counted' /\ committing' /\ outstanding' = 0
       /\ \A u \in Threads \ {t} : pc'[u] \in Calm /\ tail'[u] = 0
  BY <1>2, <1>4, <1>8, <1>18, StillCommits
<1> QED BY ZenonT(40), <1>11, <1>12, <1>13, <1>17, <1>19 DEF IInv, Phase, Commits

(* The thread that commits has written the blocks of the log, and writes    *)
(* the header: the commit.                                                  *)
LEMMA WriteHeadInv ==
  ASSUME IInv, NEW t \in Threads, write_head(t)
  PROVE  IInv'
<1>1. TypeOK /\ Headers /\ Counted /\ Clean /\ panic = "" /\ pc[t] = "write_head"
  BY ZenonT(40) DEF IInv, write_head, Up
<1>2. Commits(t)
  BY <1>1, PhaseOf, ZenonT(40) DEF Committing
<1>3. ReadyToCommit(t)
  BY ZenonT(40), <1>1, <1>2 DEF Commits, Copying, ReadyToCommit, Installing,
       AllInstalled, Emptied
<1>4. /\ hdr' = lh /\ cache' \in Recycle
      /\ pc' = [pc EXCEPT ![t] = "install_trans"]
      /\ UNCHANGED <<home, logblk, pins, buf, tail, panic>>
      /\ UNCHANGED <<lh, outstanding, committing>>
  BY DEF write_head, Goto, logVars
<1>5. /\ cache' \in [Blocks -> OnDisk \cup {NotCached}]
      /\ \A x \in Blocks : Content(cache', x) = Content(cache, x)
      /\ \A x \in Blocks : cache'[x] # NotCached /\ pins[x] = 0 => cache'[x] = home[x]
  BY <1>1, <1>4, RecycleSafe, ZenonT(40)
<1>6. /\ pc' \in [Threads -> Pcs] /\ pc'[t] = "install_trans"
      /\ \A u \in Threads \ {t} : pc'[u] = pc[u]
  BY <1>1, <1>4, ZenonT(40) DEF TypeOK, Pcs, Committing
<1>7. \A x \in Blocks : bread(x)' = bread(x)
  BY ZenonT(40), <1>4, <1>5 DEF bread, Cached, Content
<1>8. TypeOK'
  BY ZenonT(40), <1>1, <1>4, <1>5, <1>6 DEF TypeOK
<1>9. Headers' /\ Panicked' /\ Clean'
  BY ZenonT(40), <1>1, <1>4, <1>5 DEF Headers, IsHeader, Panicked, Clean
<1>10. Installing(t)'
  <2>1. Copied(Len(lh))'
    <3>1. \A k \in 1 .. Len(lh) : lh[k] \in Blocks
      BY <1>1, Entries, ZenonT(40)
    <3> QED BY ZenonT(40), <1>3, <1>4, <1>7, <3>1 DEF ReadyToCommit, Copied
  <2>2. tail'[t] = 0 /\ Pinned(tail[t])'
    BY ZenonT(40), <1>3, <1>4 DEF ReadyToCommit, Pinned
  <2>3. Installed(tail[t])'
    BY <2>2 DEF Installed
  <2>4. tail'[t] < Len(lh')
    BY <1>3, <1>4, <2>2 DEF ReadyToCommit
  <2> QED BY <1>4, <1>6, <2>1, <2>2, <2>3, <2>4 DEF Installing
<1>11. pc'[t] \in Committing
  BY ZenonT(40), <1>6 DEF Committing
<1>12. /\ Counted' /\ committing' /\ outstanding' = 0
       /\ \A u \in Threads \ {t} : pc'[u] \in Calm /\ tail'[u] = 0
  BY <1>2, <1>4, <1>6, <1>11, StillCommits
<1> QED BY ZenonT(40), <1>8, <1>9, <1>10, <1>12 DEF IInv, Phase, Commits

(* The header is cleared after all blocks have been installed. *)
LEMMA ClearHeadInv ==
  ASSUME IInv, NEW t \in Threads, clear_head(t)
  PROVE  IInv'
<1>1. TypeOK /\ Headers /\ Counted /\ Clean /\ panic = "" /\ pc[t] = "clear_head"
  BY ZenonT(40) DEF IInv, clear_head, Up
<1>2. Commits(t)
  BY <1>1, PhaseOf, ZenonT(40) DEF Committing
<1>3. AllInstalled(t)
  BY ZenonT(40), <1>1, <1>2 DEF Commits, Copying, ReadyToCommit, Installing,
       AllInstalled, Emptied
<1>4. /\ hdr' = lh /\ cache' \in Recycle
      /\ pc' = [pc EXCEPT ![t] = "end_op"]
      /\ UNCHANGED <<home, logblk, pins, buf, tail, panic>>
      /\ UNCHANGED <<lh, outstanding, committing>>
  BY DEF clear_head, Goto, logVars
<1>5. /\ cache' \in [Blocks -> OnDisk \cup {NotCached}]
      /\ \A x \in Blocks : cache'[x] # NotCached /\ pins[x] = 0 => cache'[x] = home[x]
  BY <1>1, <1>4, RecycleSafe, ZenonT(40)
<1>6. /\ pc' \in [Threads -> Pcs] /\ pc'[t] = "end_op"
      /\ \A u \in Threads \ {t} : pc'[u] = pc[u]
  BY <1>1, <1>4, ZenonT(40) DEF TypeOK, Pcs, Committing
<1>7. TypeOK'
  BY ZenonT(40), <1>1, <1>4, <1>5, <1>6 DEF TypeOK
<1>8. Headers' /\ Panicked' /\ Clean'
  BY ZenonT(40), <1>1, <1>4, <1>5 DEF Headers, IsHeader, Panicked, Clean
<1>9. Emptied(t)'
  <2>1. Pinned(0)'
    BY ZenonT(40), <1>3, <1>4 DEF AllInstalled, Pinned
  <2>2. lh' = << >> /\ hdr' = << >> /\ tail'[t] = 0
    BY <1>3, <1>4 DEF AllInstalled
  <2> QED BY <1>6, <2>1, <2>2 DEF Emptied
<1>10. pc'[t] \in Committing
  BY ZenonT(40), <1>6 DEF Committing
<1>11. /\ Counted' /\ committing' /\ outstanding' = 0
       /\ \A u \in Threads \ {t} : pc'[u] \in Calm /\ tail'[u] = 0
  BY <1>2, <1>4, <1>6, <1>10, StillCommits
<1> QED BY ZenonT(40), <1>7, <1>8, <1>9, <1>11 DEF IInv, Phase, Commits

(* The end of end_op(): the log is open again. *)
LEMMA CommittedInv ==
  ASSUME IInv, NEW t \in Threads, Committed(t)
  PROVE  IInv'
<1>1. TypeOK /\ Headers /\ Counted /\ Clean /\ panic = "" /\ pc[t] = "end_op"
  BY ZenonT(40) DEF IInv, Committed, Up
<1>2. Commits(t)
  BY <1>1, PhaseOf, ZenonT(40) DEF Committing
<1>3. Emptied(t)
  BY ZenonT(40), <1>1, <1>2 DEF Commits, Copying, ReadyToCommit, Installing,
       AllInstalled, Emptied
<1>4. /\ committing' = FALSE
      /\ pc' = [u \in Threads |-> IF u = t THEN "user"
                                  ELSE IF pc[u] = "asleep" THEN "begin_op" ELSE pc[u]]
      /\ UNCHANGED <<home, hdr, logblk, lh, outstanding, cache, pins, buf, tail, panic>>
  BY DEF Committed, WakeupGoto, diskVars, bufVars
<1>5. \A u \in Threads : pc'[u] \in Calm /\ tail'[u] = 0
  <2>1. pc'[t] = "user" /\ tail'[t] = 0
    BY <1>3, <1>4 DEF Emptied
  <2>2. \A u \in Threads \ {t} : pc[u] \in Calm /\ tail'[u] = 0
    BY ZenonT(40), <1>2, <1>4 DEF Commits
  <2>3. \A u \in Threads \ {t} : pc'[u] = "begin_op" \/ pc'[u] = pc[u]
    BY ZenonT(40), <1>4
  <2> QED BY ZenonT(40), <2>1, <2>2, <2>3 DEF Calm
<1>6. pc' \in [Threads -> Pcs]
  <2>1. \A l \in Calm : l \in Pcs
    BY ZenonT(40) DEF Calm, Pcs
  <2>2. \A u \in Threads : pc'[u] \in Pcs
    BY ZenonT(40), <1>5, <2>1
  <2> QED BY <1>4, <2>2
<1>7. TypeOK'
  BY ZenonT(40), <1>1, <1>4, <1>6 DEF TypeOK
<1>8. Headers' /\ Panicked' /\ Clean'
  BY ZenonT(40), <1>1, <1>4 DEF Headers, IsHeader, Panicked, Clean
<1>9. Counted'
  <2>1. \A u \in Threads : pc'[u] \notin Active
    BY ZenonT(40), <1>5 DEF Calm, Active
  <2>2. \A u \in Threads : pc[u] \notin Active
    BY <1>1, <1>2, NoneActive, ZenonT(40) DEF Commits, ZeroMeansNone
  <2> QED BY <1>1, <1>4, <2>1, <2>2, SameActive, ZenonT(40)
<1>10. Open'
  <2>1. Pinned(0)'
    BY ZenonT(40), <1>3, <1>4 DEF Emptied, Pinned
  <2>2. hdr' = << >> /\ lh' = << >> /\ ~committing'
    BY ZenonT(40), <1>3, <1>4 DEF Emptied
  <2> QED BY ZenonT(40), <1>5, <2>1, <2>2 DEF Open
<1> QED BY ZenonT(40), <1>7, <1>8, <1>9, <1>10 DEF IInv, Phase

(* The entry that a turn of install_trans() is at, and its block. *)
Turn(t) == tail[t] + 1
Target(t) == hdr[Turn(t)]

(* The copy in a turn of install_trans(), in a commit or in the recovery. *)
LEMMA InstallTurn ==
  ASSUME TypeOK, Headers, Clean, panic = "", NEW t \in Threads,
         lh = hdr, tail[t] < Len(hdr), Installed(tail[t]),
         Install(t, lh[tail[t] + 1])
  PROVE  /\ Turn(t) \in 1 .. Len(hdr) /\ Turn(t) \in 1 .. LOGSIZE /\ Target(t) \in Blocks
         /\ home' \in [Blocks -> OnDisk]
         /\ cache' \in [Blocks -> OnDisk \cup {NotCached}]
         /\ home'[Target(t)] = logblk[Turn(t)] /\ cache'[Target(t)] = logblk[Turn(t)]
         /\ logblk[Turn(t)] # NotCached
         /\ \A x \in Blocks \ {Target(t)} : home'[x] = home[x]
         /\ \A x \in Blocks \ {Target(t)} : Content(cache', x) = Content(cache, x)
         /\ \A x \in Blocks \ {Target(t)} :
              cache'[x] # NotCached /\ pins[x] = 0 => cache'[x] = home[x]
         /\ \A k \in 1 .. Turn(t) : home'[hdr[k]] = logblk[k]
         /\ \A k \in 1 .. Len(hdr) : k # Turn(t) => hdr[k] # Target(t)
<1> DEFINE m == Turn(t)
           b == Target(t)
<1>0. m = tail[t] + 1 /\ tail[t] < Len(hdr) /\ LOGSIZE \in Nat /\ b = hdr[m]
  BY LogAssumption, ZenonT(40) DEF Turn, Target
<1> HIDE DEF m, b
<1>1. /\ tail[t] \in Nat /\ Len(hdr) \in Nat /\ Len(hdr) <= LOGSIZE
      /\ \A k \in 1 .. Len(hdr) : hdr[k] \in Blocks
  BY Entries, ZenonT(40) DEF Headers, IsHeader
<1>2. m \in 1 .. Len(hdr) /\ m \in 1 .. LOGSIZE
  BY ONLY <1>0, <1>1
<1>3. b \in Blocks
  BY ZenonT(40), <1>0, <1>1, <1>2
<1>4. logblk[m] \in OnDisk
  BY <1>2, ZenonT(40) DEF TypeOK
<1>5. \A k \in 1 .. Len(hdr) : k # m => hdr[k] # b
  BY ZenonT(40), <1>0, <1>2 DEF Headers, IsHeader
<1>6. /\ home' = [home EXCEPT ![b] = logblk[m]]
      /\ \E c \in Recycle : cache' = [c EXCEPT ![b] = logblk[m]]
  BY ZenonT(40), <1>0 DEF Install
<1>7. /\ cache' \in [Blocks -> OnDisk \cup {NotCached}]
      /\ cache'[b] = logblk[m] /\ logblk[m] # NotCached
      /\ \A x \in Blocks \ {b} : Content(cache', x) = Content(cache, x)
      /\ \A x \in Blocks \ {b} :
           cache'[x] # NotCached /\ pins[x] = 0 => cache'[x] = home[x]
  BY <1>3, <1>4, <1>6, FillSafe, ZenonT(40)
<1>8. /\ home' \in [Blocks -> OnDisk] /\ home'[b] = logblk[m]
      /\ \A x \in Blocks \ {b} : home'[x] = home[x]
  BY <1>3, <1>4, <1>6, ZenonT(40) DEF TypeOK
<1>9. \A k \in 1 .. m : home'[hdr[k]] = logblk[k]
  <2>1. \A k \in 1 .. m : k = m \/ k \in 1 .. tail[t]
    BY ONLY <1>0, <1>1
  <2>2. \A k \in 1 .. tail[t] : k \in 1 .. Len(hdr) /\ k # m
    BY ONLY <1>0, <1>1
  <2>3. \A k \in 1 .. tail[t] : hdr[k] \in Blocks \ {b}
    BY ZenonT(40), <1>1, <1>5, <2>2
  <2> QED BY ZenonT(40), <1>0, <1>8, <2>1, <2>3 DEF Installed
<1> QED BY ZenonT(40), <1>2, <1>3, <1>5, <1>7, <1>8, <1>9 DEF m, b

(* A turn of install_trans() in a commit. *)
LEMMA InstallTransInv ==
  ASSUME IInv, NEW t \in Threads, install_trans(t)
  PROVE  IInv'
<1>1. TypeOK /\ Headers /\ Counted /\ Clean /\ panic = "" /\ pc[t] = "install_trans"
  BY ZenonT(40) DEF IInv, install_trans, Up
<1>2. Commits(t)
  BY <1>1, PhaseOf, ZenonT(40) DEF Committing
<1>3. Installing(t)
  BY ZenonT(40), <1>1, <1>2 DEF Commits, Copying, ReadyToCommit, Installing,
       AllInstalled, Emptied
<1>4. lh = hdr /\ tail[t] < Len(lh) /\ tail[t] < Len(hdr) /\ Installed(tail[t])
  BY <1>3 DEF Installing
<1> DEFINE m == Turn(t)
           b == Target(t)
<1>5. /\ Install(t, lh[tail[t] + 1])
      /\ pins' = [pins EXCEPT ![b] = @ - 1]
      /\ Loop(t, "clear_head")
      /\ lh' = IF m = Len(lh) THEN << >> ELSE lh
      /\ UNCHANGED <<hdr, logblk, outstanding, committing, buf, panic>>
  BY ZenonT(40), <1>4 DEF install_trans, Turn, Target
<1>6. m = tail[t] + 1 /\ b = hdr[m]
  BY DEF Turn, Target
<1>7. /\ pc' \in [Threads -> Pcs] /\ tail' \in [Threads -> Nat]
      /\ \A u \in Threads \ {t} : pc'[u] = pc[u] /\ tail'[u] = tail[u]
      /\ \/ m = Len(lh) /\ pc'[t] = "clear_head" /\ tail'[t] = 0
         \/ m < Len(lh) /\ pc'[t] = pc[t] /\ tail'[t] = m
  BY <1>1, <1>4, <1>5, LoopTurn, ZenonT(40) DEF Pcs, Committing, Turn
<1>8. /\ m \in 1 .. Len(hdr) /\ m \in 1 .. LOGSIZE /\ b \in Blocks
      /\ home' \in [Blocks -> OnDisk]
      /\ cache' \in [Blocks -> OnDisk \cup {NotCached}]
      /\ home'[b] = logblk[m] /\ cache'[b] = logblk[m] /\ logblk[m] # NotCached
      /\ \A x \in Blocks \ {b} : home'[x] = home[x]
      /\ \A x \in Blocks \ {b} : Content(cache', x) = Content(cache, x)
      /\ \A x \in Blocks \ {b} :
           cache'[x] # NotCached /\ pins[x] = 0 => cache'[x] = home[x]
      /\ \A k \in 1 .. m : home'[hdr[k]] = logblk[k]
      /\ \A k \in 1 .. Len(hdr) : k # m => hdr[k] # b
  BY <1>1, <1>4, <1>5, InstallTurn, ZenonT(40)
<1> HIDE DEF m, b
<1>9. Len(lh) \in Nat /\ \A k \in 1 .. Len(lh) : lh[k] \in Blocks
  BY <1>1, Entries, ZenonT(40)
<1>10. lh' \in Seq(Blocks) /\ IsHeader(lh')
  <2>1. lh \in Seq(Blocks) /\ IsHeader(lh)
    BY ZenonT(40), <1>1 DEF TypeOK, Headers
  <2> QED BY <1>5, <2>1, LogAssumption DEF IsHeader
<1>11. /\ pins[b] = 1 /\ pins' \in [Blocks -> Nat] /\ pins'[b] = 0
       /\ \A x \in Blocks \ {b} : pins'[x] = pins[x]
  <2>1. pins \in [Blocks -> Nat]
    BY ZenonT(40), <1>1 DEF TypeOK
  <2>2. m \in 1 .. Len(lh) /\ m > tail[t] /\ lh[m] = b
    <3>1. m \in 1 .. Len(lh) /\ lh[m] = b
      BY ZenonT(40), <1>4, <1>6, <1>8
    <3>2. tail[t] \in Nat /\ m = tail[t] + 1
      BY <1>1, <1>6, Entries, ZenonT(40)
    <3>3. m > tail[t]
      BY ONLY <3>2
    <3> QED BY <3>1, <3>3
  <2>3. pins[b] = 1
    BY <1>3, <1>8, <2>2 DEF Installing, Pinned
  <2> QED BY <1>5, <1>8, <2>1, <2>3
<1>12. TypeOK'
  BY ZenonT(40), <1>1, <1>5, <1>7, <1>8, <1>10, <1>11 DEF TypeOK
<1>13. Headers' /\ Panicked'
  BY ZenonT(40), <1>1, <1>5, <1>10 DEF Headers, IsHeader, Panicked
<1>14. Clean'
  <2> SUFFICES ASSUME NEW x \in Blocks, cache'[x] # NotCached, pins'[x] = 0
               PROVE  cache'[x] = home'[x]
    BY ZenonT(40) DEF Clean
  <2>1. CASE x = b
    BY <1>8, <2>1
  <2>2. CASE x # b
    BY ZenonT(40), <1>8, <1>11, <2>2
  <2> QED BY <2>1, <2>2
<1>15. \A x \in Blocks :
         pins'[x] = IF \E k \in 1 .. Len(lh) : k > m /\ lh[k] = x THEN 1 ELSE 0
  <2> SUFFICES ASSUME NEW x \in Blocks
               PROVE  pins'[x] = IF \E k \in 1 .. Len(lh) : k > m /\ lh[k] = x
                                 THEN 1 ELSE 0
    OBVIOUS
  <2>1. CASE x = b
    <3>1. \A k \in 1 .. Len(lh) : k > m => lh[k] # x
      BY <1>4, <1>8, <2>1
    <3> QED BY ZenonT(40), <1>11, <2>1, <3>1
  <2>2. CASE x # b
    <3>1. \A k \in 1 .. Len(lh) : lh[k] = x => (k > m <=> k > tail[t])
      <4>1. \A k \in 1 .. Len(lh) : lh[k] = x => k # m
        BY <1>4, <1>6, <2>2
      <4>2. tail[t] \in Nat
        BY <1>1, Entries, ZenonT(40)
      <4>3. \A k \in 1 .. Len(lh) : k # m => (k > m <=> k > tail[t])
        BY <1>6, <1>9, <4>2
      <4> QED BY ZenonT(40), <4>1, <4>3
    <3>2. pins[x] = IF \E k \in 1 .. Len(lh) : k > tail[t] /\ lh[k] = x THEN 1 ELSE 0
      BY <1>3 DEF Installing, Pinned
    <3>3. (\E k \in 1 .. Len(lh) : k > tail[t] /\ lh[k] = x)
            <=> \E k \in 1 .. Len(lh) : k > m /\ lh[k] = x
      BY ZenonT(40), <3>1
    <3> QED BY <1>11, <2>2, <3>2, <3>3
  <2> QED BY <2>1, <2>2
<1>16. \A x \in Blocks : bread(x)' = bread(x)
  <2>1. logblk[m] = bread(b)
    BY <1>3, <1>4, <1>8, <1>6 DEF Installing, Copied
  <2> QED BY ZenonT(40), <1>8, <2>1 DEF bread, Cached, Content
<1>17. Installing(t)' \/ AllInstalled(t)'
  <2>1. CASE m = Len(lh) /\ pc'[t] = "clear_head" /\ tail'[t] = 0
    <3>1. lh' = << >>
      BY <1>5, <2>1
    <3>2. Pinned(0)'
      <4>1. \A x \in Blocks : pins'[x] = 0
        BY <1>9, <1>15, <2>1
      <4> QED BY <3>1, <4>1 DEF Pinned
    <3>3. Installed(Len(hdr))'
      BY ZenonT(40), <1>4, <1>5, <1>8, <2>1 DEF Installed
    <3> QED BY <2>1, <3>1, <3>2, <3>3 DEF AllInstalled
  <2>2. CASE m < Len(lh) /\ pc'[t] = pc[t] /\ tail'[t] = m
    <3>1. lh' = lh
      <4>1. m # Len(lh)
        BY <1>8, <1>9, <2>2
      <4> QED BY ZenonT(40), <1>5, <4>1
    <3>2. Pinned(tail[t])'
      BY ZenonT(40), <1>15, <2>2, <3>1 DEF Pinned
    <3>3. Installed(tail[t])'
      BY ZenonT(40), <1>5, <1>8, <2>2 DEF Installed
    <3>4. Copied(Len(lh))'
      <4>1. \A k \in 1 .. Len(lh) : logblk[k] = bread(lh[k])
        BY <1>3 DEF Installing, Copied
      <4>2. \A k \in 1 .. Len(lh) : logblk'[k] = bread(lh[k])'
        BY ZenonT(40), <1>5, <1>9, <1>16, <3>1, <4>1
      <4> QED BY ZenonT(40), <3>1, <4>2 DEF Copied
    <3> QED BY <1>1, <1>4, <1>5, <2>2, <3>1, <3>2, <3>3, <3>4, ZenonT(40)
       DEF Installing
  <2> QED BY <1>7, <2>1, <2>2
<1>18. pc'[t] \in Committing
  BY ZenonT(40), <1>1, <1>7 DEF Committing
<1>19. /\ Counted' /\ committing' /\ outstanding' = 0
       /\ \A u \in Threads \ {t} : pc'[u] \in Calm /\ tail'[u] = 0
  BY <1>2, <1>5, <1>7, <1>18, StillCommits
<1> QED BY ZenonT(40), <1>12, <1>13, <1>14, <1>17, <1>19 DEF IInv, Phase, Commits

-----------------------------------------------------------------------------
(* Crashes and the recovery *)

(* The header without entries. *)
LEMMA EmptyHeader == << >> \in Seq(Blocks) /\ IsHeader(<< >>) /\ 0 \in Nat
<1>1. LOGSIZE \in Nat
  BY LogAssumption
<1>2. Len(<< >>) = 0
  OBVIOUS
<1>3. IsHeader(<< >>)
  BY ONLY <1>1, <1>2 DEF IsHeader
<1> QED BY <1>3

(* The state of a kernel that has just started: nothing in memory. *)
Fresh ==
  /\ home \in [Blocks -> OnDisk] /\ logblk \in [1 .. LOGSIZE -> OnDisk]
  /\ hdr \in Seq(Blocks) /\ IsHeader(hdr)
  /\ lh = << >> /\ outstanding = 0 /\ committing = FALSE
  /\ cache = EmptyCache /\ pins = Unpinned
  /\ \E t \in Threads : pc = Started(t)
  /\ buf = Nothing /\ tail = [u \in Threads |-> 0] /\ panic = ""

(* Such a state satisfies the invariant, with its recovery about to begin. *)
LEMMA JustStarted == Fresh => IInv
<1> SUFFICES ASSUME Fresh PROVE IInv
  OBVIOUS
<1>0. /\ home \in [Blocks -> OnDisk] /\ logblk \in [1 .. LOGSIZE -> OnDisk]
      /\ hdr \in Seq(Blocks) /\ IsHeader(hdr)
      /\ lh = << >> /\ outstanding = 0 /\ committing = FALSE
      /\ cache = EmptyCache /\ pins = Unpinned
      /\ buf = Nothing /\ tail = [u \in Threads |-> 0] /\ panic = ""
  BY ZenonT(40) DEF Fresh
<1>1. PICK t \in Threads : pc = Started(t)
  BY ZenonT(40) DEF Fresh
<1>2. /\ pc \in [Threads -> Pcs] /\ pc[t] = "read_head"
      /\ \A u \in Threads \ {t} : pc[u] = "user"
  BY <1>1 DEF Started, Pcs, Recovering
<1>3. cache \in [Blocks -> OnDisk \cup {NotCached}] /\ \A b \in Blocks : cache[b] = NotCached
  BY <1>0, ZenonT(40) DEF EmptyCache
<1>4. pins \in [Blocks -> Nat] /\ \A b \in Blocks : pins[b] = 0
  BY <1>0, ZenonT(40) DEF Unpinned
<1>5. buf \in [Threads -> SUBSET Blocks]
  BY <1>0, ZenonT(40) DEF Nothing
<1>6. tail \in [Threads -> Nat] /\ \A u \in Threads : tail[u] = 0
  BY <1>0, ZenonT(40)
<1>7. lh \in Seq(Blocks) /\ IsHeader(lh) /\ outstanding \in Nat
  BY ZenonT(40), <1>0, EmptyHeader
<1>8. TypeOK
  BY ZenonT(40), <1>0, <1>2, <1>3, <1>4, <1>5, <1>6, <1>7 DEF TypeOK
<1>9. Headers /\ Clean /\ Panicked
  BY ZenonT(40), <1>0, <1>3, <1>7 DEF Headers, Clean, Panicked
<1>10. Counted
  <2>1. ActiveThreads = {}
    BY ZenonT(40), <1>2 DEF ActiveThreads, Active
  <2> QED BY <1>0, <2>1, FS_EmptySet, ZenonT(40) DEF Counted
<1>11. Restarted(t)
  BY <1>0, <1>2, <1>6, ZenonT(40) DEF Restarted
<1>12. Recovers(t)
  BY ZenonT(40), <1>0, <1>2, <1>4, <1>6, <1>11 DEF Recovers
<1> QED BY ZenonT(40), <1>8, <1>9, <1>10, <1>12 DEF IInv, Phase

(* The same after a step. *)
LEMMA JustRestarted == Fresh' => IInv'
BY JustStarted, PTL

(* The first start, from a log that was never used. *)
LEMMA InitInv == Init => IInv
<1> SUFFICES ASSUME Init PROVE Fresh
  BY JustStarted
<1>1. home \in [Blocks -> OnDisk]
  BY ZenonT(40) DEF Init, OnDisk
<1>2. logblk \in [1 .. LOGSIZE -> OnDisk]
  BY LogAssumption, ZenonT(40) DEF Init, OnDisk
<1>3. hdr \in Seq(Blocks) /\ IsHeader(hdr)
  BY ZenonT(40), EmptyHeader DEF Init
<1> QED BY ZenonT(40), <1>1, <1>2, <1>3 DEF Init, Fresh

(* A crash, which may leave the block torn that is being written. *)
LEMMA CrashInv == ASSUME IInv, Crash PROVE IInv'
<1>1. TypeOK /\ Headers
  BY DEF IInv
<1>2. home' \in [Blocks -> OnDisk] /\ logblk' \in [1 .. LOGSIZE -> OnDisk]
  <2>1. home \in [Blocks -> OnDisk] /\ logblk \in [1 .. LOGSIZE -> OnDisk]
        /\ Torn \in OnDisk
    BY ZenonT(40), <1>1 DEF TypeOK, OnDisk
  <2>2. CASE UNCHANGED <<home, logblk>>
    BY <2>1, <2>2
  <2>3. CASE \E t \in Threads : /\ logblk' = [logblk EXCEPT ![tail[t] + 1] = Torn]
                                /\ UNCHANGED home
    BY <2>1, <2>3, ZenonT(40)
  <2>4. CASE \E t \in Threads : /\ home' = [home EXCEPT ![lh[tail[t] + 1]] = Torn]
                                /\ UNCHANGED logblk
    BY <2>1, <2>4, ZenonT(40)
  <2> QED BY ZenonT(40), <2>2, <2>3, <2>4 DEF Crash
<1>3. hdr' \in Seq(Blocks) /\ IsHeader(hdr')
  BY ZenonT(40), <1>1 DEF Crash, TypeOK, Headers, IsHeader
<1>4. PICK t \in Threads : pc' = Started(t)
  BY ZenonT(40) DEF Crash
<1>5. /\ lh' = << >> /\ outstanding' = 0 /\ committing' = FALSE
      /\ cache' = EmptyCache /\ pins' = Unpinned
      /\ buf' = Nothing /\ tail' = [u \in Threads |-> 0] /\ panic' = ""
  BY ZenonT(40) DEF Crash
<1>6. hdr' \in Seq(Blocks)' /\ IsHeader(hdr)'
  BY ZenonT(40), <1>3 DEF IsHeader
<1>7. Fresh'
  BY ZenonT(40), <1>2, <1>4, <1>5, <1>6
     DEF Fresh, EmptyCache, Unpinned, Nothing, Started, OnDisk
<1> QED BY <1>7, JustRestarted

(* The thread that recovers, before the recovery is over. *)
LEMMA StillRecovers ==
  ASSUME IInv, NEW t \in Threads, Recovers(t),
         UNCHANGED <<outstanding, committing, pins, panic>>,
         \A u \in Threads \ {t} : pc'[u] = pc[u] /\ tail'[u] = tail[u],
         pc'[t] \in Recovering
  PROVE  /\ Counted'
         /\ ~committing' /\ outstanding' = 0 /\ panic' = ""
         /\ \A b \in Blocks : pins'[b] = 0
         /\ \A u \in Threads \ {t} : pc'[u] = "user" /\ tail'[u] = 0
<1>1. Counted
  BY DEF IInv
<1>2. pc[t] \in Recovering
  BY ZenonT(40) DEF Recovers, Restarted, Reinstalling, Reinstalled, Recovering
<1>3. \A u \in Threads : pc'[u] \in Active <=> pc[u] \in Active
  <2>1. \A l \in Recovering : l \notin Active
    BY ZenonT(40) DEF Active, Recovering
  <2> QED BY ZenonT(40), <1>2, <2>1
<1>4. Counted'
  BY <1>1, <1>3, SameActive
<1> QED BY ZenonT(40), <1>4 DEF Recovers

(* read_head() *)
LEMMA ReadHeadInv ==
  ASSUME IInv, NEW t \in Threads, read_head(t)
  PROVE  IInv'
<1>1. TypeOK /\ Headers /\ Counted /\ Clean /\ panic = "" /\ pc[t] = "read_head"
  BY ZenonT(40) DEF IInv, read_head
<1>2. Recovers(t)
  BY <1>1, PhaseOf, ZenonT(40) DEF Recovering
<1>3. Restarted(t)
  BY ZenonT(40), <1>1, <1>2 DEF Recovers, Restarted, Reinstalling, Reinstalled
<1>4. /\ lh' = hdr
      /\ pc' = [pc EXCEPT ![t] = IF hdr # << >> THEN "reinstall" ELSE "reclear"]
      /\ UNCHANGED <<home, hdr, logblk, outstanding, committing, cache, pins,
                     buf, tail, panic>>
  BY ZenonT(40) DEF read_head, Goto, diskVars, bufVars
<1>5. /\ pc' \in [Threads -> Pcs]
      /\ pc'[t] = IF hdr # << >> THEN "reinstall" ELSE "reclear"
      /\ \A u \in Threads \ {t} : pc'[u] = pc[u]
  BY <1>1, <1>4, ZenonT(40) DEF TypeOK, Pcs, Recovering
<1>6. TypeOK'
  BY ZenonT(40), <1>1, <1>4, <1>5 DEF TypeOK
<1>7. Headers' /\ Panicked' /\ Clean'
  BY ZenonT(40), <1>1, <1>4 DEF Headers, IsHeader, Panicked, Clean
<1>8. hdr \in Seq(Blocks) /\ tail'[t] = 0
  BY ZenonT(40), <1>1, <1>3, <1>4 DEF TypeOK, Restarted
<1>9. CASE hdr # << >>
  <2>1. tail'[t] < Len(hdr')
    <3>1. Len(hdr) > 0
      BY <1>8, <1>9
    <3> QED BY <1>4, <1>8, <3>1
  <2>2. Installed(tail[t])'
    BY <1>8 DEF Installed
  <2>3. Reinstalling(t)'
    BY <1>4, <1>5, <1>9, <2>1, <2>2 DEF Reinstalling
  <2>4. pc'[t] \in Recovering
    BY <1>5, <1>9 DEF Recovering
  <2> QED BY ZenonT(40), <1>2, <1>4, <1>5, <1>6, <1>7, <2>3, <2>4, StillRecovers
         DEF IInv, Phase, Recovers
<1>10. CASE hdr = << >>
  <2>1. Installed(Len(hdr))'
    BY <1>4, <1>10 DEF Installed
  <2>2. Reinstalled(t)'
    BY <1>4, <1>5, <1>8, <1>10, <2>1 DEF Reinstalled
  <2>3. pc'[t] \in Recovering
    BY <1>5, <1>10 DEF Recovering
  <2> QED BY ZenonT(40), <1>2, <1>4, <1>5, <1>6, <1>7, <2>2, <2>3, StillRecovers
         DEF IInv, Phase, Recovers
<1> QED BY <1>9, <1>10

(* A turn of install_trans() in the recovery. *)
LEMMA ReinstallInv ==
  ASSUME IInv, NEW t \in Threads, reinstall(t)
  PROVE  IInv'
<1>1. TypeOK /\ Headers /\ Counted /\ Clean /\ panic = "" /\ pc[t] = "reinstall"
  BY ZenonT(40) DEF IInv, reinstall
<1>2. Recovers(t)
  BY <1>1, PhaseOf, ZenonT(40) DEF Recovering
<1>3. Reinstalling(t)
  BY ZenonT(40), <1>1, <1>2 DEF Recovers, Restarted, Reinstalling, Reinstalled
<1>4. lh = hdr /\ tail[t] < Len(lh) /\ tail[t] < Len(hdr) /\ Installed(tail[t])
  BY <1>3 DEF Reinstalling
<1> DEFINE m == Turn(t)
           b == Target(t)
<1>5. /\ Install(t, lh[tail[t] + 1])
      /\ Loop(t, "reclear")
      /\ lh' = IF m = Len(lh) THEN << >> ELSE lh
      /\ UNCHANGED <<hdr, logblk, outstanding, committing, pins, buf, panic>>
  BY ZenonT(40), <1>4 DEF reinstall, Turn
<1>6. /\ pc' \in [Threads -> Pcs] /\ tail' \in [Threads -> Nat]
      /\ \A u \in Threads \ {t} : pc'[u] = pc[u] /\ tail'[u] = tail[u]
      /\ \/ m = Len(lh) /\ pc'[t] = "reclear" /\ tail'[t] = 0
         \/ m < Len(lh) /\ pc'[t] = pc[t] /\ tail'[t] = m
  BY <1>1, <1>4, <1>5, LoopTurn, ZenonT(40) DEF Pcs, Recovering, Turn
<1>7. /\ m \in 1 .. Len(hdr) /\ b \in Blocks
      /\ home' \in [Blocks -> OnDisk]
      /\ cache' \in [Blocks -> OnDisk \cup {NotCached}]
      /\ home'[b] = logblk[m] /\ cache'[b] = logblk[m]
      /\ \A x \in Blocks \ {b} : home'[x] = home[x]
      /\ \A x \in Blocks \ {b} :
           cache'[x] # NotCached /\ pins[x] = 0 => cache'[x] = home[x]
      /\ \A k \in 1 .. m : home'[hdr[k]] = logblk[k]
  BY <1>1, <1>4, <1>5, InstallTurn, ZenonT(40)
<1> HIDE DEF m, b
<1>8. lh' \in Seq(Blocks) /\ IsHeader(lh')
  <2>1. lh \in Seq(Blocks) /\ IsHeader(lh)
    BY ZenonT(40), <1>1 DEF TypeOK, Headers
  <2> QED BY ZenonT(40), <1>5, <2>1, EmptyHeader
<1>9. TypeOK'
  BY ZenonT(40), <1>1, <1>5, <1>6, <1>7, <1>8 DEF TypeOK
<1>10. Headers' /\ Panicked'
  BY ZenonT(40), <1>1, <1>5, <1>8 DEF Headers, IsHeader, Panicked
<1>11. Clean'
  <2> SUFFICES ASSUME NEW x \in Blocks, cache'[x] # NotCached, pins'[x] = 0
               PROVE  cache'[x] = home'[x]
    BY ZenonT(40) DEF Clean
  <2>1. CASE x = b
    BY <1>7, <2>1, ZenonT(40)
  <2>2. CASE x # b
    BY ZenonT(40), <1>5, <1>7, <2>2
  <2> QED BY <2>1, <2>2
<1>12. pc'[t] \in Recovering
  BY ZenonT(40), <1>1, <1>6 DEF Recovering
<1>13. /\ Counted'
       /\ ~committing' /\ outstanding' = 0 /\ panic' = ""
       /\ \A x \in Blocks : pins'[x] = 0
       /\ \A u \in Threads \ {t} : pc'[u] = "user" /\ tail'[u] = 0
  BY <1>2, <1>5, <1>6, <1>12, StillRecovers, ZenonT(40)
<1>14. Reinstalling(t)' \/ Reinstalled(t)'
  <2>1. CASE m = Len(lh) /\ pc'[t] = "reclear" /\ tail'[t] = 0
    <3>1. lh' = << >>
      BY <1>5, <2>1
    <3>2. Installed(Len(hdr))'
      BY ZenonT(40), <1>4, <1>5, <1>7, <2>1 DEF Installed
    <3> QED BY <2>1, <3>1, <3>2 DEF Reinstalled
  <2>2. CASE m < Len(lh) /\ pc'[t] = pc[t] /\ tail'[t] = m
    <3>1. lh' = lh
      <4>1. Len(lh) \in Nat
        BY <1>1, Entries, ZenonT(40)
      <4>2. m # Len(lh)
        BY <1>7, <2>2, <4>1
      <4> QED BY ZenonT(40), <1>5, <4>2
    <3>2. Installed(tail[t])'
      BY ZenonT(40), <1>5, <1>7, <2>2 DEF Installed
    <3> QED BY <1>1, <1>4, <1>5, <2>2, <3>1, <3>2, ZenonT(40) DEF Reinstalling
  <2> QED BY <1>6, <2>1, <2>2, ZenonT(40)
<1>15. Recovers(t)'
  BY ZenonT(40), <1>13, <1>14 DEF Recovers
<1> QED BY <1>9, <1>10, <1>11, <1>13, <1>15, ZenonT(40) DEF IInv, Phase

(* The header is cleared, and the file system is ready. *)
LEMMA ReclearInv ==
  ASSUME IInv, NEW t \in Threads, reclear(t)
  PROVE  IInv'
<1>1. TypeOK /\ Headers /\ Counted /\ Clean /\ panic = "" /\ pc[t] = "reclear"
  BY ZenonT(40) DEF IInv, reclear
<1>2. Recovers(t)
  BY <1>1, PhaseOf, ZenonT(40) DEF Recovering
<1>3. Reinstalled(t)
  BY ZenonT(40), <1>1, <1>2 DEF Recovers, Restarted, Reinstalling, Reinstalled
<1>4. /\ hdr' = lh /\ cache' \in Recycle
      /\ pc' = [pc EXCEPT ![t] = "user"]
      /\ UNCHANGED <<home, logblk, pins, buf, tail, panic>>
      /\ UNCHANGED <<lh, outstanding, committing>>
  BY ZenonT(40) DEF reclear, Goto, logVars
<1>5. /\ cache' \in [Blocks -> OnDisk \cup {NotCached}]
      /\ \A x \in Blocks : cache'[x] # NotCached /\ pins[x] = 0 => cache'[x] = home[x]
  BY <1>1, <1>4, RecycleSafe, ZenonT(40)
<1>6. /\ pc' \in [Threads -> Pcs] /\ pc'[t] = "user"
      /\ \A u \in Threads \ {t} : pc'[u] = pc[u]
  BY <1>1, <1>4, ZenonT(40) DEF TypeOK, Pcs
<1>7. \A u \in Threads : pc'[u] = "user" /\ tail'[u] = 0
  BY ZenonT(40), <1>2, <1>3, <1>4, <1>6 DEF Recovers, Reinstalled
<1>8. TypeOK'
  BY ZenonT(40), <1>1, <1>4, <1>5, <1>6 DEF TypeOK
<1>9. Headers' /\ Panicked' /\ Clean'
  BY ZenonT(40), <1>1, <1>4, <1>5 DEF Headers, IsHeader, Panicked, Clean
<1>10. Counted'
  <2>1. \A u \in Threads : pc'[u] \notin Active
    BY ZenonT(40), <1>7 DEF Active
  <2>2. \A u \in Threads : pc[u] \notin Active
    BY ZenonT(40), <1>1, <1>2 DEF Recovers, Active
  <2> QED BY <1>1, <1>4, <2>1, <2>2, SameActive, ZenonT(40)
<1>11. Open'
  <2>1. lh' = << >> /\ hdr' = << >> /\ ~committing' /\ \A x \in Blocks : pins'[x] = 0
    BY ZenonT(40), <1>2, <1>3, <1>4 DEF Recovers, Reinstalled
  <2>2. Pinned(0)'
    BY <2>1 DEF Pinned
  <2> QED BY ZenonT(40), <1>7, <2>1, <2>2 DEF Open, Calm
<1> QED BY <1>8, <1>9, <1>10, <1>11 DEF IInv, Phase

-----------------------------------------------------------------------------
(* The invariant, and the theorems *)

(* Every step of Log keeps the invariant. *)
LEMMA NextInv == IInv /\ [Next]_vars => IInv'
<1> SUFFICES ASSUME IInv, [Next]_vars PROVE IInv'
  OBVIOUS
<1>1. ASSUME NEW t \in Threads, begin_op(t) \/ end_op(t) PROVE IInv'
  BY <1>1, BeginOpInv, EndOpInv
<1>2. ASSUME NEW t \in Threads, CommitStep(t) PROVE IInv'
  BY <1>2, WriteLogInv, WriteHeadInv, InstallTransInv, ClearHeadInv, CommittedInv
     DEF CommitStep
<1>3. ASSUME NEW t \in Threads, ReadOther(t) \/ Brelse(t) \/ NoBuffers(t) PROVE IInv'
  BY <1>3, ReadOtherInv, BrelseInv, NoBuffersInv
<1>4. ASSUME NEW t \in Threads, Recover(t) PROVE IInv'
  BY <1>4, ReadHeadInv, ReinstallInv, ReclearInv DEF Recover
<1>5. ASSUME NEW t \in Threads, NEW b \in Blocks, Bread(t, b) PROVE IInv'
  BY <1>5, BreadInv
<1>6. ASSUME NEW t \in Threads, NEW d \in Data, log_write(t, d) PROVE IInv'
  BY <1>6, LogWriteInv
<1>7. CASE UNCHANGED vars
  <2>1. UNCHANGED <<home, hdr, logblk, lh, outstanding, committing, cache, pins,
                    pc, buf, tail, panic>>
    BY <1>7 DEF vars, diskVars, logVars, bufVars, threadVars
  <2>2. TypeOK' /\ Headers' /\ Counted' /\ Clean' /\ Panicked'
    BY ZenonT(40), <2>1 DEF IInv, TypeOK, Headers, IsHeader, Counted, ActiveThreads,
         Clean, Panicked
  <2>3. Open => Open'
    BY ZenonT(40), <2>1 DEF Open, Pinned
  <2>4. ASSUME NEW t \in Threads, Commits(t) PROVE Commits(t)'
    <3>1. Copying(t) => Copying(t)'
      BY ZenonT(40), <2>1 DEF Copying, Pinned, Copied, bread, Cached
    <3>2. ReadyToCommit(t) => ReadyToCommit(t)'
      BY ZenonT(40), <2>1 DEF ReadyToCommit, Pinned, Copied, bread, Cached
    <3>3. Installing(t) => Installing(t)'
      BY ZenonT(40), <2>1 DEF Installing, Pinned, Copied, Installed, bread, Cached
    <3>4. AllInstalled(t) => AllInstalled(t)'
      BY ZenonT(40), <2>1 DEF AllInstalled, Pinned, Installed
    <3>5. Emptied(t) => Emptied(t)'
      BY ZenonT(40), <2>1 DEF Emptied, Pinned
    <3> QED BY ZenonT(40), <2>1, <2>4, <3>1, <3>2, <3>3, <3>4, <3>5 DEF Commits
  <2>5. \A t \in Threads : Recovers(t) => Recovers(t)'
    BY ZenonT(40), <2>1 DEF Recovers, Restarted, Reinstalling, Reinstalled, Installed
  <2> QED BY ZenonT(40), <2>2, <2>3, <2>4, <2>5 DEF IInv, Phase
<1> QED BY ZenonT(40), <1>1, <1>2, <1>3, <1>4, <1>5, <1>6, <1>7, CrashInv DEF Next

(* The log is always in one of its phases: open, committing, or recovering  *)
(* with the memory that a restart leaves.                                   *)
THEOREM AlwaysInPhase == Spec => []IInv
BY InitInv, NextInv, PTL DEF Spec

-----------------------------------------------------------------------------
(* What a recovery would make of the disk *)

(* The blocks of the header come from the log, the others from home. *)
RecoveredEntry ==
  /\ \A k \in 1 .. Len(hdr) : Recovered[hdr[k]] = logblk[k]
  /\ \A b \in Blocks : b \notin Range(hdr) => Recovered[b] = home[b]

(* A recovery leaves something in every block. *)
RecoveredForm == Recovered = [b \in Blocks |-> Recovered[b]]

(* That is how the recovery is defined. *)
LEMMA RecoveredEverywhere == RecoveredForm
BY DEF RecoveredForm, Recovered

(* The blocks of the header are its entries. *)
LEMMA HeaderRange ==
  ASSUME TypeOK
  PROVE  \A b : b \in Range(hdr) <=> \E k \in 1 .. Len(hdr) : hdr[k] = b
<1>1. hdr \in Seq(Blocks)
  BY ZenonT(40) DEF TypeOK
<1> QED BY <1>1 DEF Range

(* No block is named twice, so each entry has the say over its block. *)
LEMMA RecoveredEntries == TypeOK /\ Headers => RecoveredEntry
<1> SUFFICES ASSUME TypeOK, Headers PROVE RecoveredEntry
  OBVIOUS
<1>1. ASSUME NEW k \in 1 .. Len(hdr) PROVE Recovered[hdr[k]] = logblk[k]
  <2>1. hdr[k] \in Blocks /\ hdr[k] \in Range(hdr)
    BY Entries, HeaderRange
  <2> DEFINE i == CHOOSE i \in 1 .. Len(hdr) : hdr[i] = hdr[k]
  <2>2. i \in 1 .. Len(hdr) /\ hdr[i] = hdr[k]
    BY ZenonT(40)
  <2>3. i = k
    BY ZenonT(40), <2>2 DEF Headers, IsHeader
  <2>4. Recovered[hdr[k]] = logblk[i]
    BY ZenonT(40), <2>1 DEF Recovered
  <2> QED BY <2>3, <2>4, ZenonT(40)
<1>2. \A b \in Blocks : b \notin Range(hdr) => Recovered[b] = home[b]
  BY ZenonT(40) DEF Recovered
<1> QED BY ZenonT(40), <1>1, <1>2 DEF RecoveredEntry

(* The same after a step. *)
LEMMA RecoveredEntriesNext == TypeOK' /\ Headers' => RecoveredEntry'
BY RecoveredEntries, PTL

(* With every block of the header at home the recovery changes nothing. *)
LEMMA AllHome ==
  ASSUME TypeOK, Headers, Installed(Len(hdr))
  PROVE  Recovered = home
<1>1. ASSUME NEW b \in Blocks PROVE Recovered[b] = home[b]
  <2>1. CASE b \in Range(hdr)
    <3>1. PICK k \in 1 .. Len(hdr) : hdr[k] = b
      BY <2>1, HeaderRange
    <3>2. Recovered[hdr[k]] = logblk[k] /\ home[hdr[k]] = logblk[k]
      BY ZenonT(40), RecoveredEntries DEF RecoveredEntry, Installed
    <3> QED BY <3>1, <3>2
  <2>2. CASE b \notin Range(hdr)
    BY ZenonT(40), <2>2, RecoveredEntries DEF RecoveredEntry
  <2> QED BY <2>1, <2>2
<1>2. Recovered = [b \in Blocks |-> Recovered[b]]
  BY DEF Recovered
<1>3. home \in [Blocks -> OnDisk]
  BY ZenonT(40) DEF TypeOK
<1> QED BY <1>1, <1>2, <1>3

(* With an empty header it has nothing to do. *)
HomeIsDurable == hdr = << >> => Recovered = home

(* The recovery then finds everything at home. *)
LEMMA NoHeader == TypeOK /\ Headers => HomeIsDurable
<1> SUFFICES ASSUME TypeOK, Headers, hdr = << >> PROVE Recovered = home
  BY DEF HomeIsDurable
<1>1. Installed(Len(hdr))
  BY DEF Installed
<1> QED BY <1>1, AllHome

(* The same after a step. *)
LEMMA NoHeaderNext == TypeOK' /\ Headers' => HomeIsDurable'
BY NoHeader, PTL

(* Neither writes to the log beyond the header's entries, nor writes to the *)
(* home of a block in the header, change what the recovery finds.           *)
LEMMA SameRecovered ==
  ASSUME TypeOK, hdr' = hdr,
         \A k \in 1 .. Len(hdr) : logblk'[k] = logblk[k],
         \A b \in Blocks : b \notin Range(hdr) => home'[b] = home[b]
  PROVE  Recovered' = Recovered
<1> DEFINE i(b) == CHOOSE i \in 1 .. Len(hdr) : hdr[i] = b
<1>1. \A b \in Range(hdr) : i(b) \in 1 .. Len(hdr)
  BY ZenonT(40), HeaderRange
<1>2. Recovered = [b \in Blocks |-> IF b \in Range(hdr) THEN logblk[i(b)] ELSE home[b]]
  BY ZenonT(40) DEF Recovered
<1>3. Recovered' = [b \in Blocks |-> IF b \in Range(hdr) THEN logblk'[i(b)] ELSE home'[b]]
  <2> DEFINE F(h) == [b \in Blocks |-> IF b \in Range(h)
                                       THEN logblk'[CHOOSE j \in 1 .. Len(h) : h[j] = b]
                                       ELSE home'[b]]
  <2>1. Recovered' = F(hdr')
    BY DEF Recovered
  <2>2. F(hdr) = [b \in Blocks |-> IF b \in Range(hdr) THEN logblk'[i(b)] ELSE home'[b]]
    OBVIOUS
  <2> HIDE DEF F
  <2> QED BY <2>1, <2>2
<1> HIDE DEF i
<1> QED BY <1>1, <1>2, <1>3

(* A step that writes nothing leaves what the recovery finds. *)
LEMMA SameDisk == UNCHANGED diskVars => Recovered' = Recovered
BY DEF diskVars, Recovered

-----------------------------------------------------------------------------
(* What readers see *)

(* With nothing pinned the cache agrees with the disk. *)
LEMMA NothingPinned ==
  ASSUME TypeOK, Clean, panic \in {"", "bget: no buffers"}, \A b \in Blocks : pins[b] = 0
  PROVE  \A b \in Blocks : bread(b) = home[b]
BY ZenonT(40) DEF Clean, bread, Cached

(* After the recovery readers see the cache over the disk. *)
LEMMA SettledView ==
  ASSUME \A t \in Threads : pc[t] \notin Recovering
  PROVE  View = [b \in Blocks |-> bread(b)]
BY ZenonT(40) DEF View

(* Until then they are to see what the recovery finds. *)
LEMMA RecoveringView ==
  ASSUME NEW t \in Threads, pc[t] \in Recovering
  PROVE  View = Recovered
BY ZenonT(40) DEF View

(* With the log open and empty nothing is pinned; in a recovery nobody reads. *)
LEMMA QuiescentInv == IInv => Quiescent
<1> SUFFICES ASSUME IInv, ~committing, outstanding = 0 PROVE View = Recovered
  BY DEF Quiescent
<1>1. TypeOK /\ Headers /\ Clean /\ Panicked /\ Phase
  BY DEF IInv
<1>2. CASE Open
  <2>1. lh = << >> /\ hdr = << >> /\ Pinned(0)
    BY <1>2 DEF Open
  <2>2. \A b \in Blocks : pins[b] = 0
    BY <2>1 DEF Pinned
  <2>3. panic \in {"", "bget: no buffers"}
    <3>1. ~(0 > 0)
      OBVIOUS
    <3> QED BY ZenonT(40), <1>1, <3>1 DEF Panicked
  <2>4. \A b \in Blocks : bread(b) = home[b]
    BY <1>1, <2>2, <2>3, NothingPinned, ZenonT(40)
  <2>5. View = [b \in Blocks |-> bread(b)]
    <3>1. \A t \in Threads : pc[t] \notin Recovering
      BY ZenonT(40), <1>2 DEF Open, Calm, Active, Recovering
    <3> QED BY <3>1, SettledView
  <2>6. home \in [Blocks -> OnDisk]
    BY ZenonT(40), <1>1 DEF TypeOK
  <2>7. View = home
    BY <2>4, <2>5, <2>6
  <2> QED BY <1>1, <2>1, <2>7, NoHeader DEF HomeIsDurable
<1>3. ASSUME NEW t \in Threads, Commits(t) PROVE FALSE
  BY <1>3 DEF Commits
<1>4. ASSUME NEW t \in Threads, Recovers(t) PROVE View = Recovered
  <2>1. pc[t] \in Recovering
    BY ZenonT(40), <1>4 DEF Recovers, Restarted, Reinstalling, Reinstalled, Recovering
  <2> QED BY <2>1, RecoveringView
<1> QED BY ZenonT(40), <1>1, <1>2, <1>3, <1>4 DEF Phase

(* When the last operation has returned from end_op(), everything that was  *)
(* written is durable: nothing is left in the cache that the disk, after a  *)
(* recovery, does not have.                                                 *)
THEOREM EndOpIsDurable == Spec => []Quiescent
BY AlwaysInPhase, QuiescentInv, PTL

-----------------------------------------------------------------------------
(* Writes to the home of a block *)

(* install_trans() and a crash during it write to blocks of the header. *)
LEMMA InstallTarget ==
  ASSUME IInv, NEW t \in Threads, pc[t] \in {"install_trans", "reinstall"}
  PROVE  /\ lh = hdr /\ tail[t] < Len(hdr) /\ Installed(tail[t])
         /\ lh[tail[t] + 1] \in Blocks /\ lh[tail[t] + 1] \in Range(hdr)
<1>1. TypeOK
  BY DEF IInv
<1>2. Installing(t) \/ Reinstalling(t)
  <2>1. CASE pc[t] = "install_trans"
    <3>1. Commits(t)
      BY <2>1, PhaseOf DEF Committing
    <3> QED BY ZenonT(40), <2>1, <3>1 DEF Commits, Copying, ReadyToCommit,
           AllInstalled, Emptied
  <2>2. CASE pc[t] = "reinstall"
    <3>1. Recovers(t)
      BY <2>2, PhaseOf DEF Recovering
    <3> QED BY ZenonT(40), <2>2, <3>1 DEF Recovers, Restarted, Reinstalled
  <2> QED BY <2>1, <2>2
<1>3. lh = hdr /\ tail[t] < Len(hdr) /\ Installed(tail[t])
  BY <1>2 DEF Installing, Reinstalling
<1>4. tail[t] \in Nat /\ Len(hdr) \in Nat
  BY <1>1, Entries
<1>5. tail[t] + 1 \in 1 .. Len(hdr)
  BY ONLY <1>3, <1>4
<1>6. hdr[tail[t] + 1] \in Blocks
  BY <1>1, <1>5, Entries
<1> QED BY ZenonT(40), <1>1, <1>3, <1>5, <1>6, HeaderRange

(* A step that writes the home of a block writes one of the header. *)
LEMMA HomeWrites ==
  ASSUME IInv, [Next]_vars
  PROVE  \A b \in Blocks : home'[b] # home[b] => b \in Range(hdr)
<1>0. home \in [Blocks -> OnDisk]
  BY ZenonT(40) DEF IInv, TypeOK
<1>1. ASSUME NEW t \in Threads, install_trans(t) \/ reinstall(t)
      PROVE  \A b \in Blocks : home'[b] # home[b] => b \in Range(hdr)
  <2>1. pc[t] \in {"install_trans", "reinstall"} /\ Install(t, lh[tail[t] + 1])
    BY ZenonT(40), <1>1 DEF install_trans, reinstall
  <2>2. home' = [home EXCEPT ![lh[tail[t] + 1]] = logblk[tail[t] + 1]]
    BY <2>1 DEF Install
  <2> QED BY <1>0, <2>1, <2>2, InstallTarget
<1>2. CASE Crash
  <2>1. ASSUME NEW t \in Threads, pc[t] \in {"install_trans", "reinstall"},
               home' = [home EXCEPT ![lh[tail[t] + 1]] = Torn]
        PROVE  \A b \in Blocks : home'[b] # home[b] => b \in Range(hdr)
    BY <1>0, <2>1, InstallTarget
  <2>2. CASE home' = home
    BY <2>2
  <2> QED BY ZenonT(40), <1>2, <2>1, <2>2 DEF Crash
<1>3. CASE home' = home
  BY <1>3
<1>4. ASSUME NEW t \in Threads,
             \/ begin_op(t) \/ end_op(t) \/ ReadOther(t) \/ Brelse(t) \/ NoBuffers(t)
             \/ write_log(t) \/ write_head(t) \/ clear_head(t) \/ Committed(t)
             \/ read_head(t) \/ reclear(t)
      PROVE  home' = home
  BY ZenonT(40), <1>4 DEF begin_op, end_op, ReadOther, Brelse, NoBuffers, write_log,
       write_head, clear_head, Committed, read_head, reclear, diskVars
<1>5. ASSUME NEW t \in Threads, NEW b \in Blocks, Bread(t, b) PROVE home' = home
  BY <1>5 DEF Bread, diskVars
<1>6. ASSUME NEW t \in Threads, NEW d \in Data, log_write(t, d) PROVE home' = home
  BY <1>6, ZenonT(40) DEF log_write, diskVars
<1>7. UNCHANGED vars => home' = home
  BY DEF vars, diskVars
<1> QED BY ZenonT(40), <1>1, <1>2, <1>3, <1>4, <1>5, <1>6, <1>7
       DEF Next, CommitStep, Recover

(* Write-ahead: the home of a block is written, by install_trans() or by a  *)
(* write that a crash cut short, only while a header that names the block   *)
(* is on the disk.                                                          *)
THEOREM HomeIsWrittenAhead == Spec => WriteAhead
<1>1. IInv /\ [Next]_vars
        => [\A b \in Blocks : home'[b] # home[b] => b \in Range(hdr)]_vars
  BY HomeWrites
<1> QED BY <1>1, AlwaysInPhase, PTL DEF Spec, WriteAhead

-----------------------------------------------------------------------------
(* Log implements AtomicDisk *)

(* A step of a kernel that is up, after which readers see what they saw. *)
LEMMA SameView ==
  ASSUME Up, \A u \in Threads : pc'[u] \notin Recovering,
         \A b \in Blocks : bread(b)' = bread(b)
  PROVE  View' = View
<1>1. View = [b \in Blocks |-> bread(b)]
  BY SettledView, ZenonT(40) DEF Up
<1>2. View' = [b \in Blocks |-> bread(b)']
  BY ZenonT(40) DEF View
<1> QED BY ZenonT(40), <1>1, <1>2

(* A step that no operation begins or ends with. *)
LEMMA SameActiveThreads ==
  ASSUME \A u \in Threads : pc'[u] \in Active <=> pc[u] \in Active
  PROVE  ActiveThreads' = ActiveThreads
BY DEF ActiveThreads

(* A cache that says the same lets readers see the same. *)
LEMMA SameBread ==
  ASSUME home' = home, \A b \in Blocks : Content(cache', b) = Content(cache, b)
  PROVE  \A b \in Blocks : bread(b)' = bread(b)
BY ZenonT(40) DEF bread, Cached, Content

(* Recycling a buffer loses nothing that readers see. *)
LEMMA RecycledBread ==
  ASSUME TypeOK, Clean, panic = "", home' = home, cache' \in Recycle
  PROVE  \A b \in Blocks : bread(b)' = bread(b)
BY RecycleSafe, SameBread, ZenonT(40)

(* A thread moves between places of which none belongs to the recovery. *)
LEMMA Moves ==
  ASSUME TypeOK, Up, NEW t \in Threads, NEW l \in Pcs \ Recovering,
         pc' = [pc EXCEPT ![t] = l]
  PROVE  /\ \A u \in Threads : pc'[u] \notin Recovering
         /\ pc'[t] = l /\ \A u \in Threads \ {t} : pc'[u] = pc[u]
<1>1. pc \in [Threads -> Pcs] /\ \A u \in Threads : pc[u] \notin Recovering
  BY ZenonT(40) DEF TypeOK, Up
<1> QED BY <1>1

(* bread(), brelse(), and the panic of bget() do not show. *)
LEMMA ReadAtomic ==
  ASSUME IInv, NEW t \in Threads,
         ReadOther(t) \/ Brelse(t) \/ NoBuffers(t) \/ \E b \in Blocks : Bread(t, b)
  PROVE  UNCHANGED AD!vars
<1>1. /\ TypeOK /\ Clean /\ Up /\ panic = ""
      /\ UNCHANGED diskVars /\ home' = home
  BY ZenonT(40) DEF IInv, Up, ReadOther, Brelse, NoBuffers, Bread, diskVars
<1>2. \A b \in Blocks : bread(b)' = bread(b)
  <2>1. ASSUME NEW b \in Blocks, Bread(t, b)
        PROVE  \A x \in Blocks : Content(cache', x) = Content(cache, x)
    BY <1>1, <2>1, BgetSafe, ZenonT(40) DEF Bread
  <2>2. CASE ReadOther(t)
    BY <1>1, <2>2, RecycledBread, ZenonT(40) DEF ReadOther
  <2>3. CASE Brelse(t) \/ NoBuffers(t)
    BY ZenonT(40), <1>1, <2>3 DEF Brelse, NoBuffers, bufVars, bread, Cached
  <2> QED BY <1>1, <2>1, <2>2, <2>3, SameBread, ZenonT(40)
<1>3. \A u \in Threads : /\ pc'[u] \notin Recovering
                         /\ pc'[u] \in Active <=> pc[u] \in Active
  <2>1. CASE NoBuffers(t)
    BY ZenonT(40), <1>1, <2>1 DEF NoBuffers, threadVars, Up
  <2>2. CASE ReadOther(t) \/ \E b \in Blocks : Bread(t, b)
    <3>1. /\ pc[t] \in {"user", "op"}
          /\ pc' = [pc EXCEPT ![t] = IF pc[t] = "op" THEN "op_buf" ELSE "user_buf"]
      BY <2>2 DEF ReadOther, Bread, Goto
    <3> QED BY <1>1, <3>1, Moves, ZenonT(40) DEF Pcs, Active, Recovering
  <2>3. CASE Brelse(t)
    <3>1. /\ pc[t] \in {"user_buf", "op_buf"}
          /\ pc' = [pc EXCEPT ![t] = IF pc[t] = "op_buf" THEN "op" ELSE "user"]
      BY <2>3 DEF Brelse, Goto
    <3> QED BY <1>1, <3>1, Moves, ZenonT(40) DEF Pcs, Active, Recovering
  <2> QED BY <2>1, <2>2, <2>3, ZenonT(40)
<1> QED BY <1>1, <1>2, <1>3, SameView, SameDisk, SameActiveThreads, ZenonT(40)
   DEF AD!vars

(* begin_op() that lets a thread in is Begin, one that sleeps does not show. *)
LEMMA BeginAtomic ==
  ASSUME IInv, NEW t \in Threads, begin_op(t)
  PROVE  AD!Begin(t) \/ UNCHANGED AD!vars
<1>1. /\ TypeOK /\ Up /\ pc[t] \in {"user", "begin_op"}
      /\ UNCHANGED diskVars /\ UNCHANGED <<home, cache>>
      /\ \/ pc' = [pc EXCEPT ![t] = "asleep"]
         \/ pc' = [pc EXCEPT ![t] = "op"]
  BY ZenonT(40) DEF IInv, begin_op, Goto, diskVars, bufVars
<1>2. /\ \A u \in Threads : pc'[u] \notin Recovering
      /\ \A u \in Threads \ {t} : pc'[u] = pc[u]
      /\ pc'[t] \in {"asleep", "op"}
  BY <1>1, Moves DEF Pcs, Active, Recovering
<1>3. View' = View /\ Recovered' = Recovered
  <2>1. \A b \in Blocks : bread(b)' = bread(b)
    BY ZenonT(40), <1>1 DEF bread, Cached
  <2> QED BY <1>1, <1>2, <2>1, SameView, SameDisk
<1>4. t \notin ActiveThreads
  BY <1>1 DEF ActiveThreads, Active
<1>5. CASE pc'[t] = "asleep"
  <2>1. ActiveThreads' = ActiveThreads
    BY ZenonT(40), <1>1, <1>2, <1>5, SameActiveThreads DEF Active
  <2> QED BY <1>3, <2>1 DEF AD!vars
<1>6. CASE pc'[t] = "op"
  <2>1. ActiveThreads' = ActiveThreads \cup {t}
    BY ZenonT(40), <1>2, <1>6 DEF ActiveThreads, Active
  <2> QED BY <1>3, <1>4, <2>1 DEF AD!Begin
<1> QED BY <1>2, <1>5, <1>6

(* end_op() is End. *)
LEMMA EndAtomic ==
  ASSUME IInv, NEW t \in Threads, end_op(t)
  PROVE  AD!End(t)
<1>1. /\ TypeOK /\ Up /\ pc[t] = "op"
      /\ UNCHANGED diskVars /\ UNCHANGED <<home, cache>>
      /\ \/ pc' = [pc EXCEPT ![t] = IF CommitNeeded THEN "write_log" ELSE "end_op"]
         \/ WakeupGoto(t, "user")
  BY ZenonT(40) DEF IInv, end_op, Goto, diskVars, bufVars
<1>2. /\ \A u \in Threads : pc'[u] \notin Recovering
      /\ \A u \in Threads \ {t} : pc'[u] \in Active <=> pc[u] \in Active
      /\ pc'[t] \notin Active
  <2>1. CASE pc' = [pc EXCEPT ![t] = IF CommitNeeded THEN "write_log" ELSE "end_op"]
    <3>1. (IF CommitNeeded THEN "write_log" ELSE "end_op") \in {"write_log", "end_op"}
      OBVIOUS
    <3>2. (IF CommitNeeded THEN "write_log" ELSE "end_op") \in Pcs \ Recovering
      BY DEF Pcs, Committing, Active, Recovering
    <3> QED BY <1>1, <2>1, <3>1, <3>2, Moves, ZenonT(40) DEF Active
  <2>2. CASE WakeupGoto(t, "user")
    BY ZenonT(40), <1>1, <2>2 DEF WakeupGoto, Up, Active, Recovering
  <2> QED BY <1>1, <2>1, <2>2
<1>3. View' = View /\ Recovered' = Recovered
  <2>1. \A b \in Blocks : bread(b)' = bread(b)
    BY ZenonT(40), <1>1 DEF bread, Cached
  <2> QED BY <1>1, <1>2, <2>1, SameView, SameDisk
<1>4. t \in ActiveThreads /\ ActiveThreads' = ActiveThreads \ {t}
  BY ZenonT(40), <1>1, <1>2 DEF ActiveThreads, Active
<1> QED BY <1>3, <1>4 DEF AD!End

(* log_write() is Write, also when it stops the kernel. *)
LEMMA WriteAtomic ==
  ASSUME IInv, NEW t \in Threads, NEW d \in Data, log_write(t, d)
  PROVE  \E b \in Blocks : AD!Write(t, b, d)
<1>1. /\ TypeOK /\ Up /\ pc[t] = "op_buf" /\ buf \in [Threads -> SUBSET Blocks]
      /\ UNCHANGED diskVars /\ home' = home
  BY ZenonT(40) DEF IInv, TypeOK, log_write, diskVars
<1>2. PICK b \in buf[t] : /\ cache' = [cache EXCEPT ![b] = d]
                          /\ pc' = [pc EXCEPT ![t] = "op"] \/ pc' = pc
  BY ZenonT(40) DEF log_write, Goto
<1>3. b \in Blocks
  BY <1>1, <1>2
<1>4. \A u \in Threads : /\ pc'[u] \notin Recovering
                         /\ pc'[u] \in Active <=> pc[u] \in Active
  <2>1. CASE pc' = [pc EXCEPT ![t] = "op"]
    BY <1>1, <2>1, Moves, ZenonT(40) DEF Pcs, Active, Recovering
  <2>2. CASE pc' = pc
    BY ZenonT(40), <1>1, <2>2 DEF Up
  <2> QED BY <1>2, <2>1, <2>2
<1>5. bread(b)' = d /\ \A x \in Blocks \ {b} : bread(x)' = bread(x)
  <2>1. cache \in [Blocks -> OnDisk \cup {NotCached}] /\ d # NotCached
    BY <1>1, LogAssumption DEF TypeOK
  <2>2. cache'[b] = d /\ \A x \in Blocks \ {b} : cache'[x] = cache[x]
    BY <1>2, <1>3, <2>1
  <2> QED BY ZenonT(40), <1>1, <1>3, <2>1, <2>2 DEF bread, Cached
<1>6. View' = [View EXCEPT ![b] = d]
  <2>1. View = [x \in Blocks |-> bread(x)]
    BY <1>1, SettledView, ZenonT(40) DEF Up
  <2>2. View' = [x \in Blocks |-> bread(x)']
    BY ZenonT(40), <1>4 DEF View
  <2>3. \A x \in Blocks : [View EXCEPT ![b] = d][x] = bread(x)'
    BY <1>3, <1>5, <2>1
  <2>4. [View EXCEPT ![b] = d] = [x \in Blocks |-> [View EXCEPT ![b] = d][x]]
    BY <2>1
  <2> QED BY ZenonT(40), <2>2, <2>3, <2>4
<1>7. t \in ActiveThreads
  BY ZenonT(40), <1>1 DEF ActiveThreads, Active
<1>8. Recovered' = Recovered /\ ActiveThreads' = ActiveThreads
  BY <1>1, <1>4, SameDisk, SameActiveThreads
<1> QED BY <1>3, <1>6, <1>7, <1>8, ZenonT(40) DEF AD!Write

(* The stages of commit() other than the first write_head() do not show. *)
LEMMA WriteLogAtomic ==
  ASSUME IInv, NEW t \in Threads, write_log(t)
  PROVE  UNCHANGED AD!vars
<1>1. /\ TypeOK /\ Headers /\ Clean /\ panic = "" /\ Up /\ pc[t] = "write_log"
      /\ UNCHANGED <<home, hdr>>
  BY ZenonT(40) DEF IInv, write_log, Up
<1>2. Commits(t)
  BY <1>1, PhaseOf, ZenonT(40) DEF Committing
<1>3. Copying(t)
  BY ZenonT(40), <1>1, <1>2 DEF Commits, ReadyToCommit, Installing, AllInstalled, Emptied
<1>4. /\ \E c \in Recycle : cache' = [c EXCEPT ![lh[tail[t] + 1]] = bread(lh[tail[t] + 1])]
      /\ Loop(t, "write_head")
  BY ZenonT(40) DEF write_log
<1>5. tail[t] < Len(lh) /\ hdr = << >>
  BY <1>3 DEF Copying
<1>6. lh[tail[t] + 1] \in Blocks
  <2>1. tail[t] \in Nat /\ Len(lh) \in Nat
    BY <1>1, Entries, ZenonT(40)
  <2>2. tail[t] + 1 \in 1 .. Len(lh)
    BY ONLY <1>5, <2>1
  <2> QED BY <1>1, <2>2, Entries, ZenonT(40)
<1>7. bread(lh[tail[t] + 1]) \in OnDisk
  BY <1>1, <1>6, BreadType, ZenonT(40)
<1>8. \A x \in Blocks : bread(x)' = bread(x)
  <2> DEFINE b == lh[tail[t] + 1]
  <2>0. /\ b \in Blocks /\ bread(b) \in OnDisk
        /\ \E c \in Recycle : cache' = [c EXCEPT ![b] = bread(b)]
    BY <1>4, <1>6, <1>7, ZenonT(40)
  <2> HIDE DEF b
  <2>1. /\ cache'[b] = bread(b) /\ bread(b) # NotCached
        /\ \A x \in Blocks \ {b} : Content(cache', x) = Content(cache, x)
    BY ZenonT(40), <1>1, <2>0, FillSafe
  <2>2. \A x \in Blocks : Content(cache', x) = Content(cache, x)
    BY ZenonT(40), <2>0, <2>1, BreadContent DEF Content
  <2> QED BY <1>1, <2>2, SameBread, ZenonT(40)
<1>9. \A u \in Threads : /\ pc'[u] \notin Recovering
                         /\ pc'[u] \in Active <=> pc[u] \in Active
  <2>1. /\ \A u \in Threads \ {t} : pc'[u] = pc[u]
        /\ pc'[t] \in {"write_head", "write_log"}
    BY <1>1, <1>4, <1>5, LoopTurn, ZenonT(40) DEF Pcs, Committing
  <2> QED BY ZenonT(40), <1>1, <2>1 DEF Up, Active, Recovering
<1>10. Recovered' = Recovered
  <2>1. 1 .. Len(hdr) = {}
    BY <1>5
  <2> QED BY ZenonT(40), <1>1, <2>1, SameRecovered
<1> QED BY <1>1, <1>8, <1>9, <1>10, SameView, SameActiveThreads, ZenonT(40)
   DEF AD!vars

(* install_trans() writes home what readers see already. *)
LEMMA InstallAtomic ==
  ASSUME IInv, NEW t \in Threads, install_trans(t)
  PROVE  UNCHANGED AD!vars
<1>1. /\ TypeOK /\ Headers /\ Clean /\ panic = "" /\ Up /\ pc[t] = "install_trans"
      /\ Install(t, lh[tail[t] + 1]) /\ Loop(t, "clear_head")
      /\ UNCHANGED <<hdr, logblk>>
  BY ZenonT(40) DEF IInv, install_trans, Up
<1>2. /\ lh = hdr /\ tail[t] < Len(hdr) /\ Installed(tail[t])
      /\ lh[tail[t] + 1] \in Blocks /\ lh[tail[t] + 1] \in Range(hdr)
  BY <1>1, InstallTarget, ZenonT(40)
<1>3. Installing(t)
  <2>1. Commits(t)
    BY <1>1, PhaseOf, ZenonT(40) DEF Committing
  <2> QED BY ZenonT(40), <1>1, <2>1 DEF Commits, Copying, ReadyToCommit,
           AllInstalled, Emptied
<1>4. /\ Turn(t) \in 1 .. Len(hdr) /\ Target(t) \in Blocks
      /\ home'[Target(t)] = logblk[Turn(t)] /\ cache'[Target(t)] = logblk[Turn(t)]
      /\ logblk[Turn(t)] # NotCached
      /\ \A x \in Blocks \ {Target(t)} : home'[x] = home[x]
      /\ \A x \in Blocks \ {Target(t)} : Content(cache', x) = Content(cache, x)
  BY <1>1, <1>2, InstallTurn, ZenonT(40)
<1>5. Target(t) \in Range(hdr) /\ bread(Target(t)) = logblk[Turn(t)]
  BY ZenonT(40), <1>2, <1>3, <1>4 DEF Installing, Copied, Turn, Target
<1>6. \A x \in Blocks : bread(x)' = bread(x)
  BY ZenonT(40), <1>4, <1>5 DEF bread, Cached, Content
<1>7. \A u \in Threads : /\ pc'[u] \notin Recovering
                         /\ pc'[u] \in Active <=> pc[u] \in Active
  <2>1. /\ \A u \in Threads \ {t} : pc'[u] = pc[u]
        /\ pc'[t] \in {"clear_head", "install_trans"}
    BY <1>1, <1>2, LoopTurn, ZenonT(40) DEF Pcs, Committing
  <2> QED BY ZenonT(40), <1>1, <2>1 DEF Up, Active, Recovering
<1>8. Recovered' = Recovered
  BY ZenonT(40), <1>1, <1>4, <1>5, SameRecovered
<1> QED BY <1>1, <1>6, <1>7, <1>8, SameView, SameActiveThreads, ZenonT(40)
   DEF AD!vars

(* write_head() with n = 0: every block of the old header is at home. *)
LEMMA ClearAtomic ==
  ASSUME IInv, IInv', NEW t \in Threads, clear_head(t)
  PROVE  UNCHANGED AD!vars
<1>1. /\ TypeOK /\ Headers /\ Clean /\ panic = "" /\ Up /\ pc[t] = "clear_head"
      /\ hdr' = lh /\ cache' \in Recycle /\ pc' = [pc EXCEPT ![t] = "end_op"]
      /\ home' = home
  BY ZenonT(40) DEF IInv, clear_head, Goto, Up
<1>2. Commits(t)
  BY <1>1, PhaseOf, ZenonT(40) DEF Committing
<1>3. lh = << >> /\ Installed(Len(hdr))
  BY ZenonT(40), <1>1, <1>2 DEF Commits, Copying, ReadyToCommit, Installing,
       AllInstalled, Emptied
<1>4. \A u \in Threads : /\ pc'[u] \notin Recovering
                         /\ pc'[u] \in Active <=> pc[u] \in Active
  BY <1>1, Moves, ZenonT(40) DEF Pcs, Committing, Active, Recovering
<1>5. \A b \in Blocks : bread(b)' = bread(b)
  BY <1>1, RecycledBread, ZenonT(40)
<1>6. Recovered = home
  BY <1>1, <1>3, AllHome, ZenonT(40)
<1>7. Recovered' = home'
  BY <1>1, <1>3, NoHeaderNext, ZenonT(40) DEF IInv, HomeIsDurable
<1> QED BY <1>1, <1>4, <1>5, <1>6, <1>7, SameView, SameActiveThreads,
   ZenonT(40)
   DEF AD!vars

(* The first write_head() of commit() is Commit: the durable version        *)
(* becomes what readers see.                                                *)
LEMMA CommitAtomic ==
  ASSUME IInv, IInv', NEW t \in Threads, write_head(t)
  PROVE  AD!Commit
<1>1. /\ TypeOK /\ Headers /\ Counted /\ Clean /\ panic = "" /\ Up /\ pc[t] = "write_head"
      /\ hdr' = lh /\ cache' \in Recycle /\ pc' = [pc EXCEPT ![t] = "install_trans"]
      /\ UNCHANGED <<home, logblk, lh>>
  BY ZenonT(40) DEF IInv, write_head, Goto, Up, logVars
<1>2. Commits(t)
  BY <1>1, PhaseOf, ZenonT(40) DEF Committing
<1>3. outstanding = 0 /\ Copied(Len(lh)) /\ Pinned(0)
  BY ZenonT(40), <1>1, <1>2 DEF Commits, Copying, ReadyToCommit, Installing,
       AllInstalled, Emptied
<1>4. \A u \in Threads : /\ pc'[u] \notin Recovering
                         /\ pc'[u] \in Active <=> pc[u] \in Active
  BY <1>1, Moves, ZenonT(40) DEF Pcs, Committing, Active, Recovering
<1>5. View' = View /\ View = [b \in Blocks |-> bread(b)]
  <2>1. \A b \in Blocks : bread(b)' = bread(b)
    BY <1>1, RecycledBread, ZenonT(40)
  <2> QED BY <1>1, <1>4, <2>1, SameView, SettledView, ZenonT(40) DEF Up
<1>6. ActiveThreads = {} /\ ActiveThreads' = {}
  <2>1. ActiveThreads = {}
    BY <1>1, <1>3, NoneActive, ZenonT(40) DEF ZeroMeansNone, ActiveThreads
  <2> QED BY <1>4, <2>1, SameActiveThreads
<1>7. ASSUME NEW b \in Blocks PROVE Recovered'[b] = bread(b)
  <2>0. RecoveredEntry'
    BY RecoveredEntriesNext DEF IInv
  <2>1. CASE b \in Range(lh)
    <3>1. PICK k \in 1 .. Len(lh) : lh[k] = b
      <4>1. lh \in Seq(Blocks)
        BY ZenonT(40), <1>1 DEF TypeOK
      <4> QED BY <2>1, <4>1 DEF Range
    <3>2. Recovered'[hdr'[k]] = logblk'[k]
      BY ZenonT(40), <1>1, <2>0 DEF RecoveredEntry
    <3> QED BY ZenonT(40), <1>1, <1>3, <3>1, <3>2 DEF Copied
  <2>2. CASE b \notin Range(lh)
    <3>1. \A k \in 1 .. Len(lh) : lh[k] # b
      <4>1. lh \in Seq(Blocks)
        BY ZenonT(40), <1>1 DEF TypeOK
      <4> QED BY <2>2, <4>1 DEF Range
    <3>2. pins[b] = 0
      BY ZenonT(40), <1>3, <3>1 DEF Pinned
    <3>3. bread(b) = home[b]
      BY ZenonT(40), <1>1, <3>2 DEF Clean, bread, Cached
    <3>4. Recovered'[b] = home'[b]
      BY ZenonT(40), <1>1, <2>0, <2>2 DEF RecoveredEntry
    <3> QED BY <1>1, <3>3, <3>4, ZenonT(40)
  <2> QED BY <2>1, <2>2
<1>8. Recovered' = [b \in Blocks |-> Recovered'[b]]
  <2>1. RecoveredForm'
    BY RecoveredEverywhere, PTL
  <2> QED BY ZenonT(40), <2>1 DEF RecoveredForm
<1>9. Recovered' = View
  BY ZenonT(40), <1>5, <1>7, <1>8
<1> QED BY <1>5, <1>6, <1>9 DEF AD!Commit

(* The end of end_op() only wakes threads up. *)
LEMMA CommittedAtomic ==
  ASSUME IInv, NEW t \in Threads, Committed(t)
  PROVE  UNCHANGED AD!vars
<1>1. /\ TypeOK /\ Up /\ pc[t] = "end_op" /\ WakeupGoto(t, "user")
      /\ UNCHANGED diskVars /\ UNCHANGED <<home, cache>>
  BY ZenonT(40) DEF IInv, Committed, diskVars, bufVars
<1>2. \A u \in Threads : /\ pc'[u] \notin Recovering
                         /\ pc'[u] \in Active <=> pc[u] \in Active
  BY ZenonT(40), <1>1 DEF WakeupGoto, Up, Active, Recovering
<1>3. \A b \in Blocks : bread(b)' = bread(b)
  BY ZenonT(40), <1>1 DEF bread, Cached
<1> QED BY <1>1, <1>2, <1>3, SameView, SameDisk, SameActiveThreads, ZenonT(40)
   DEF AD!vars

(* A crash is Crash, whatever was being written. *)
LEMMA CrashAtomic ==
  ASSUME IInv, Crash
  PROVE  AD!Crash
<1>1. TypeOK /\ hdr' = hdr
  BY ZenonT(40) DEF IInv, Crash
<1>2. PICK t \in Threads : pc' = Started(t)
  BY ZenonT(40) DEF Crash
<1>3. pc'[t] \in Recovering /\ \A u \in Threads : pc'[u] \notin Active
  BY <1>2 DEF Started, Recovering, Active
<1>4. \A k \in 1 .. Len(hdr) : logblk'[k] = logblk[k]
  <2>1. CASE logblk' = logblk
    BY <2>1
  <2>2. ASSUME NEW u \in Threads, pc[u] = "write_log" PROVE 1 .. Len(hdr) = {}
    <3>1. Commits(u)
      BY <2>2, PhaseOf DEF Committing
    <3>2. hdr = << >>
      BY ZenonT(40), <2>2, <3>1 DEF Commits, Copying, ReadyToCommit, Installing,
       AllInstalled, Emptied
    <3> QED BY <3>2
  <2> QED BY ZenonT(40), <2>1, <2>2 DEF Crash
<1>5. \A b \in Blocks : b \notin Range(hdr) => home'[b] = home[b]
  BY HomeWrites, ZenonT(40) DEF Next
<1>6. Recovered' = Recovered
  BY <1>1, <1>4, <1>5, SameRecovered
<1>7. View' = Recovered'
  BY ZenonT(40), <1>3 DEF View
<1>8. ActiveThreads' = {}
  BY ZenonT(40), <1>3 DEF ActiveThreads
<1> QED BY <1>6, <1>7, <1>8 DEF AD!Crash

(* A turn of install_trans() in the recovery is not its end. *)
LEMMA RecoverLoop ==
  ASSUME IInv, NEW t \in Threads, reinstall(t)
  PROVE  pc'[t] \in Recovering /\ \A u \in Threads \ {t} : pc'[u] = pc[u]
<1>1. TypeOK /\ pc[t] = "reinstall" /\ Loop(t, "reclear")
  BY ZenonT(40) DEF IInv, reinstall
<1>2. tail[t] < Len(lh)
  BY <1>1, InstallTarget
<1> QED BY <1>1, <1>2, LoopTurn DEF Pcs, Recovering

(* The recovery does not show: until it is over there are no readers, and   *)
(* what it installs is what they are going to see.                          *)
LEMMA RecoverAtomic ==
  ASSUME IInv, IInv', NEW t \in Threads, Recover(t)
  PROVE  UNCHANGED AD!vars
<1>1. TypeOK /\ Headers /\ Clean /\ panic = "" /\ pc[t] \in Recovering
  BY ZenonT(40) DEF IInv, Recover, read_head, reinstall, reclear, Recovering
<1>2. Recovers(t) /\ View = Recovered
  BY <1>1, PhaseOf, RecoveringView, ZenonT(40)
<1>3. pc \in [Threads -> Pcs] /\ \A l \in Recovering : l \notin Active
  BY ZenonT(40), <1>1 DEF TypeOK, Recovering, Active
<1>4. CASE read_head(t) \/ reinstall(t)
  <2>1. Recovered' = Recovered
    <3>1. CASE read_head(t)
      BY <3>1, SameDisk, ZenonT(40) DEF read_head
    <3>2. CASE reinstall(t)
      <4>1. hdr' = hdr /\ logblk' = logblk
        BY <3>2, ZenonT(40) DEF reinstall
      <4>2. \A b \in Blocks : b \notin Range(hdr) => home'[b] = home[b]
        BY ZenonT(40), <3>2, HomeWrites DEF Next, Recover
      <4> QED BY <1>1, <4>1, <4>2, SameRecovered, ZenonT(40)
    <3> QED BY <1>4, <3>1, <3>2
  <2>2. pc'[t] \in Recovering /\ \A u \in Threads \ {t} : pc'[u] = pc[u]
    <3>1. CASE read_head(t)
      BY <1>3, <3>1, ZenonT(40) DEF read_head, Goto, Recovering
    <3>2. CASE reinstall(t)
      BY <3>2, RecoverLoop
    <3> QED BY <1>4, <3>1, <3>2
  <2>3. View' = Recovered'
    BY ZenonT(40), <2>2 DEF View
  <2>4. ActiveThreads' = ActiveThreads
    BY ZenonT(40), <1>1, <1>3, <2>2, SameActiveThreads
  <2> QED BY <1>2, <2>1, <2>3, <2>4 DEF AD!vars
<1>5. CASE reclear(t)
  <2>1. /\ pc[t] = "reclear" /\ pc' = [pc EXCEPT ![t] = "user"]
        /\ hdr' = lh /\ home' = home /\ cache' \in Recycle
    BY ZenonT(40), <1>5 DEF reclear, Goto
  <2>2. lh = << >> /\ Installed(Len(hdr)) /\ \A b \in Blocks : pins[b] = 0
    BY ZenonT(40), <1>2, <2>1 DEF Recovers, Restarted, Reinstalling, Reinstalled
  <2>3. Recovered = home
    BY <1>1, <2>2, AllHome, ZenonT(40)
  <2>4. Recovered' = home'
    BY <2>1, <2>2, NoHeaderNext DEF IInv, HomeIsDurable
  <2>5. \A u \in Threads : pc'[u] = "user"
    BY <1>2, <1>3, <2>1, ZenonT(40) DEF Recovers
  <2>6. \A b \in Blocks : bread(b)' = home[b]
    <3>1. \A b \in Blocks : bread(b) = home[b]
      BY <1>1, <2>2, NothingPinned, ZenonT(40)
    <3>2. \A b \in Blocks : bread(b)' = bread(b)
      BY <1>1, <2>1, RecycledBread, ZenonT(40)
    <3> QED BY ZenonT(40), <3>1, <3>2
  <2>7. View' = home
    <3>1. View' = [b \in Blocks |-> bread(b)']
      BY ZenonT(40), <2>5 DEF View, Recovering
    <3>2. home \in [Blocks -> OnDisk]
      BY ZenonT(40), <1>1 DEF TypeOK
    <3>3. home = [b \in Blocks |-> home[b]]
      BY <3>2
    <3> QED BY ZenonT(40), <2>6, <3>1, <3>3
  <2>8. ActiveThreads' = ActiveThreads
    <3>1. \A u \in Threads : pc'[u] \notin Active
      BY ZenonT(40), <2>5 DEF Active
    <3>2. \A u \in Threads : pc[u] \notin Active
      BY ZenonT(40), <1>2, <2>1 DEF Recovers, Active
    <3> QED BY ZenonT(40), <3>1, <3>2, SameActiveThreads
  <2> QED BY <1>2, <2>1, <2>3, <2>4, <2>7, <2>8 DEF AD!vars
<1> QED BY <1>4, <1>5 DEF Recover

(* The log makes the writes of all the operations that overlap durable as a *)
(* whole, at the first write_head() of commit(); a crash at any time, also  *)
(* during the recovery, falls back to the last whole.                       *)
THEOREM LogIsAtomic == Spec => AtomicCommits
<1>1. Init => AD!Init
  <2> SUFFICES ASSUME Init PROVE AD!Init
    OBVIOUS
  <2>1. TypeOK /\ Headers
    BY InitInv DEF IInv
  <2>2. home \in [Blocks -> Data] /\ hdr = << >>
    BY ZenonT(40) DEF Init
  <2>3. Recovered = home
    BY <2>1, <2>2, NoHeader DEF HomeIsDurable
  <2>4. PICK t \in Threads : pc = Started(t)
    BY ZenonT(40) DEF Init
  <2>5. pc[t] \in Recovering /\ \A u \in Threads : pc[u] \notin Active
    BY <2>4 DEF Started, Recovering, Active
  <2>6. View = Recovered /\ ActiveThreads = {}
    BY ZenonT(40), <2>5, RecoveringView DEF ActiveThreads
  <2> QED BY <2>2, <2>3, <2>6 DEF AD!Init
<1>2. IInv /\ IInv' /\ [Next]_vars => [AD!Next]_(AD!vars)
  <2> SUFFICES ASSUME IInv, IInv', [Next]_vars PROVE AD!Next \/ UNCHANGED AD!vars
    OBVIOUS
  <2>1. ASSUME NEW t \in Threads, begin_op(t) \/ end_op(t)
        PROVE  AD!Next \/ UNCHANGED AD!vars
    BY <2>1, BeginAtomic, EndAtomic DEF AD!Next
  <2>2. ASSUME NEW t \in Threads, CommitStep(t)
        PROVE  AD!Next \/ UNCHANGED AD!vars
    BY <2>2, WriteLogAtomic, CommitAtomic, InstallAtomic, ClearAtomic, CommittedAtomic
       DEF CommitStep, AD!Next
  <2>3. ASSUME NEW t \in Threads, NEW d \in Data, log_write(t, d)
        PROVE  AD!Next
    BY <2>3, WriteAtomic DEF AD!Next
  <2>4. Crash => AD!Next
    BY CrashAtomic DEF AD!Next
  <2>5. UNCHANGED vars => UNCHANGED AD!vars
    <3> SUFFICES ASSUME UNCHANGED vars PROVE UNCHANGED AD!vars
      OBVIOUS
    <3>1. UNCHANGED <<home, hdr, logblk, cache, pc>>
      BY DEF vars, diskVars, bufVars, threadVars
    <3>2. Recovered' = Recovered /\ ActiveThreads' = ActiveThreads
      BY <3>1, SameDisk DEF diskVars, ActiveThreads
    <3>3. \A b \in Blocks : bread(b)' = bread(b)
      BY ZenonT(40), <3>1 DEF bread, Cached
    <3>4. [b \in Blocks |-> bread(b)'] = [b \in Blocks |-> bread(b)]
      BY <3>3
    <3>5. View' = View
      <4>1. CASE \A t \in Threads : pc[t] \notin Recovering
        BY ZenonT(40), <3>1, <3>4, <4>1 DEF View
      <4>2. CASE \E t \in Threads : pc[t] \in Recovering
        BY ZenonT(40), <3>1, <3>2, <4>2 DEF View
      <4> QED BY <4>1, <4>2
    <3> QED BY <3>2, <3>5 DEF AD!vars
  <2> QED BY ZenonT(40), <2>1, <2>2, <2>3, <2>4, <2>5, ReadAtomic, RecoverAtomic DEF Next
<1> QED BY <1>1, <1>2, AlwaysInPhase, PTL DEF Spec, AtomicCommits, AD!Spec

(* What an operation has written is in the log and within its limit, and   *)
(* outside an operation nothing is left of it.                             *)
Kept ==
  /\ wrote \in [Threads -> SUBSET Blocks]
  /\ \A t \in Threads :
       /\ wrote[t] \subseteq Range(lh)
       /\ pc[t] \notin Active => wrote[t] = {}
       /\ Cardinality(wrote[t]) <= OpBlocks

Reserved == Kept /\ ReservationsFit

(* The blocks of an operation, and all that is written, are finitely many. *)
LEMMA WrittenFinite ==
  ASSUME wrote \in [Threads -> SUBSET Blocks]
  PROVE  /\ IsFiniteSet(Written) /\ Cardinality(Written) \in Nat
         /\ \A t \in Threads : /\ IsFiniteSet(wrote[t])
                               /\ Cardinality(wrote[t]) \in Nat
<1>1. IsFiniteSet(Threads \X Blocks)
  BY ZenonT(40), LogAssumption, FS_Product
<1>2. Written \subseteq Threads \X Blocks
  BY ZenonT(40) DEF Written
<1>3. IsFiniteSet(Written)
  BY ZenonT(40), <1>1, <1>2, FS_Subset
<1>4. ASSUME NEW t \in Threads PROVE IsFiniteSet(wrote[t])
  <2>1. wrote[t] \subseteq Blocks
    BY ZenonT(40)
  <2> QED BY ZenonT(40), <2>1, LogAssumption, FS_Subset
<1> QED BY ZenonT(40), <1>3, <1>4, FS_CardinalityType

(* The room that begin_op() asks for, in terms of log.outstanding. *)
LEMMA FitsCounted ==
  ASSUME Counted
  PROVE  ReservationsFit <=>
           Len(lh) + outstanding * MAXOPBLOCKS - Cardinality(Written) <= LOGSIZE
BY ZenonT(40) DEF ReservationsFit, Counted

(* The same after a step. *)
LEMMA FitsCountedNext ==
  Counted' => (ReservationsFit' <=>
    Len(lh') + outstanding' * MAXOPBLOCKS - Cardinality(Written') <= LOGSIZE)
BY ZenonT(40) DEF ReservationsFit, Counted

(* One operation more, and one less. *)
LEMMA RoomArithmetic ==
  /\ \A l, o, m, w, L \in Nat :
       ~(l + (o + 1) * m > L) => l + (o + 1) * m - w <= L
  /\ \A l, o, m, w, k, L \in Nat :
       l + o * m - (w + k) <= L /\ k <= m /\ o # 0 => l + (o - 1) * m - w <= L
<1>1. \A o, m \in Nat : o * m \in Nat /\ (o + 1) * m = o * m + m
                        /\ (o - 1) * m = o * m - m
  BY SMT
<1>2. ASSUME NEW l \in Nat, NEW o \in Nat, NEW m \in Nat, NEW w \in Nat,
             NEW L \in Nat, ~(l + (o + 1) * m > L)
      PROVE  l + (o + 1) * m - w <= L
  <2>1. PICK x \in Nat : x = (o + 1) * m
    BY <1>1
  <2> QED BY <1>2, <2>1
<1>3. ASSUME NEW l \in Nat, NEW o \in Nat, NEW m \in Nat, NEW w \in Nat,
             NEW k \in Nat, NEW L \in Nat,
             l + o * m - (w + k) <= L, k <= m, o # 0
      PROVE  l + (o - 1) * m - w <= L
  <2>1. PICK x \in Nat : x = o * m /\ (o - 1) * m = x - m
    BY <1>1
  <2> QED BY <1>3, <2>1
<1> QED BY ZenonT(40), <1>2, <1>3

(* No operation is in progress. *)
Idle == outstanding = 0 /\ wrote = Nothing

(* Then the log needs no room beyond itself. *)
LEMMA IdleFits == IInv /\ Idle => Reserved
<1> SUFFICES ASSUME IInv, outstanding = 0, wrote = Nothing PROVE Reserved
  BY ZenonT(40) DEF Idle
<1>1. wrote \in [Threads -> SUBSET Blocks] /\ \A t \in Threads : wrote[t] = {}
  BY ZenonT(40) DEF Nothing
<1>2. Cardinality({}) = 0 /\ 0 <= OpBlocks
  BY FS_EmptySet, LogAssumption
<1>3. Written = {}
  BY ZenonT(40), <1>1 DEF Written
<1>4. Kept
  BY ZenonT(40), <1>1, <1>2 DEF Kept
<1>5. Counted /\ Len(lh) \in Nat /\ Len(lh) <= LOGSIZE
  BY Entries DEF IInv, Headers, IsHeader
<1>6. Len(lh) + 0 * MAXOPBLOCKS - 0 <= LOGSIZE
  BY <1>5, LogAssumption
<1> QED BY ZenonT(40), <1>2, <1>3, <1>4, <1>5, <1>6, FitsCounted DEF Reserved

(* The same after a step. *)
LEMMA IdleFitsNext == IInv' /\ Idle' => Reserved'
BY IdleFits, PTL

(* A step that no operation begins, writes or ends with. *)
LEMMA SameReserved ==
  ASSUME IInv, IInv', Reserved, UNCHANGED <<lh, outstanding, wrote>>,
         \A u \in Threads : pc'[u] \in Active <=> pc[u] \in Active
  PROVE  Reserved'
<1>1. Counted /\ Counted'
  BY ZenonT(40) DEF IInv
<1>2. Written' = Written
  BY ZenonT(40) DEF Written
<1>3. Kept'
  BY ZenonT(40) DEF Reserved, Kept
<1>4. ReservationsFit'
  BY ZenonT(40), <1>1, <1>2, FitsCounted, FitsCountedNext DEF Reserved
<1> QED BY ZenonT(40), <1>3, <1>4 DEF Reserved

(* A thread that commits or recovers does so while no operation is in      *)
(* progress.                                                               *)
LEMMA AloneReserved ==
  ASSUME IInv, IInv', Reserved, NEW t \in Threads,
         pc[t] \in Committing \cup Recovering, UNCHANGED <<outstanding, wrote>>
  PROVE  Reserved'
<1>1. outstanding = 0 /\ Counted
  BY ZenonT(40), PhaseOf DEF Commits, Recovers, IInv
<1>2. \A u \in Threads : wrote[u] = {}
  BY ZenonT(40), <1>1, NoneActive DEF ZeroMeansNone, Reserved, Kept
<1>3. wrote = Nothing
  BY <1>2 DEF Nothing, Reserved, Kept
<1>4. Idle'
  BY ZenonT(40), <1>1, <1>3 DEF Idle, Nothing
<1> QED BY ZenonT(40), <1>4, IdleFitsNext

(* begin_op() lets an operation in when there is room for one more. *)
LEMMA BeginReserved ==
  ASSUME IInv, IInv', Reserved, NEW t \in Threads, begin_op(t)
  PROVE  Reserved'
<1>1. /\ TypeOK /\ Counted /\ Counted'
      /\ UNCHANGED <<lh, wrote>> /\ pc[t] \in {"user", "begin_op"}
  BY ZenonT(40) DEF IInv, begin_op
<1>2. pc \in [Threads -> Pcs] /\ outstanding \in Nat
  BY ZenonT(40), <1>1 DEF TypeOK
<1>3. CASE committing \/ NoSpace
  <2>1. outstanding' = outstanding /\ pc' = [pc EXCEPT ![t] = "asleep"]
    BY ZenonT(40), <1>3 DEF begin_op, Goto
  <2>2. \A u \in Threads : pc'[u] \in Active <=> pc[u] \in Active
    BY ZenonT(40), <1>1, <1>2, <2>1 DEF Active
  <2> QED BY ZenonT(40), <1>1, <2>1, <2>2, SameReserved
<1>4. CASE ~(committing \/ NoSpace)
  <2>1. /\ outstanding' = outstanding + 1 /\ pc' = [pc EXCEPT ![t] = "op"]
        /\ ~(Len(lh) + (outstanding + 1) * MAXOPBLOCKS > LOGSIZE)
    BY ZenonT(40), <1>4 DEF begin_op, Goto, NoSpace
  <2>2. Kept'
    <3>1. \A u \in Threads : pc'[u] \notin Active => pc[u] \notin Active
      BY ZenonT(40), <1>1, <1>2, <2>1 DEF Active
    <3> QED BY ZenonT(40), <1>1, <3>1 DEF Reserved, Kept
  <2>3. Written' = Written /\ Cardinality(Written) \in Nat
    BY ZenonT(40), <1>1, WrittenFinite DEF Written, Reserved, Kept
  <2>4. Len(lh) \in Nat /\ MAXOPBLOCKS \in Nat /\ LOGSIZE \in Nat
    BY <1>1, Entries, LogAssumption
  <2>5. Len(lh) + (outstanding + 1) * MAXOPBLOCKS - Cardinality(Written)
          <= LOGSIZE
    BY ZenonT(40), <1>2, <2>1, <2>3, <2>4, RoomArithmetic
  <2> QED BY ZenonT(40), <1>1, <2>1, <2>2, <2>3, <2>5, FitsCountedNext
          DEF Reserved
<1> QED BY ZenonT(40), <1>3, <1>4

(* A block that an operation writes for the first time takes at most one   *)
(* entry of the log, and a block it has written before takes none.         *)
LEMMA WriteReserved ==
  ASSUME IInv, IInv', Reserved, NEW t \in Threads, NEW d \in Data,
         log_write(t, d)
  PROVE  Reserved'
<1>1. /\ TypeOK /\ Counted /\ Counted' /\ pc[t] = "op_buf"
      /\ outstanding' = outstanding
  BY ZenonT(40) DEF IInv, log_write
<1>2. PICK b \in buf[t] :
        /\ Cardinality(wrote[t] \cup {b}) <= OpBlocks
        /\ IF LogWritePanic = ""
           THEN /\ lh' = Absorb(b)
                /\ wrote' = [wrote EXCEPT ![t] = @ \cup {b}]
                /\ Goto(t, "op")
           ELSE UNCHANGED <<lh, wrote, pc>>
  BY ZenonT(40) DEF log_write
<1>3. /\ b \in Blocks /\ wrote \in [Threads -> SUBSET Blocks]
      /\ pc \in [Threads -> Pcs] /\ lh \in Seq(Blocks) /\ outstanding \in Nat
  BY ZenonT(40), <1>1 DEF TypeOK, Reserved, Kept
<1>4. CASE LogWritePanic # ""
  BY ZenonT(40), <1>1, <1>2, <1>4, SameReserved
<1>5. CASE LogWritePanic = ""
  <2>1. /\ lh' = Absorb(b) /\ wrote' = [wrote EXCEPT ![t] = wrote[t] \cup {b}]
        /\ pc' = [pc EXCEPT ![t] = "op"]
    BY ZenonT(40), <1>2, <1>5 DEF Goto
  <2>2. /\ Range(lh') = Range(lh) \cup {b} /\ Len(lh') \in Nat /\ Len(lh) \in Nat
        /\ Len(lh') <= Len(lh) + 1
        /\ b \in Range(lh) => lh' = lh
    <3>1. CASE b \in Range(lh)
      BY <1>3, <2>1, <3>1 DEF Absorb
    <3>2. CASE b \notin Range(lh)
      <4>1. lh' = Append(lh, b)
        BY ZenonT(40), <2>1, <3>2 DEF Absorb
      <4>2. /\ Len(lh') = Len(lh) + 1 /\ DOMAIN lh' = 1 .. Len(lh) + 1
            /\ DOMAIN lh = 1 .. Len(lh) /\ Len(lh) \in Nat
            /\ lh'[Len(lh) + 1] = b
            /\ \A k \in 1 .. Len(lh) : lh'[k] = lh[k]
        BY <1>3, <4>1
      <4>3. Range(lh') = Range(lh) \cup {b}
        <5>1. DOMAIN lh' = (DOMAIN lh) \cup {Len(lh) + 1}
          BY <4>2
        <5> QED BY ZenonT(40), <4>2, <5>1 DEF Range
      <4> QED BY <3>2, <4>2, <4>3
    <3> QED BY ZenonT(40), <3>1, <3>2
  <2>3. /\ wrote'[t] = wrote[t] \cup {b}
        /\ \A u \in Threads : u # t => wrote'[u] = wrote[u] /\ pc'[u] = pc[u]
        /\ pc'[t] = "op"
    BY ZenonT(40), <1>3, <2>1
  <2>4. Kept'
    <3>1. wrote' \in [Threads -> SUBSET Blocks]
      BY ZenonT(40), <1>3, <2>1
    <3>2. ASSUME NEW u \in Threads
          PROVE  /\ wrote'[u] \subseteq Range(lh')
                 /\ pc'[u] \notin Active => wrote'[u] = {}
                 /\ Cardinality(wrote'[u]) <= OpBlocks
      <4>1. /\ wrote[u] \subseteq Range(lh)
            /\ pc[u] \notin Active => wrote[u] = {}
            /\ Cardinality(wrote[u]) <= OpBlocks
        BY ZenonT(40) DEF Reserved, Kept
      <4>2. CASE u = t
        <5>1. "op" \in Active
          BY ZenonT(40) DEF Active
        <5> QED BY ZenonT(40), <1>2, <2>2, <2>3, <4>1, <4>2, <5>1
      <4>3. CASE u # t
        BY ZenonT(40), <2>2, <2>3, <4>1, <4>3
      <4> QED BY ZenonT(40), <4>2, <4>3
    <3> QED BY ZenonT(40), <3>1, <3>2 DEF Kept
  <2>5. Cardinality(Written) \in Nat /\ IsFiniteSet(Written)
    BY ZenonT(40), <1>3, WrittenFinite
  <2>6. Written' = Written \cup {<<t, b>>}
    BY <1>3, <2>3 DEF Written
  <2>7. \/ lh' = lh /\ Cardinality(Written') = Cardinality(Written)
        \/ Cardinality(Written') = Cardinality(Written) + 1
    <3>1. CASE b \in wrote[t]
      <4>1. <<t, b>> \in Written
        BY <1>3, <3>1 DEF Written
      <4>2. b \in Range(lh)
        BY ZenonT(40), <3>1 DEF Reserved, Kept
      <4>3. Written' = Written
        BY ZenonT(40), <2>6, <4>1
      <4> QED BY ZenonT(40), <2>2, <4>2, <4>3
    <3>2. CASE b \notin wrote[t]
      <4>1. <<t, b>> \notin Written
        BY <3>2 DEF Written
      <4> QED BY ZenonT(40), <2>5, <2>6, <4>1, FS_AddElement
    <3> QED BY ZenonT(40), <3>1, <3>2
  <2>8. ReservationsFit'
    <3>1. PICK x : x = outstanding * MAXOPBLOCKS
      OBVIOUS
    <3>2. x \in Nat /\ LOGSIZE \in Nat
      BY <1>3, <3>1, LogAssumption
    <3>3. Len(lh) + x - Cardinality(Written) <= LOGSIZE
      BY ZenonT(40), <1>1, <3>1, FitsCounted DEF Reserved
    <3>4. Len(lh') + x - Cardinality(Written') <= LOGSIZE
      BY <2>2, <2>5, <2>7, <3>2, <3>3
    <3> QED BY ZenonT(40), <1>1, <3>1, <3>4, FitsCountedNext
  <2> QED BY ZenonT(40), <2>4, <2>8 DEF Reserved
<1> QED BY ZenonT(40), <1>4, <1>5

(* An operation that ends gives its room back, whatever it has written. *)
LEMMA EndReserved ==
  ASSUME IInv, IInv', Reserved, NEW t \in Threads, end_op(t)
  PROVE  Reserved'
<1>1. /\ TypeOK /\ Counted /\ Counted' /\ pc[t] = "op"
      /\ outstanding' = outstanding - 1 /\ lh' = lh
      /\ wrote' = [wrote EXCEPT ![t] = {}]
  BY ZenonT(40) DEF IInv, end_op
<1>2. /\ wrote \in [Threads -> SUBSET Blocks] /\ pc \in [Threads -> Pcs]
      /\ outstanding \in Nat
  BY ZenonT(40), <1>1 DEF TypeOK, Reserved, Kept
<1>3. /\ wrote'[t] = {}
      /\ \A u \in Threads : u # t => wrote'[u] = wrote[u]
  BY ZenonT(40), <1>1, <1>2
<1>4. \A u \in Threads : u # t /\ pc'[u] \notin Active => pc[u] \notin Active
  <2>1. CASE outstanding' = 0
    <3>1. \E l : pc' = [pc EXCEPT ![t] = l]
      BY ZenonT(40), <2>1 DEF end_op, Goto
    <3> QED BY ZenonT(40), <1>2, <3>1
  <2>2. CASE outstanding' # 0
    <3>1. pc' = [u \in Threads |-> IF u = t THEN "user" ELSE
                   IF pc[u] = "asleep" THEN "begin_op" ELSE pc[u]]
      BY ZenonT(40), <2>2 DEF end_op, WakeupGoto
    <3>2. "asleep" \notin Active
      BY ZenonT(40) DEF Active
    <3> QED BY ZenonT(40), <3>1, <3>2
  <2> QED BY ZenonT(40), <2>1, <2>2
<1>5. Kept'
  <2>1. wrote' \in [Threads -> SUBSET Blocks]
    BY ZenonT(40), <1>1, <1>2
  <2>2. Cardinality({}) = 0 /\ 0 <= OpBlocks
    BY FS_EmptySet, LogAssumption
  <2>3. ASSUME NEW u \in Threads
        PROVE  /\ wrote'[u] \subseteq Range(lh')
               /\ pc'[u] \notin Active => wrote'[u] = {}
               /\ Cardinality(wrote'[u]) <= OpBlocks
    <3>1. CASE u = t
      BY ZenonT(40), <1>3, <2>2, <3>1
    <3>2. CASE u # t
      BY ZenonT(40), <1>1, <1>3, <1>4, <3>2 DEF Reserved, Kept
    <3> QED BY ZenonT(40), <3>1, <3>2
  <2> QED BY ZenonT(40), <2>1, <2>3 DEF Kept
<1>6. Cardinality(Written) = Cardinality(Written') + Cardinality(wrote[t])
  <2> DEFINE Mine == {t} \X wrote[t]
  <2>1. /\ IsFiniteSet(Written) /\ IsFiniteSet(wrote[t]) /\ IsFiniteSet({t})
        /\ Cardinality({t}) = 1 /\ Cardinality(wrote[t]) \in Nat
        /\ Cardinality(Written) \in Nat
    BY ZenonT(40), <1>2, WrittenFinite, FS_Singleton
  <2>2. Cardinality(Mine) = Cardinality(wrote[t])
    <3>1. Cardinality(Mine) = 1 * Cardinality(wrote[t])
      BY ZenonT(40), <2>1, FS_Product
    <3> QED BY <2>1, <3>1
  <2>3. Written' = Written \ Mine
    BY <1>2, <1>3 DEF Written
  <2>4. Written \cap Mine = Mine
    BY <1>2 DEF Written
  <2> HIDE DEF Mine
  <2>5. Cardinality(Written') = Cardinality(Written) - Cardinality(Mine)
    <3>1. Cardinality(Written \ Mine)
            = Cardinality(Written) - Cardinality(Written \cap Mine)
      BY <2>1, FS_Difference, ZenonT(40)
    <3> QED BY <2>3, <2>4, <3>1
  <2> QED BY <2>1, <2>2, <2>5
<1>7. ReservationsFit'
  <2>1. /\ Cardinality(Written') \in Nat /\ Cardinality(wrote[t]) \in Nat
        /\ Cardinality(wrote[t]) <= OpBlocks
    <3>1. wrote' \in [Threads -> SUBSET Blocks] /\ Cardinality(wrote[t]) <= OpBlocks
      BY ZenonT(40), <1>5 DEF Kept, Reserved
    <3>2. IsFiniteSet(Written')
      <4>1. Written' \subseteq Written
        BY <1>2, <1>3 DEF Written
      <4> QED BY ZenonT(40), <1>2, <4>1, WrittenFinite, FS_Subset
    <3> QED BY ZenonT(40), <1>2, <3>1, <3>2, WrittenFinite, FS_CardinalityType
  <2>2. /\ Cardinality(wrote[t]) <= MAXOPBLOCKS /\ MAXOPBLOCKS \in Nat
        /\ LOGSIZE \in Nat
    BY <2>1, LogAssumption
  <2>3. outstanding # 0 /\ Len(lh) \in Nat
    <3>1. pc[t] \in Active
      BY ZenonT(40), <1>1 DEF Active
    <3> QED BY ZenonT(40), <1>1, <3>1, NoneActive, Entries DEF ZeroMeansNone
  <2>4. Len(lh) + outstanding * MAXOPBLOCKS
          - (Cardinality(Written') + Cardinality(wrote[t])) <= LOGSIZE
    BY ZenonT(40), <1>1, <1>6, FitsCounted DEF Reserved
  <2>5. Len(lh) + (outstanding - 1) * MAXOPBLOCKS - Cardinality(Written') <= LOGSIZE
    BY ZenonT(40), <1>2, <2>1, <2>2, <2>3, <2>4, RoomArithmetic
  <2> QED BY ZenonT(40), <1>1, <2>5, FitsCountedNext
<1> QED BY ZenonT(40), <1>5, <1>7 DEF Reserved

(* Every step keeps the reservations. *)
LEMMA NextReserved ==
  IInv /\ IInv' /\ Reserved /\ [Next]_vars => Reserved'
<1> SUFFICES ASSUME IInv, IInv', Reserved, [Next]_vars PROVE Reserved'
  OBVIOUS
<1>1. ASSUME NEW t \in Threads, begin_op(t) \/ end_op(t) PROVE Reserved'
  BY ZenonT(40), <1>1, BeginReserved, EndReserved
<1>2. ASSUME NEW t \in Threads, CommitStep(t) PROVE Reserved'
  <2>1. pc[t] \in Committing /\ UNCHANGED <<outstanding, wrote>>
    BY ZenonT(40), <1>2 DEF CommitStep, write_log, write_head, install_trans, clear_head,
       Committed, Committing, logVars
  <2> QED BY ZenonT(40), <2>1, AloneReserved
<1>3. ASSUME NEW t \in Threads, Recover(t) PROVE Reserved'
  <2>1. pc[t] \in Recovering /\ UNCHANGED <<outstanding, wrote>>
    BY ZenonT(40), <1>3 DEF Recover, read_head, reinstall, reclear, Recovering, logVars
  <2> QED BY ZenonT(40), <2>1, AloneReserved
<1>4. ASSUME NEW t \in Threads,
             \/ ReadOther(t) \/ Brelse(t) \/ \E b \in Blocks : Bread(t, b)
      PROVE  Reserved'
  <2>1. pc[t] \in {"user", "op", "user_buf", "op_buf"} /\ UNCHANGED <<lh, outstanding, wrote>>
    BY ZenonT(40), <1>4 DEF ReadOther, Brelse, Bread, logVars
  <2>2. PICK l : /\ pc' = [pc EXCEPT ![t] = l]
                 /\ l \in Active <=> pc[t] \in Active
    <3>1. CASE ReadOther(t) \/ \E b \in Blocks : Bread(t, b)
      <4>1. /\ pc' = [pc EXCEPT ![t] = IF pc[t] = "op" THEN "op_buf" ELSE "user_buf"]
            /\ pc[t] \in {"user", "op"}
        BY ZenonT(40), <3>1 DEF ReadOther, Bread, Goto
      <4>2. (IF pc[t] = "op" THEN "op_buf" ELSE "user_buf") \in Active
              <=> pc[t] \in Active
        BY ZenonT(40), <4>1 DEF Active
      <4> QED BY ZenonT(40), <4>1, <4>2
    <3>2. CASE Brelse(t)
      <4>1. /\ pc' = [pc EXCEPT ![t] = IF pc[t] = "op_buf" THEN "op" ELSE "user"]
            /\ pc[t] \in {"user_buf", "op_buf"}
        BY ZenonT(40), <3>2 DEF Brelse, Goto
      <4>2. (IF pc[t] = "op_buf" THEN "op" ELSE "user") \in Active
              <=> pc[t] \in Active
        BY ZenonT(40), <4>1 DEF Active
      <4> QED BY ZenonT(40), <4>1, <4>2
    <3> QED BY ZenonT(40), <1>4, <3>1, <3>2
  <2>3. \A u \in Threads : pc'[u] \in Active <=> pc[u] \in Active
    BY ZenonT(40), <2>2 DEF IInv, TypeOK
  <2> QED BY ZenonT(40), <2>1, <2>3, SameReserved
<1>5. ASSUME NEW t \in Threads, NoBuffers(t) PROVE Reserved'
  BY ZenonT(40), <1>5, SameReserved DEF NoBuffers, logVars, threadVars
<1>6. ASSUME NEW t \in Threads, NEW d \in Data, log_write(t, d) PROVE Reserved'
  BY ZenonT(40), <1>6, WriteReserved
<1>7. CASE Crash
  BY ZenonT(40), <1>7, IdleFitsNext DEF Crash, Idle, Nothing
<1>8. CASE UNCHANGED vars
  BY ZenonT(40), <1>8, SameReserved DEF vars, logVars, threadVars
<1> QED BY ZenonT(40), <1>1, <1>2, <1>3, <1>4, <1>5, <1>6, <1>7, <1>8 DEF Next

(* What begin_op() admits always fits into the log, for any number of      *)
(* operations and any size of the log.                                     *)
THEOREM EveryWriteHasRoom == Spec => []ReservationsFit
<1>1. Init => Reserved
  BY ZenonT(40), InitInv, IdleFits DEF Init, Idle
<1>2. Reserved => ReservationsFit
  BY ZenonT(40) DEF Reserved
<1> QED BY <1>1, <1>2, NextReserved, AlwaysInPhase, PTL DEF Spec

-----------------------------------------------------------------------------
(* The panics of log.c *)

(* A finite set of at most n elements can be numbered from 1 to n. *)
LEMMA Numbered ==
  ASSUME NEW S, IsFiniteSet(S), NEW n \in Nat, Cardinality(S) <= n
  PROVE  \E g \in [S -> 1 .. n] : \A x, y \in S : g[x] = g[y] => x = y
<1>1. Cardinality(S) \in Nat /\ ExistsBijection(1 .. Cardinality(S), S)
  BY ZenonT(40), FS_CardinalityType
<1>2. PICK f \in Bijection(1 .. Cardinality(S), S) : TRUE
  BY ZenonT(40), <1>1 DEF ExistsBijection
<1>3. /\ f \in [1 .. Cardinality(S) -> S]
      /\ \A y \in S : \E i \in 1 .. Cardinality(S) : f[i] = y
  BY ZenonT(40), <1>2 DEF Bijection, Surjection, Injection
<1> DEFINE g == [x \in S |-> CHOOSE i \in 1 .. Cardinality(S) : f[i] = x]
<1>4. \A x \in S : g[x] \in 1 .. Cardinality(S) /\ f[g[x]] = x
  BY ZenonT(40), <1>3
<1>5. \A i \in 1 .. Cardinality(S) : i \in 1 .. n
  BY <1>1
<1>6. g \in [S -> 1 .. n]
  BY ZenonT(40), <1>4, <1>5
<1>7. \A x, y \in S : g[x] = g[y] => x = y
  BY ZenonT(40), <1>4
<1> HIDE DEF g
<1> QED BY ZenonT(40), <1>6, <1>7

(* All operations together have written at most OpBlocks blocks each. *)
LEMMA WrittenBound ==
  ASSUME Kept
  PROVE  Cardinality(Written) <= Cardinality(ActiveThreads) * OpBlocks
<1>1. wrote \in [Threads -> SUBSET Blocks] /\ OpBlocks \in Nat
  BY LogAssumption DEF Kept
<1> DEFINE Num(t) == CHOOSE g \in [wrote[t] -> 1 .. OpBlocks] :
                       \A x, y \in wrote[t] : g[x] = g[y] => x = y
           T == ActiveThreads \X (1 .. OpBlocks)
           f == [w \in Written |-> <<w[1], Num(w[1])[w[2]]>>]
<1>2. ASSUME NEW t \in Threads
      PROVE  /\ Num(t) \in [wrote[t] -> 1 .. OpBlocks]
             /\ \A x, y \in wrote[t] : Num(t)[x] = Num(t)[y] => x = y
  <2>1. IsFiniteSet(wrote[t]) /\ Cardinality(wrote[t]) <= OpBlocks
    BY ZenonT(40), <1>1, WrittenFinite DEF Kept
  <2>2. \E g \in [wrote[t] -> 1 .. OpBlocks] :
          \A x, y \in wrote[t] : g[x] = g[y] => x = y
    BY ZenonT(40), <1>1, <2>1, Numbered
  <2> QED BY ZenonT(40), <2>2
<1> HIDE DEF Num
<1>3. ASSUME NEW w \in Written
      PROVE  /\ w[1] \in ActiveThreads /\ w[1] \in Threads /\ w[2] \in wrote[w[1]]
             /\ w = <<w[1], w[2]>> /\ Num(w[1])[w[2]] \in 1 .. OpBlocks
  <2>1. w \in Threads \X Blocks /\ w[2] \in wrote[w[1]]
    BY ZenonT(40) DEF Written
  <2>2. w[1] \in Threads /\ w = <<w[1], w[2]>>
    BY <2>1
  <2>3. w[1] \in ActiveThreads
    BY ZenonT(40), <2>1, <2>2 DEF Kept, ActiveThreads
  <2> QED BY ZenonT(40), <1>2, <2>1, <2>2, <2>3
<1>4. f \in [Written -> T]
  BY <1>3
<1>5. ASSUME NEW v \in Written, NEW w \in Written, f[v] = f[w] PROVE v = w
  <2>1. v[1] = w[1] /\ Num(v[1])[v[2]] = Num(v[1])[w[2]]
    BY <1>5
  <2>2. v[2] \in wrote[v[1]] /\ w[2] \in wrote[v[1]] /\ v[1] \in Threads
    BY ZenonT(40), <1>3, <2>1
  <2>3. v[2] = w[2]
    BY ZenonT(40), <1>2, <2>1, <2>2
  <2>4. v = <<v[1], v[2]>> /\ w = <<w[1], w[2]>>
    BY ZenonT(40), <1>3
  <2> QED BY ONLY <2>1, <2>3, <2>4
<1>6. f \in Injection(Written, T)
  <2> HIDE DEF f, T
  <2> QED BY ZenonT(40), <1>4, <1>5 DEF Injection, IsInjective
<1>7. /\ IsFiniteSet(T)
      /\ Cardinality(T) = Cardinality(ActiveThreads) * Cardinality(1 .. OpBlocks)
  <2>1. IsFiniteSet(1 .. OpBlocks)
    BY <1>1, FS_Interval
  <2> QED BY ZenonT(40), <2>1, ActiveFinite, FS_Product
<1>8. Cardinality(1 .. OpBlocks) = OpBlocks
  <2>1. Cardinality(1 .. OpBlocks) = IF 1 > OpBlocks THEN 0 ELSE OpBlocks - 1 + 1
    BY <1>1, FS_Interval
  <2> QED BY <1>1, <2>1
<1> HIDE DEF f, T
<1>9. Cardinality(Written) <= Cardinality(T)
  BY ZenonT(40), <1>6, <1>7, FS_Injection
<1> QED BY ZenonT(40), <1>7, <1>8, <1>9

(* The reservations leave a block of the log for every operation that does *)
(* not use up its own, and log_write() wants one more than it needs.       *)
Slack ==
  /\ OpBlocks < MAXOPBLOCKS
  /\ LOGSIZE - MAXOPBLOCKS + OpBlocks < nlog - 1

(* n operations that leave m - o blocks each leave as many as one does. *)
LEMMA SlackArithmetic ==
  \A n, m, o \in Nat : n # 0 /\ o <= m => n * m - n * o >= m - o
<1> SUFFICES ASSUME NEW n \in Nat, NEW m \in Nat, NEW o \in Nat, n # 0, o <= m
             PROVE  n * m - n * o >= m - o
  OBVIOUS
<1>1. PICK k \in Nat : m = o + k
  <2>1. m - o \in Nat /\ m = o + (m - o)
    OBVIOUS
  <2> QED BY <2>1
<1>2. PICK j \in Nat : n = j + 1
  <2>1. n - 1 \in Nat /\ n = (n - 1) + 1
    OBVIOUS
  <2> QED BY <2>1
<1>3. n * m = n * o + n * k /\ n * k = j * k + k /\ j * k \in Nat
  BY <1>1, <1>2
<1>4. n * m \in Nat /\ n * o \in Nat /\ n * k \in Nat
  OBVIOUS
<1> QED BY <1>1, <1>3, <1>4

(* A thread inside an operation passes the checks of log_write(). *)
LEMMA RoomToWrite ==
  ASSUME Slack, IInv, Reserved, NEW t \in Threads, pc[t] \in Active
  PROVE  LogWritePanic = ""
<1>1. TypeOK /\ Counted /\ Kept
  BY ZenonT(40) DEF IInv, Reserved
<1>2. outstanding \in Nat /\ outstanding # 0 /\ Len(lh) \in Nat
  BY ZenonT(40), <1>1, NoneActive, Entries DEF ZeroMeansNone, TypeOK
<1>3. /\ Len(lh) + outstanding * MAXOPBLOCKS - Cardinality(Written) <= LOGSIZE
      /\ Cardinality(Written) <= outstanding * OpBlocks
      /\ Cardinality(Written) \in Nat
  BY ZenonT(40), <1>1, FitsCounted, WrittenBound, WrittenFinite
     DEF Reserved, Counted, Kept
<1>4. /\ MAXOPBLOCKS \in Nat /\ OpBlocks \in Nat /\ LOGSIZE \in Nat /\ nlog \in Nat
      /\ OpBlocks <= MAXOPBLOCKS
  BY LogAssumption
<1>5. outstanding * MAXOPBLOCKS - outstanding * OpBlocks >= MAXOPBLOCKS - OpBlocks
  BY ZenonT(40), <1>2, <1>4, SlackArithmetic
<1>6. PICK x, y \in Nat : /\ x = outstanding * MAXOPBLOCKS
                          /\ y = outstanding * OpBlocks
  <2>1. outstanding * MAXOPBLOCKS \in Nat /\ outstanding * OpBlocks \in Nat
    BY <1>2, <1>4
  <2> QED BY ZenonT(40), <2>1
<1>7. Len(lh) + x - y <= LOGSIZE /\ x - y >= MAXOPBLOCKS - OpBlocks
  BY <1>2, <1>3, <1>4, <1>5, <1>6
<1>8. ~(Len(lh) >= LOGSIZE \/ Len(lh) >= nlog - 1) /\ ~(outstanding < 1)
  BY <1>2, <1>4, <1>7 DEF Slack
<1> QED BY ZenonT(40), <1>8 DEF LogWritePanic

(* The kernel has not stopped in log.c. *)
LogPanicFree == panic \in {"", "bget: no buffers"}

(* No step stops it there. *)
LEMMA NextPanicFree ==
  Slack /\ IInv /\ Reserved /\ LogPanicFree /\ [Next]_vars => LogPanicFree'
<1> SUFFICES ASSUME Slack, IInv, Reserved, LogPanicFree, [Next]_vars
             PROVE  LogPanicFree'
  OBVIOUS
<1>1. ASSUME NEW t \in Threads, end_op(t) PROVE LogPanicFree'
  <2>1. pc[t] = "op" /\ pc[t] \in Active
    BY ZenonT(40), <1>1 DEF end_op, Active
  <2>2. ~committing
    BY ZenonT(40), <2>1, PhaseOf DEF Open
  <2> QED BY ZenonT(40), <1>1, <2>2 DEF end_op, LogPanicFree
<1>2. ASSUME NEW t \in Threads, NEW d \in Data, log_write(t, d) PROVE LogPanicFree'
  <2>1. pc[t] = "op_buf" /\ pc[t] \in Active /\ panic' = LogWritePanic
    BY ZenonT(40), <1>2 DEF log_write, Active
  <2> QED BY ZenonT(40), <2>1, RoomToWrite DEF LogPanicFree
<1>3. ASSUME NEW t \in Threads,
             \/ begin_op(t) \/ CommitStep(t) \/ ReadOther(t) \/ Brelse(t)
             \/ NoBuffers(t) \/ Recover(t) \/ \E b \in Blocks : Bread(t, b)
      PROVE  LogPanicFree'
  BY ZenonT(40), <1>3 DEF begin_op, CommitStep, write_log, write_head, install_trans,
     clear_head, Committed, ReadOther, Brelse, NoBuffers, Recover, read_head,
     reinstall, reclear, Bread, LogPanicFree
<1>4. CASE Crash \/ UNCHANGED vars
  BY ZenonT(40), <1>4 DEF Crash, vars, LogPanicFree
<1> QED BY ZenonT(40), <1>1, <1>2, <1>3, <1>4 DEF Next

(* When every operation leaves at least one of its MAXOPBLOCKS blocks      *)
(* unused, and as many more as the log is short of LOGSIZE entries, then   *)
(* neither log_write() nor end_op() ever panics.                           *)
THEOREM LogNeverPanics == Slack => (Spec => []LogPanicFree)
<1> SUFFICES ASSUME Slack PROVE Spec => []LogPanicFree
  OBVIOUS
<1>1. Init => Reserved
  BY ZenonT(40), InitInv, IdleFits DEF Init, Idle
<1>2. Init => LogPanicFree
  BY ZenonT(40) DEF Init, LogPanicFree
<1>3. IInv /\ Reserved /\ LogPanicFree /\ [Next]_vars => LogPanicFree'
  BY ZenonT(40), NextPanicFree
<1> QED BY <1>1, <1>2, <1>3, NextReserved, AlwaysInPhase, PTL DEF Spec
=============================================================================
