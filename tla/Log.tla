-------------------------------- MODULE Log ---------------------------------
(* The log of kernel/log.c over the buffer cache of kernel/bio.c and a     *)
(* disk that may stop between, or in the middle of, any two block writes.  *)
EXTENDS Integers, FiniteSets, Sequences, Functions

CONSTANTS Threads,     \* kernel threads that use the file system
          Blocks,      \* the home blocks they write
          Data,        \* contents of a block
          Torn,        \* contents of a block whose write a crash cut short
          NotCached,   \* no buffer holds the block
          LOGSIZE,     \* entries of struct logheader
          nlog,        \* sb->nlog, header block included
          MAXOPBLOCKS, \* blocks begin_op() reserves for an operation
          OpBlocks,    \* blocks an operation of the file system really writes
          NBUF         \* buffers of the cache

ASSUME LogAssumption ==
  /\ LOGSIZE \in Nat /\ nlog \in Nat /\ NBUF \in Nat \ {0, 1}
  /\ MAXOPBLOCKS \in 1 .. LOGSIZE /\ OpBlocks \in 0 .. MAXOPBLOCKS
  /\ IsFiniteSet(Threads) /\ IsFiniteSet(Blocks)
  /\ Data # {} /\ Torn \notin Data /\ NotCached \notin Data \cup {Torn}

VARIABLES
  (* the disk *)
  home,        \* the blocks at their home locations
  hdr,         \* the header block: the entries in use
  logblk,      \* the blocks of the log
  (* struct log *)
  lh, outstanding, committing,
  (* struct bcache: contents, and references taken by bpin() *)
  cache, pins,
  (* the threads *)
  pc,          \* where a thread is
  buf,         \* the block of Blocks whose buffer it has locked, if any
  wrote,       \* the blocks its operation has written
  tail,        \* the loop variable of write_log() and install_trans()
  panic        \* the message the kernel has stopped with, or ""

diskVars == <<home, hdr, logblk>>
logVars == <<lh, outstanding, committing>>
bufVars == <<cache, pins>>
threadVars == <<pc, buf, wrote, tail>>
vars == <<diskVars, logVars, bufVars, threadVars, panic>>

OnDisk == Data \cup {Torn}
Active == {"op", "op_buf"}                  \* between begin_op() and end_op()
Committing == {"write_log", "write_head", "install_trans", "clear_head", "end_op"}
Recovering == {"read_head", "reinstall", "reclear"}
Pcs == Active \cup Committing \cup Recovering
         \cup {"user", "user_buf", "begin_op", "asleep"}
Panics == {"", "too big a transaction", "log_write outside of trans",
           "log.committing", "bget: no buffers"}

ActiveThreads == {t \in Threads : pc[t] \in Active}

(* The kernel has not stopped, and the file system has been initialised. *)
Up == panic = "" /\ \A t \in Threads : pc[t] \notin Recovering

Goto(t, l) == pc' = [pc EXCEPT ![t] = l]

(* In a kernel that has just started the first process runs the recovery. *)
Started(t) == [u \in Threads |-> IF u = t THEN "read_head" ELSE "user"]
Unpinned == [b \in Blocks |-> 0]
EmptyCache == [b \in Blocks |-> NotCached]
Nothing == [t \in Threads |-> {}]

(* The blocks of a log that was never used all hold the same zeroes. *)
Init ==
  /\ home \in [Blocks -> Data] /\ hdr = << >>
  /\ logblk = [i \in 1 .. LOGSIZE |-> CHOOSE d \in Data : TRUE]
  /\ lh = << >> /\ outstanding = 0 /\ committing = FALSE
  /\ cache = EmptyCache /\ pins = Unpinned
  /\ \E t \in Threads : pc = Started(t)
  /\ buf = Nothing /\ wrote = Nothing /\ tail = [t \in Threads |-> 0]
  /\ panic = ""

-----------------------------------------------------------------------------
(* The buffer cache *)

Cached == {b \in Blocks : cache[b] # NotCached}
Locked(b) == \E t \in Threads : b \in buf[t]
Unused == {b \in Cached : pins[b] = 0 /\ ~Locked(b)}

(* The contents a locked buffer of block b has after bread(). *)
bread(b) == IF b \in Cached THEN cache[b] ELSE home[b]

(* The threads that have locked the buffer of a block outside Blocks. *)
Others == {t \in Threads : pc[t] \in {"user_buf", "op_buf"} /\ buf[t] = {}}

(* The caches bget() may leave behind when it needs a buffer for a block   *)
(* that has none: a buffer outside Blocks is recycled, or the buffer of an *)
(* unreferenced block of Blocks.                                           *)
Recycle == {c \in {cache} : Cardinality(Cached) + Cardinality(Others) < NBUF}
             \cup {[cache EXCEPT ![x] = NotCached] : x \in Unused}

(* The caches after bget(b) and the read that follows it. *)
bget(b) == IF b \in Cached THEN {cache} ELSE {[c EXCEPT ![b] = home[b]] : c \in Recycle}

(* bget() finds neither the block nor a buffer that it may recycle. *)
NoBuffers(t) ==
  /\ Up /\ Recycle = {}
  /\ pc[t] \in {"user", "op", "write_log", "write_head", "install_trans", "clear_head"}
  /\ panic' = "bget: no buffers"
  /\ UNCHANGED <<diskVars, logVars, bufVars, threadVars>>

(* A thread locks the buffer of b, inside or outside an operation. *)
Bread(t, b) ==
  /\ Up /\ pc[t] \in {"user", "op"} /\ ~Locked(b)
  /\ cache' \in bget(b)
  /\ buf' = [buf EXCEPT ![t] = {b}]
  /\ Goto(t, IF pc[t] = "op" THEN "op_buf" ELSE "user_buf")
  /\ UNCHANGED <<diskVars, logVars, pins, wrote, tail, panic>>

(* brelse() *)
Brelse(t) ==
  /\ Up /\ pc[t] \in {"user_buf", "op_buf"}
  /\ buf' = [buf EXCEPT ![t] = {}]
  /\ Goto(t, IF pc[t] = "op_buf" THEN "op" ELSE "user")
  /\ UNCHANGED <<diskVars, logVars, bufVars, wrote, tail, panic>>

(* A thread locks the buffer of a block outside Blocks. *)
ReadOther(t) ==
  /\ Up /\ pc[t] \in {"user", "op"}
  /\ cache' \in Recycle
  /\ Goto(t, IF pc[t] = "op" THEN "op_buf" ELSE "user_buf")
  /\ UNCHANGED <<diskVars, logVars, pins, buf, wrote, tail, panic>>

-----------------------------------------------------------------------------
(* begin_op(), log_write(), end_op() *)

(* The operation may need more space than the log has left; the mutant      *)
(* counts only the others.                                                  *)
NoSpace_NotThisOp == Len(lh) + outstanding * MAXOPBLOCKS > LOGSIZE
NoSpace == Len(lh) + (outstanding + 1) * MAXOPBLOCKS > LOGSIZE

(* Mutant: an operation may begin during a commit. *)
begin_op_WhileCommitting(t) ==
  /\ Up /\ pc[t] \in {"user", "begin_op"}
  /\ IF NoSpace
     THEN Goto(t, "asleep") /\ UNCHANGED outstanding
     ELSE Goto(t, "op") /\ outstanding' = outstanding + 1
  /\ UNCHANGED <<diskVars, lh, committing, bufVars, buf, wrote, tail, panic>>

begin_op(t) ==
  /\ Up /\ pc[t] \in {"user", "begin_op"}
  /\ IF committing \/ NoSpace
     THEN Goto(t, "asleep") /\ UNCHANGED outstanding
     ELSE Goto(t, "op") /\ outstanding' = outstanding + 1
  /\ UNCHANGED <<diskVars, lh, committing, bufVars, buf, wrote, tail, panic>>

(* The checks at the top of log_write(). *)
LogWritePanic ==
  IF Len(lh) >= LOGSIZE \/ Len(lh) >= nlog - 1 THEN "too big a transaction"
  ELSE IF outstanding < 1 THEN "log_write outside of trans" ELSE ""

(* bpin(), when the block is new in the log. *)
bpin(b) == [pins EXCEPT ![b] = IF b \in Range(lh) THEN @ ELSE @ + 1]

(* Log absorption: a block that is in the log already stays where it is. *)
Absorb(b) == IF b \in Range(lh) THEN lh ELSE Append(lh, b)

(* A thread changes the buffer it has locked, passes it to log_write() and *)
(* releases it.                                                            *)
log_write(t, d) ==
  /\ Up /\ pc[t] = "op_buf"
  /\ \E b \in buf[t] :
       /\ Cardinality(wrote[t] \cup {b}) <= OpBlocks
       /\ cache' = [cache EXCEPT ![b] = d]
       /\ panic' = LogWritePanic
       /\ IF LogWritePanic = ""
          THEN /\ lh' = Absorb(b)
               /\ pins' = bpin(b)
               /\ wrote' = [wrote EXCEPT ![t] = @ \cup {b}]
               /\ buf' = [buf EXCEPT ![t] = {}]
               /\ Goto(t, "op")
          ELSE UNCHANGED <<lh, pins, wrote, buf, pc>>
  /\ UNCHANGED <<diskVars, outstanding, committing, tail>>

(* Mutant: nobody is woken up. *)
WakeupGoto_None(t, l) == Goto(t, l)

(* wakeup(&log) by thread t, which goes on to l. *)
WakeupGoto(t, l) ==
  pc' = [u \in Threads |-> IF u = t THEN l
                           ELSE IF pc[u] = "asleep" THEN "begin_op" ELSE pc[u]]

(* Mutant: a log of one block is not committed. *)
CommitNeeded_Two == Len(lh) > 1

(* The test in commit(). *)
CommitNeeded == Len(lh) > 0

end_op(t) ==
  /\ Up /\ pc[t] = "op"
  /\ outstanding' = outstanding - 1
  /\ panic' = IF committing THEN "log.committing" ELSE ""
  /\ IF outstanding' = 0
     THEN /\ committing' = TRUE
          /\ Goto(t, IF CommitNeeded THEN "write_log" ELSE "end_op")
     ELSE /\ WakeupGoto(t, "user")
          /\ UNCHANGED committing
  /\ wrote' = [wrote EXCEPT ![t] = {}]
  /\ UNCHANGED <<diskVars, lh, bufVars, buf, tail>>

-----------------------------------------------------------------------------
(* commit() *)

(* The last turn of a loop over the entries of lh goes on to l. *)
Loop(t, l) ==
  IF tail[t] + 1 = Len(lh)
  THEN Goto(t, l) /\ tail' = [tail EXCEPT ![t] = 0]
  ELSE tail' = [tail EXCEPT ![t] = @ + 1] /\ UNCHANGED pc

(* Mutant: the first write_head() is missing. *)
write_log_NoHead(t) ==
  /\ Up /\ pc[t] = "write_log"
  /\ LET b == lh[tail[t] + 1] IN
       /\ ~Locked(b)
       /\ \E c \in Recycle : cache' = [c EXCEPT ![b] = bread(b)]
       /\ logblk' = [logblk EXCEPT ![tail[t] + 1] = bread(b)]
  /\ Loop(t, "install_trans")
  /\ UNCHANGED <<home, hdr, logVars, pins, buf, wrote, panic>>

(* A turn of the loop in write_log(). *)
write_log(t) ==
  /\ Up /\ pc[t] = "write_log"
  /\ LET b == lh[tail[t] + 1] IN
       /\ ~Locked(b)
       /\ \E c \in Recycle : cache' = [c EXCEPT ![b] = bread(b)]
       /\ logblk' = [logblk EXCEPT ![tail[t] + 1] = bread(b)]
  /\ Loop(t, "write_head")
  /\ UNCHANGED <<home, hdr, logVars, pins, buf, wrote, panic>>

(* The first write_head() of commit(): the header names the blocks of lh. *)
write_head(t) ==
  /\ Up /\ pc[t] = "write_head"
  /\ hdr' = lh
  /\ cache' \in Recycle
  /\ Goto(t, "install_trans")
  /\ UNCHANGED <<home, logblk, logVars, pins, buf, wrote, tail, panic>>

(* The copy in a turn of the loop in install_trans(). *)
Install(t, b) ==
  /\ home' = [home EXCEPT ![b] = logblk[tail[t] + 1]]
  /\ \E c \in Recycle : cache' = [c EXCEPT ![b] = logblk[tail[t] + 1]]

(* A turn of the loop in install_trans(0), and log.lh.n = 0 after the last. *)
install_trans(t) ==
  /\ Up /\ pc[t] = "install_trans"
  /\ LET b == lh[tail[t] + 1] IN
       /\ ~Locked(b)
       /\ Install(t, b)
       /\ pins' = [pins EXCEPT ![b] = @ - 1]
  /\ Loop(t, "clear_head")
  /\ lh' = IF tail[t] + 1 = Len(lh) THEN << >> ELSE lh
  /\ UNCHANGED <<hdr, logblk, outstanding, committing, buf, wrote, panic>>

(* The second write_head() of commit(). *)
clear_head(t) ==
  /\ Up /\ pc[t] = "clear_head"
  /\ hdr' = lh
  /\ cache' \in Recycle
  /\ Goto(t, "end_op")
  /\ UNCHANGED <<home, logblk, logVars, pins, buf, wrote, tail, panic>>

(* The end of end_op() after commit(). *)
Committed(t) ==
  /\ Up /\ pc[t] = "end_op"
  /\ committing' = FALSE
  /\ WakeupGoto(t, "user")
  /\ UNCHANGED <<diskVars, lh, outstanding, bufVars, buf, wrote, tail, panic>>

-----------------------------------------------------------------------------
(* Crashes, and recover_from_log() *)

(* The kernel stops and starts again.  The block that is being written may *)
(* be left torn; a header fits into one sector and is written or not.      *)
Crash ==
  /\ \/ UNCHANGED <<home, logblk>>
     \/ \E t \in Threads :
          /\ pc[t] = "write_log"
          /\ logblk' = [logblk EXCEPT ![tail[t] + 1] = Torn]
          /\ UNCHANGED home
     \/ \E t \in Threads :
          /\ pc[t] \in {"install_trans", "reinstall"}
          /\ home' = [home EXCEPT ![lh[tail[t] + 1]] = Torn]
          /\ UNCHANGED logblk
  /\ hdr' = hdr
  /\ lh' = << >> /\ outstanding' = 0 /\ committing' = FALSE
  /\ cache' = EmptyCache /\ pins' = Unpinned
  /\ \E t \in Threads : pc' = Started(t)
  /\ buf' = Nothing /\ wrote' = Nothing /\ tail' = [t \in Threads |-> 0]
  /\ panic' = ""

read_head(t) ==
  /\ panic = "" /\ pc[t] = "read_head"
  /\ lh' = hdr
  /\ Goto(t, IF hdr # << >> THEN "reinstall" ELSE "reclear")
  /\ UNCHANGED <<diskVars, outstanding, committing, bufVars, buf, wrote, tail, panic>>

(* A turn of the loop in install_trans(1), and log.lh.n = 0 after the last. *)
reinstall(t) ==
  /\ panic = "" /\ pc[t] = "reinstall"
  /\ Install(t, lh[tail[t] + 1])
  /\ Loop(t, "reclear")
  /\ lh' = IF tail[t] + 1 = Len(lh) THEN << >> ELSE lh
  /\ UNCHANGED <<hdr, logblk, outstanding, committing, pins, buf, wrote, panic>>

(* The write_head() of recover_from_log(). *)
reclear(t) ==
  /\ panic = "" /\ pc[t] = "reclear"
  /\ hdr' = lh
  /\ cache' \in Recycle
  /\ Goto(t, "user")
  /\ UNCHANGED <<home, logblk, logVars, pins, buf, wrote, tail, panic>>

-----------------------------------------------------------------------------
CommitStep(t) == write_log(t) \/ write_head(t) \/ install_trans(t)
                   \/ clear_head(t) \/ Committed(t)

Recover(t) == read_head(t) \/ reinstall(t) \/ reclear(t)

Next ==
  \/ \E t \in Threads : \/ begin_op(t) \/ end_op(t) \/ CommitStep(t)
                        \/ ReadOther(t) \/ Brelse(t) \/ NoBuffers(t) \/ Recover(t)
  \/ \E t \in Threads, b \in Blocks : Bread(t, b)
  \/ \E t \in Threads, d \in Data : log_write(t, d)
  \/ Crash

Spec == Init /\ [][Next]_vars

-----------------------------------------------------------------------------
(* What recover_from_log() makes of the disk. *)
Recovered ==
  [b \in Blocks |-> IF b \in Range(hdr)
                    THEN logblk[CHOOSE i \in 1 .. Len(hdr) : hdr[i] = b]
                    ELSE home[b]]

(* What readers see: the cache over the disk once the recovery is over. *)
View == IF \A t \in Threads : pc[t] \notin Recovering
        THEN [b \in Blocks |-> bread(b)] ELSE Recovered

(* The disk of AtomicDisk: the log makes the writes of all operations that  *)
(* overlap durable as a whole, at the first write_head() of commit().       *)
AD == INSTANCE AtomicDisk
        WITH durable <- Recovered, view <- View, active <- ActiveThreads
AtomicCommits == AD!Spec

(* Write-ahead: a home block changes only while a header that names it, and *)
(* so the copy in the log, is on the disk.                                  *)
WriteAhead == [][\A b \in Blocks : home'[b] # home[b] => b \in Range(hdr)]_vars

(* When the last operation has returned from end_op(), everything that was  *)
(* written is durable.                                                      *)
Quiescent ==
  ~committing /\ outstanding = 0 => View = Recovered

(* What the operations in progress have written so far. *)
Written == {w \in Threads \X Blocks : w[2] \in wrote[w[1]]}

(* begin_op() admits an operation only if the log has room for all that the *)
(* operations in progress may still write, MAXOPBLOCKS blocks each less     *)
(* what it has written: as long as each keeps to them, log_write() finds    *)
(* room for every new block.                                                *)
ReservationsFit ==
  Len(lh) + Cardinality(ActiveThreads) * MAXOPBLOCKS - Cardinality(Written)
    <= LOGSIZE

(* Operations come to an end, threads that hold a buffer release it, and a  *)
(* thread inside commit() or the recovery goes on.                          *)
Fairness ==
  \A t \in Threads :
    /\ SF_vars(end_op(t))
    /\ WF_vars(Brelse(t))
    /\ WF_vars(pc[t] = "begin_op" /\ begin_op(t))
    /\ WF_vars(CommitStep(t))
    /\ WF_vars(Recover(t))

FairSpec == Spec /\ Fairness

(* A thread that sleeps in begin_op() wakes up, unless readers outside any  *)
(* operation keep taking the buffers the commit needs.                      *)
SleepersWake ==
  <>[](\A t \in Threads : pc[t] # "user_buf")
    => \A t \in Threads : pc[t] = "asleep" ~> pc[t] # "asleep"
=============================================================================
