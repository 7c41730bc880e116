-------------------------------- MODULE Disk --------------------------------
(***************************************************************************)
(* The disk driver of kernel/virtio_disk.c under the buffer cache of       *)
(* kernel/bio.c and the sleep-locks of kernel/sleeplock.c: threads that    *)
(* bread(), bwrite() and brelse() blocks, the interrupt handler, and the   *)
(* device.  The device (external to the kernel) fetches requests from the  *)
(* avail ring, completes them in any order, and raises its interrupt       *)
(* after it has written the used ring.                                     *)
(*                                                                         *)
(* A section under bcache.lock, lk->lk or vdisk_lock is one step; only the *)
(* interrupt handler, which the device overtakes, takes several.  The      *)
(* rings are queues: never more than NUM / 3 of their NUM entries are in   *)
(* use.  The header of a request (disk.ops) is kept with its descriptor.   *)
(* bget() may recycle any unreferenced buffer, the least recently used one *)
(* included.                                                               *)
(***************************************************************************)
EXTENDS Integers, FiniteSets, FiniteSetsExt, Sequences

CONSTANTS Threads,   \* kernel threads
          Buffers,   \* the NBUF buffers
          Blocks,    \* blocks of the disk
          Data,      \* contents of a block
          NoBlock,   \* block number of a buffer that was never used
          NoThread,  \* owner of a lock that is free
          NoBuf,     \* null pointer to a buffer
          Sizes      \* numbers of descriptors to consider

ASSUME DiskAssumption ==
  /\ Sizes \subseteq Nat /\ \A n \in Sizes : n >= 3
  /\ IsFiniteSet(Threads) /\ IsFiniteSet(Buffers)
  /\ Cardinality(Threads) <= Cardinality(Buffers)
  /\ NoBlock \notin Blocks /\ NoThread \notin Threads /\ NoBuf \notin Buffers

VARIABLES
  blockno, valid, refcnt, owner, data, ondisk, \* the buffers of struct bcache
  free, desc, info, avail, used, vdisk_lock,   \* struct disk
  platter, working, raising, interrupt,        \* the device
  pc, buf, op, idx0, \* a thread: place, buffer, request, first descriptor
  NUM,      \* the number of descriptors, which never changes
  latest,   \* history: what was last written to a block
  panic

bcacheVars == <<blockno, valid, refcnt>>
bufVars == <<owner, data, ondisk>>
ringVars == <<free, desc, info, avail, used>>
deviceVars == <<platter, working, raising, interrupt>>
vars == <<bcacheVars, bufVars, ringVars, vdisk_lock, deviceVars,
          pc, buf, op, idx0, NUM, latest, panic>>

Descs == 0 .. NUM - 1
Asleep == {"asleep_lock", "asleep_desc", "asleep_disk"}
NoDesc == [next |-> 0, more |-> FALSE, op |-> "none", sector |-> NoBlock,
           buf |-> NoBuf, status |-> 0]
NoInfo == [b |-> NoBuf, status |-> "none"]

binit ==
  /\ blockno = [b \in Buffers |-> NoBlock]
  /\ valid = [b \in Buffers |-> FALSE]
  /\ refcnt = [b \in Buffers |-> 0]
  /\ owner = [b \in Buffers |-> NoThread]
  /\ ondisk = [b \in Buffers |-> FALSE]

virtio_disk_init ==
  /\ free = Descs
  /\ desc = [i \in Descs |-> NoDesc]
  /\ info = [i \in Descs |-> NoInfo]
  /\ avail = <<>> /\ used = <<>>
  /\ vdisk_lock = "free"

Init ==
  /\ NUM \in Sizes
  /\ binit /\ virtio_disk_init
  /\ \E d \in Data : /\ data = [b \in Buffers |-> d]
                     /\ platter = [k \in Blocks |-> d]
  /\ working = {} /\ raising = FALSE /\ interrupt = FALSE
  /\ pc = [t \in Threads |-> "user"]
  /\ buf = [t \in Threads |-> NoBuf]
  /\ op = [t \in Threads |-> "read"]
  /\ idx0 = [t \in Threads |-> 0]
  /\ latest = platter
  /\ panic = "no"

Goto(t, label) == pc' = [pc EXCEPT ![t] = label]

-----------------------------------------------------------------------------
(* bio.c and sleeplock.c *)

(* The buffer of a block. *)
Cached(k) == {b \in Buffers : blockno[b] = k}

(* The buffers that may be recycled. *)
Recyclable == {b \in Buffers : refcnt[b] = 0}

(* The new buffer holds nothing yet; the variant keeps the valid flag. *)
Invalid_Kept(b) == valid
Invalid(b) == [valid EXCEPT ![b] = FALSE]

(* bget() up to acquiresleep() *)
Bget(t, k) ==
  /\ pc[t] = "user"
  /\ \E b \in IF Cached(k) # {} THEN Cached(k)
              ELSE IF Recyclable # {} THEN Recyclable ELSE Buffers :
       /\ buf' = [buf EXCEPT ![t] = b]
       /\ blockno' = [blockno EXCEPT ![b] = k]
       /\ refcnt' = [refcnt EXCEPT ![b] = IF Cached(k) # {} THEN @ + 1 ELSE 1]
       /\ valid' = IF Cached(k) # {} THEN valid ELSE Invalid(b)
  /\ panic' = IF Cached(k) = {} /\ Recyclable = {}
              THEN "bget: no buffers" ELSE panic
  /\ Goto(t, "acquiresleep")
  /\ UNCHANGED <<bufVars, ringVars, vdisk_lock, NUM, deviceVars, op, idx0, latest>>

(* bread() goes on with the block, or has to read it first. *)
bread(b) == IF valid[b] THEN "hold" ELSE "rw"

(* acquiresleep(&b->lock) in bget(), and the test of bread() *)
Acquiresleep(t) ==
  /\ pc[t] = "acquiresleep"
  /\ IF owner[buf[t]] # NoThread
     THEN Goto(t, "asleep_lock") /\ UNCHANGED <<owner, op>>
     ELSE /\ owner' = [owner EXCEPT ![buf[t]] = t]
          /\ op' = [op EXCEPT ![t] = "read"]
          /\ Goto(t, bread(buf[t]))
  /\ UNCHANGED <<bcacheVars, data, ondisk, ringVars, vdisk_lock, NUM, deviceVars,
                 buf, idx0, latest, panic>>

(* The owner changes the buffer and calls bwrite(). *)
Bwrite(t, d) ==
  /\ pc[t] = "hold"
  /\ data' = [data EXCEPT ![buf[t]] = d]
  /\ latest' = [latest EXCEPT ![blockno[buf[t]]] = d]
  /\ op' = [op EXCEPT ![t] = "write"]
  /\ panic' = IF owner[buf[t]] # t THEN "bwrite" ELSE panic
  /\ Goto(t, "rw")
  /\ UNCHANGED <<bcacheVars, owner, ondisk, ringVars, vdisk_lock, NUM, deviceVars,
                 buf, idx0>>

(* brelse() up to the end of releasesleep() *)
Releasesleep(t) ==
  /\ pc[t] = "hold"
  /\ owner' = [owner EXCEPT ![buf[t]] = NoThread]
  /\ panic' = IF owner[buf[t]] # t THEN "brelse" ELSE panic
  /\ pc' = [u \in Threads |->
              IF u = t THEN "brelse"
              ELSE IF pc[u] = "asleep_lock" /\ buf[u] = buf[t]
              THEN "acquiresleep" ELSE pc[u]]
  /\ UNCHANGED <<bcacheVars, data, ondisk, ringVars, vdisk_lock, NUM, deviceVars,
                 buf, op, idx0, latest>>

(* The rest of brelse() *)
Brelse(t) ==
  /\ pc[t] = "brelse"
  /\ refcnt' = [refcnt EXCEPT ![buf[t]] = @ - 1]
  /\ buf' = [buf EXCEPT ![t] = NoBuf]
  /\ Goto(t, "user")
  /\ UNCHANGED <<blockno, valid, bufVars, ringVars, vdisk_lock, NUM, deviceVars, op,
                 idx0, latest, panic>>

-----------------------------------------------------------------------------
(* virtio_disk_rw() *)

(* wakeup(&disk.free[0]) *)
WakeDesc(t) ==
  [u \in Threads |-> IF u # t /\ pc[u] = "asleep_desc" THEN "rw" ELSE pc[u]]

(* alloc_desc() three times, each time the first free descriptor *)
alloc3_desc ==
  LET i1 == Min(free)
      i2 == Min(free \ {i1})
  IN  <<i1, i2, Min(free \ {i1, i2})>>

(* The free descriptors after alloc3_desc() has failed; the variant keeps  *)
(* the ones it got.                                                        *)
Undone_Leak == {}
Undone == free

(* alloc3_desc() fails: what it took it frees again, and free_desc() wakes *)
(* the other threads that wait for descriptors.                            *)
AllocFails(t) ==
  /\ pc[t] = "rw" /\ vdisk_lock = "free"
  /\ Cardinality(free) < 3
  /\ free' = Undone
  /\ pc' = [(IF free = {} THEN pc ELSE WakeDesc(t)) EXCEPT ![t] = "asleep_desc"]
  /\ UNCHANGED <<bcacheVars, bufVars, desc, info, avail, used, vdisk_lock, NUM,
                 deviceVars, buf, op, idx0, latest, panic>>

(* The request is formatted and the device notified.  b->disk is 1, so the *)
(* thread goes to sleep at once.                                           *)
Submit(t) ==
  /\ pc[t] = "rw" /\ vdisk_lock = "free"
  /\ Cardinality(free) >= 3
  /\ LET idx == alloc3_desc
         b == buf[t]
     IN  /\ free' = free \ {idx[1], idx[2], idx[3]}
         /\ desc' = [desc EXCEPT
              ![idx[1]] = [NoDesc EXCEPT !.next = idx[2], !.more = TRUE,
                                         !.op = op[t], !.sector = blockno[b]],
              ![idx[2]] = [NoDesc EXCEPT !.next = idx[3], !.more = TRUE, !.buf = b],
              ![idx[3]] = [NoDesc EXCEPT !.status = idx[1]]]
         /\ info' = [info EXCEPT ![idx[1]] = [b |-> b, status |-> "busy"]]
         /\ ondisk' = [ondisk EXCEPT ![b] = TRUE]
         /\ avail' = Append(avail, idx[1])
         /\ idx0' = [idx0 EXCEPT ![t] = idx[1]]
  /\ Goto(t, "asleep_disk")
  /\ UNCHANGED <<bcacheVars, owner, data, used, vdisk_lock, NUM, deviceVars,
                 buf, op, latest, panic>>

(* The condition under which virtio_disk_rw() goes on sleeping. *)
StillOnDisk(t) == ondisk[buf[t]]

(* The descriptors free_chain(i) frees *)
Chain(i) ==
  LET j == desc[i].next
  IN  {i} \cup (IF desc[i].more
                THEN {j} \cup (IF desc[j].more THEN {desc[j].next} ELSE {})
                ELSE {})

(* The thread wakes up; if the device is done with b, the chain is freed,  *)
(* and after a read bread() sets b->valid.                                 *)
Finish(t) ==
  /\ pc[t] = "disk" /\ vdisk_lock = "free"
  /\ IF StillOnDisk(t)
     THEN /\ Goto(t, "asleep_disk")
          /\ UNCHANGED <<free, desc, info, valid, op, idx0, panic>>
     ELSE /\ free' = free \cup Chain(idx0[t])
          /\ panic' = IF Chain(idx0[t]) \cap free # {} THEN "free_desc 2" ELSE panic
          /\ desc' = [i \in Descs |->
                        IF i \in Chain(idx0[t]) THEN NoDesc ELSE desc[i]]
          /\ info' = [info EXCEPT ![idx0[t]] = NoInfo]
          /\ idx0' = [idx0 EXCEPT ![t] = 0]
          /\ op' = [op EXCEPT ![t] = "read"]
          /\ valid' = [valid EXCEPT ![buf[t]] = @ \/ op[t] = "read"]
          /\ pc' = [WakeDesc(t) EXCEPT ![t] = "hold"]
  /\ UNCHANGED <<blockno, refcnt, bufVars, avail, used, vdisk_lock, NUM, deviceVars,
                 buf, latest>>

(* kill() makes a sleeping thread runnable; its loop tests again. *)
Kill(t) ==
  /\ pc[t] \in Asleep
  /\ Goto(t, CASE pc[t] = "asleep_lock" -> "acquiresleep"
               [] pc[t] = "asleep_desc" -> "rw"
               [] pc[t] = "asleep_disk" -> "disk")
  /\ UNCHANGED <<bcacheVars, bufVars, ringVars, vdisk_lock, NUM, deviceVars, buf, op,
                 idx0, latest, panic>>

-----------------------------------------------------------------------------
(* virtio_disk_intr(): acknowledge, then drain the used ring *)

ThreadsUnchanged == UNCHANGED <<buf, op, idx0, latest>>

(* The handler looks at the whole used ring. *)
Drained == used = <<>>

IntrEnter ==
  /\ interrupt /\ vdisk_lock = "free"
  /\ vdisk_lock' = "intr"
  /\ interrupt' = FALSE
  /\ UNCHANGED <<bcacheVars, bufVars, ringVars, platter, working, raising,
                 NUM, pc, panic>>
  /\ ThreadsUnchanged

(* wakeup(b) in the handler; the variant uses the channel of descriptors. *)
WakeBuf_Wrong(b) ==
  [u \in Threads |-> IF pc[u] = "asleep_desc" THEN "rw" ELSE pc[u]]
WakeBuf(b) ==
  [u \in Threads |-> IF pc[u] = "asleep_disk" /\ buf[u] = b THEN "disk" ELSE pc[u]]

IntrEntry ==
  /\ vdisk_lock = "intr"
  /\ used # <<>>
  /\ LET id == Head(used)
         b == info[id].b
     IN  /\ panic' = IF info[id].status # "ok"
                     THEN "virtio_disk_intr status" ELSE panic
         /\ ondisk' = [ondisk EXCEPT ![b] = FALSE]
         /\ pc' = WakeBuf(b)
  /\ used' = Tail(used)
  /\ UNCHANGED <<bcacheVars, owner, data, free, desc, info, avail, vdisk_lock,
                 NUM, deviceVars>>
  /\ ThreadsUnchanged

IntrExit ==
  /\ vdisk_lock = "intr"
  /\ Drained
  /\ vdisk_lock' = "free"
  /\ UNCHANGED <<bcacheVars, bufVars, ringVars, deviceVars, NUM, pc, panic>>
  /\ ThreadsUnchanged

-----------------------------------------------------------------------------
(* The device *)

DeviceStep ==
  UNCHANGED <<bcacheVars, owner, ondisk, free, desc, vdisk_lock, NUM, pc, buf, op,
              idx0, latest, panic>>

DevFetch ==
  /\ avail # <<>>
  /\ working' = working \cup {Head(avail)}
  /\ avail' = Tail(avail)
  /\ UNCHANGED <<data, info, used, platter, raising, interrupt>>
  /\ DeviceStep

(* One request is carried out along its chain and reported. *)
DevComplete(id) ==
  /\ id \in working
  /\ LET b == desc[desc[id].next].buf
         st == desc[desc[desc[id].next].next].status
         k == desc[id].sector
     IN  /\ IF desc[id].op = "read"
            THEN data' = [data EXCEPT ![b] = platter[k]] /\ UNCHANGED platter
            ELSE platter' = [platter EXCEPT ![k] = data[b]] /\ UNCHANGED data
         /\ info' = [info EXCEPT ![st].status = "ok"]
  /\ used' = Append(used, id)
  /\ working' = working \ {id}
  /\ raising' = TRUE
  /\ UNCHANGED <<avail, interrupt>>
  /\ DeviceStep

DevRaise ==
  /\ raising
  /\ raising' = FALSE /\ interrupt' = TRUE
  /\ UNCHANGED <<data, info, avail, used, platter, working>>
  /\ DeviceStep

-----------------------------------------------------------------------------
ThreadStep(t) ==
  \/ \E k \in Blocks : Bget(t, k)
  \/ Acquiresleep(t)
  \/ \E d \in Data : Bwrite(t, d)
  \/ Releasesleep(t) \/ Brelse(t)
  \/ AllocFails(t) \/ Submit(t) \/ Finish(t)

HandlerStep == IntrEnter \/ IntrEntry \/ IntrExit
Device == DevFetch \/ DevRaise \/ \E id \in Descs : DevComplete(id)

Next ==
  /\ panic = "no"
  /\ \/ \E t \in Threads : ThreadStep(t) \/ Kill(t)
     \/ HandlerStep
     \/ Device

Spec == Init /\ [][Next]_vars

(* The device works, its interrupts are taken, and a thread that is awake  *)
(* runs.  Submit and the handler compete for vdisk_lock.                   *)
Fairness ==
  /\ WF_vars(DevFetch) /\ WF_vars(DevRaise)
  /\ \A id \in 0 .. Max(Sizes) - 1 : WF_vars(DevComplete(id))
  /\ SF_vars(IntrEnter) /\ WF_vars(IntrEntry) /\ WF_vars(IntrExit)
  /\ \A t \in Threads : SF_vars(Finish(t))

FairSpec == Spec /\ Fairness

-----------------------------------------------------------------------------
InFlight == {t \in Threads : pc[t] \in {"asleep_disk", "disk"}}

(* The descriptors of requests in flight are pairwise disjoint chains of   *)
(* three, and every other descriptor is free: virtio_disk_rw() and its     *)
(* partial allocations neither leak nor share one.                         *)
DescOwned ==
  LET chain == [t \in InFlight |-> Chain(idx0[t])]
  IN  /\ \A t \in InFlight : Cardinality(chain[t]) = 3
      /\ \A t, u \in InFlight : t # u => chain[t] \cap chain[u] = {}
      /\ free = Descs \ UNION {chain[t] : t \in InFlight}

(* A buffer that bread() or bwrite() has returned to its caller holds the  *)
(* block that was asked for, with what was last written to it, and so does *)
(* the disk, whatever was recycled, reordered or woken early meanwhile.    *)
HeldIsLatest ==
  \A t \in Threads : pc[t] = "hold" =>
    LET b == buf[t]
    IN  /\ owner[b] = t /\ valid[b]
        /\ data[b] = latest[blockno[b]]
        /\ platter[blockno[b]] = latest[blockno[b]]

(* Every request handed to the device returns to the thread that made it.  *)
RequestReturns ==
  \A t \in Threads : pc[t] = "asleep_disk" ~> pc[t] = "hold"
=============================================================================
