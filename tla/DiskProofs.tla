----------------------------- MODULE DiskProofs -----------------------------
(***************************************************************************)
(* The buffer cache and the disk driver, for any number of threads,        *)
(* descriptors and blocks and no fewer buffers than threads. The invariant *)
(* relates the buffers to the threads that use them (Cache), the requests  *)
(* in flight to the chains of descriptors and to the place in the rings    *)
(* where each of them is (Rings), and the contents of buffers and disk to  *)
(* the last write (Contents).                                              *)
(***************************************************************************)
EXTENDS Disk, FiniteSetTheorems, WellFoundedInduction, TLAPS

-----------------------------------------------------------------------------
(* The inductive invariant *)

Waiting == {"acquiresleep", "asleep_lock"}
Wanting == {"rw", "asleep_desc"}
Flying == {"asleep_disk", "disk"}
Holding == {"hold"} \cup Wanting \cup Flying
Labels == {"user", "brelse"} \cup Waiting \cup Holding

Desc == [next : Descs, more : BOOLEAN, op : {"none", "read", "write"},
         sector : Blocks \cup {NoBlock}, buf : Buffers \cup {NoBuf}, status : Descs]
Info == [b : Buffers \cup {NoBuf}, status : {"none", "busy", "ok"}]

TypeInv ==
  /\ blockno \in [Buffers -> Blocks \cup {NoBlock}]
  /\ valid \in [Buffers -> BOOLEAN]
  /\ refcnt \in [Buffers -> Nat]
  /\ owner \in [Buffers -> Threads \cup {NoThread}]
  /\ data \in [Buffers -> Data]
  /\ ondisk \in [Buffers -> BOOLEAN]
  /\ NUM \in Sizes /\ free \subseteq Descs
  /\ desc \in [Descs -> Desc] /\ info \in [Descs -> Info]
  /\ avail \in Seq(Descs) /\ used \in Seq(Descs) /\ working \subseteq Descs
  /\ platter \in [Blocks -> Data] /\ latest \in [Blocks -> Data]
  /\ pc \in [Threads -> Labels]
  /\ buf \in [Threads -> Buffers \cup {NoBuf}]
  /\ op \in [Threads -> {"read", "write"}]
  /\ idx0 \in [Threads -> Descs]

(* A block has one buffer; the reference count of a buffer is the number   *)
(* of threads in a call with it, and its lock is the one of the thread     *)
(* that goes on with it.                                                   *)
Users(b) == {t \in Threads : buf[t] = b}

Cache ==
  /\ \A b, c \in Buffers : blockno[b] = blockno[c] /\ blockno[b] # NoBlock => b = c
  /\ \A b \in Buffers : refcnt[b] = Cardinality(Users(b))
  /\ \A t \in Threads : /\ pc[t] = "user" <=> buf[t] = NoBuf
                        /\ buf[t] # NoBuf => blockno[buf[t]] # NoBlock
                        /\ pc[t] \in Holding => owner[buf[t]] = t
  /\ \A b \in Buffers : owner[b] # NoThread =>
                          buf[owner[b]] = b /\ pc[owner[b]] \in Holding

(* The descriptors of a request in flight *)
Linked(t) ==
  LET h == idx0[t]
      j == desc[h].next
      k == desc[j].next
  IN  /\ h # j /\ h # k /\ j # k
      /\ desc[h].more /\ desc[j].more /\ ~desc[k].more
      /\ desc[h].op = op[t] /\ desc[h].sector = blockno[buf[t]]
      /\ desc[j].buf = buf[t] /\ desc[k].status = h
      /\ info[h].b = buf[t]

Rng(s) == {s[i] : i \in 1 .. Len(s)}
NoDup(s) == \A i, j \in 1 .. Len(s) : s[i] = s[j] => i = j

(* The requests the device has not answered, and those the handler has not *)
(* seen.                                                                   *)
Unanswered == Rng(avail) \cup working
Unseen == Unanswered \cup Rng(used)

Rings ==
  /\ \A t \in InFlight : Linked(t)
  /\ \A t, u \in InFlight : t # u => Chain(idx0[t]) \cap Chain(idx0[u]) = {}
  /\ \A d \in Descs : d \in free <=> \A t \in InFlight : d \notin Chain(idx0[t])
  /\ NoDup(avail) /\ NoDup(used) /\ Rng(avail) \cap working = {}
  /\ Unanswered \cap Rng(used) = {}
  /\ \A d \in Unseen : \E t \in InFlight : idx0[t] = d
  /\ \A t \in InFlight : /\ ondisk[buf[t]] <=> idx0[t] \in Unseen
                         /\ idx0[t] \notin Unanswered => info[idx0[t]].status = "ok"
  /\ \A b \in Buffers : ondisk[b] => \E t \in InFlight : buf[t] = b

(* A write that has not reached the disk, and a read that has. *)
Pending(t) == pc[t] \in Wanting \/ (t \in InFlight /\ idx0[t] \in Unanswered)
Writing(t) == op[t] = "write" /\ Pending(t)

Contents ==
  /\ \A k \in Blocks : platter[k] # latest[k] =>
       \E t \in Threads : Writing(t) /\ blockno[buf[t]] = k
  /\ \A b \in Buffers : valid[b] => blockno[b] # NoBlock /\ data[b] = latest[blockno[b]]
  /\ \A t \in Threads :
       /\ pc[t] = "hold" => valid[buf[t]]
       /\ pc[t] \in Wanting \cup Flying => (valid[buf[t]] <=> op[t] = "write")
       /\ t \in InFlight /\ ~Pending(t) => data[buf[t]] = latest[blockno[buf[t]]]

IInv == TypeInv /\ Cache /\ Rings /\ Contents /\ panic = "no"

-----------------------------------------------------------------------------
(* Sets of natural numbers, and sequences *)

(* Min of a set of natural numbers is one of them. *)
LEMMA MinIn ==
  ASSUME NEW S \in SUBSET Nat, S # {}
  PROVE  Min(S) \in S
<1> DEFINE R == OpToRel(<, Nat)
<1>1. \A x, y \in Nat : <<x, y>> \in R <=> x < y
  BY DEF OpToRel
<1>2. IsWellFoundedOn(R, Nat)
  BY NatLessThanWellFounded, ZenonT(40)
<1> HIDE DEF R
<1>3. PICK x \in S : \A y \in S : ~ (<<y, x>> \in R)
  BY <1>2, WFMin, ZenonT(40)
<1>4. \A y \in S : x <= y
  <2> TAKE y \in S
  <2>1. x \in Nat /\ y \in Nat
    OBVIOUS
  <2>2. ~ (<<y, x>> \in R)
    BY <1>3
  <2>3. ~ (y < x)
    BY <1>1, <2>1, <2>2
  <2> QED
    BY <2>1, <2>3
<1> QED
  BY <1>3, <1>4, ZenonT(40) DEF Min

(* Taking the head off a queue without duplicates. *)
LEMMA HeadTail ==
  ASSUME NEW S, NEW s \in Seq(S), s # <<>>, NoDup(s)
  PROVE  /\ Head(s) \in Rng(s) /\ Head(s) \in S
         /\ Tail(s) \in Seq(S) /\ NoDup(Tail(s))
         /\ Rng(Tail(s)) = Rng(s) \ {Head(s)}
<1>1. Len(s) \in Nat \ {0} /\ Head(s) = s[1] /\ s[1] \in S
  OBVIOUS
<1>2. Tail(s) \in Seq(S) /\ Len(Tail(s)) = Len(s) - 1
      /\ \A i \in 1 .. Len(s) - 1 : Tail(s)[i] = s[i + 1]
  OBVIOUS
<1> DEFINE u == Tail(s)
<1> HIDE DEF u
<1>3. u \in Seq(S) /\ Len(u) = Len(s) - 1 /\ \A i \in 1 .. Len(s) - 1 : u[i] = s[i + 1]
  BY <1>2 DEF u
<1>4. NoDup(u)
  BY <1>1, <1>3 DEF NoDup
<1>5. ASSUME NEW x \in Rng(u)
      PROVE  x \in Rng(s) /\ x # s[1]
  <2>1. PICK i \in 1 .. Len(u) : x = u[i]
    BY DEF Rng
  <2>2. i + 1 \in 1 .. Len(s) /\ x = s[i + 1] /\ i + 1 # 1 /\ 1 \in 1 .. Len(s)
    BY <1>1, <1>3, <2>1
  <2> QED
    BY <2>2 DEF NoDup, Rng
<1>6. ASSUME NEW x \in Rng(s), x # s[1]
      PROVE  x \in Rng(u)
  <2>1. PICK i \in 1 .. Len(s) : x = s[i]
    BY DEF Rng
  <2>2. i - 1 \in 1 .. Len(u) /\ u[i - 1] = x
    BY <1>1, <1>3, <1>6, <2>1
  <2> QED
    BY <2>2 DEF Rng
<1>7. s[1] \in Rng(s)
  BY <1>1 DEF Rng
<1> QED
  BY <1>1, <1>3, <1>4, <1>5, <1>6, <1>7 DEF u

(* Adding something new to a queue without duplicates. *)
LEMMA AppendNew ==
  ASSUME NEW S, NEW s \in Seq(S), NoDup(s), NEW x \in S, x \notin Rng(s)
  PROVE  /\ Append(s, x) \in Seq(S) /\ NoDup(Append(s, x))
         /\ Rng(Append(s, x)) = Rng(s) \cup {x}
<1> DEFINE u == Append(s, x)
<1>1. u \in Seq(S) /\ Len(s) \in Nat /\ Len(u) = Len(s) + 1 /\ u[Len(s) + 1] = x
      /\ \A i \in 1 .. Len(s) : u[i] = s[i]
  OBVIOUS
<1> HIDE DEF u
<1>2. \A i \in 1 .. Len(s) : s[i] # x
  BY DEF Rng
<1>3. NoDup(u)
  BY <1>1, <1>2 DEF NoDup
<1>4. ASSUME NEW y \in Rng(u)
      PROVE  y \in Rng(s) \cup {x}
  <2>1. PICK i \in 1 .. Len(u) : y = u[i]
    BY DEF Rng
  <2>2. CASE i \in 1 .. Len(s)
    BY <1>1, <2>1, <2>2 DEF Rng
  <2>3. CASE i = Len(s) + 1
    BY <1>1, <2>1, <2>3
  <2> QED
    BY <1>1, <2>2, <2>3
<1>5. ASSUME NEW i \in 1 .. Len(s)
      PROVE  s[i] \in Rng(u)
  <2>1. i \in 1 .. Len(u) /\ u[i] = s[i]
    BY <1>1
  <2> QED
    BY <2>1, Zenon DEF Rng
<1>6. x \in Rng(u)
  <2>1. Len(s) + 1 \in 1 .. Len(u)
    BY <1>1
  <2> QED
    BY <1>1, <2>1, Zenon DEF Rng
<1>7. Rng(u) = Rng(s) \cup {x}
  <2>1. \A y \in Rng(s) : y \in Rng(u)
    BY <1>5, Zenon DEF Rng
  <2> QED
    BY <1>4, <1>6, <2>1, Zenon
<1> QED
  BY <1>1, <1>3, <1>7 DEF u

(* What is in a queue has the type of the queue. *)
LEMMA RngIn ==
  ASSUME NEW S, NEW s \in Seq(S)
  PROVE  Rng(s) \subseteq S
  BY DEF Rng

-----------------------------------------------------------------------------
(* Chains *)

(* The ring has at least three descriptors. *)
LEMMA SizeType ==
  ASSUME TypeInv
  PROVE  NUM \in Nat /\ NUM >= 3 /\ 0 \in Descs /\ Descs \subseteq Nat
<1>1. NUM \in Nat /\ NUM >= 3
  BY DiskAssumption DEF TypeInv
<1> QED
  BY <1>1 DEF Descs

(* The three links of a request have their types. *)
LEMMA LinkedTypes ==
  ASSUME TypeInv, NEW t \in Threads
  PROVE  LET h == idx0[t]
             j == desc[h].next
             k == desc[j].next
         IN  h \in Descs /\ j \in Descs /\ k \in Descs
             /\ desc[h] \in Desc /\ desc[j] \in Desc /\ desc[k] \in Desc
             /\ info[h] \in Info
  BY DEF TypeInv, Desc

(* The chain that free_chain() walks from the head of a request is its     *)
(* three descriptors.                                                      *)
LEMMA ChainIs ==
  ASSUME NEW t \in Threads, Linked(t)
  PROVE  Chain(idx0[t]) = {idx0[t], desc[idx0[t]].next, desc[desc[idx0[t]].next].next}
<1> DEFINE h == idx0[t]
           j == desc[h].next
           k == desc[j].next
<1>1. desc[h].more /\ desc[j].more
  BY DEF Linked
<1>2. Chain(h) = {h} \cup ({j} \cup {k})
  BY <1>1 DEF Chain
<1>3. {h} \cup ({j} \cup {k}) = {h, j, k}
  BY Zenon
<1> QED
  BY <1>2, <1>3, ZenonT(40)

(* A chain that nobody touches stays as it is. *)
LEMMA LinkedFrame ==
  ASSUME NEW t \in Threads, Linked(t),
         idx0'[t] = idx0[t], op'[t] = op[t], buf'[t] = buf[t],
         blockno'[buf[t]] = blockno[buf[t]], info'[idx0[t]].b = info[idx0[t]].b,
         \A d \in Chain(idx0[t]) : desc'[d] = desc[d]
  PROVE  Linked(t)' /\ Chain(idx0[t])' = Chain(idx0[t])
<1> DEFINE h == idx0[t]
           j == desc[h].next
           k == desc[j].next
<1>1. Chain(h) = {h, j, k}
  BY ChainIs
<1>2. desc'[h] = desc[h] /\ desc'[j] = desc[j] /\ desc'[k] = desc[k]
  BY <1>1, Zenon
<1>3. Linked(t)'
  BY <1>2, ZenonT(40) DEF Linked
<1>4. Chain(idx0[t])' = Chain(idx0[t])
  BY <1>2, ZenonT(40) DEF Chain
<1> QED
  BY <1>3, <1>4

(* The descriptors of a step that keeps NUM *)
LEMMA SameDescs ==
  ASSUME NUM' = NUM
  PROVE  Descs' = Descs /\ Desc' = Desc /\ Info' = Info
  BY DEF Descs, Desc, Info

-----------------------------------------------------------------------------
(* The initial states *)

(* The invariant holds at the start, with all descriptors free. *)
LEMMA InitInv == Init => IInv
<1> SUFFICES ASSUME Init PROVE IInv
  OBVIOUS
<1>1. NUM \in Nat /\ NUM >= 3 /\ 0 \in Descs
  BY DiskAssumption DEF Init, Descs
<1>2. NoDesc \in Desc /\ NoInfo \in Info
  BY <1>1 DEF NoDesc, Desc, NoInfo, Info
<1>3. PICK d \in Data : data = [b \in Buffers |-> d] /\ platter = [k \in Blocks |-> d]
  BY DEF Init
<1>4. TypeInv
  <2>1. "user" \in Labels
    BY DEF Labels
  <2>2. desc \in [Descs -> Desc] /\ info \in [Descs -> Info]
    BY <1>2 DEF Init, virtio_disk_init
  <2>3. avail \in Seq(Descs) /\ used \in Seq(Descs) /\ working \subseteq Descs
    BY DEF Init, virtio_disk_init
  <2>4. /\ blockno \in [Buffers -> Blocks \cup {NoBlock}]
        /\ valid \in [Buffers -> BOOLEAN]
        /\ refcnt \in [Buffers -> Nat]
        /\ owner \in [Buffers -> Threads \cup {NoThread}]
        /\ ondisk \in [Buffers -> BOOLEAN]
    BY DEF Init, binit
  <2>5. /\ data \in [Buffers -> Data]
        /\ platter \in [Blocks -> Data] /\ latest \in [Blocks -> Data]
    BY <1>3 DEF Init
  <2>6. /\ pc \in [Threads -> Labels]
        /\ buf \in [Threads -> Buffers \cup {NoBuf}]
        /\ op \in [Threads -> {"read", "write"}]
        /\ idx0 \in [Threads -> Descs]
    BY <1>1, <2>1 DEF Init
  <2> QED
    BY <2>2, <2>3, <2>4, <2>5, <2>6 DEF Init, virtio_disk_init, TypeInv
<1>5. Cache
  <2>1. ASSUME NEW b \in Buffers PROVE refcnt[b] = Cardinality(Users(b))
    <3>1. Users(b) = {}
      BY DiskAssumption DEF Users, Init
    <3> QED
      BY <3>1, FS_EmptySet DEF Init, binit
  <2>2. "user" \notin Holding
    BY DEF Holding, Wanting, Flying
  <2> QED
    BY <2>1, <2>2 DEF Cache, Init, binit
<1>6. InFlight = {}
  BY DEF InFlight, Init
<1>7. Rng(avail) = {} /\ Rng(used) = {} /\ working = {} /\ NoDup(avail) /\ NoDup(used)
  BY DEF Init, virtio_disk_init, Rng, NoDup
<1>8. Rings
  BY <1>6, <1>7 DEF Rings, Unseen, Unanswered, Init, virtio_disk_init, binit
<1>9. Contents
  BY <1>6 DEF Contents, Init, binit, Wanting, Flying
<1> QED
  BY <1>4, <1>5, <1>8, <1>9 DEF IInv, Init

-----------------------------------------------------------------------------
(* Steps that leave a part of the state alone *)

(* The thread stays in the same part of its call. *)
SameClass(t) ==
  /\ pc'[t] = "user" <=> pc[t] = "user"
  /\ pc'[t] = "hold" <=> pc[t] = "hold"
  /\ pc'[t] \in Wanting <=> pc[t] \in Wanting
  /\ pc'[t] \in Flying <=> pc[t] \in Flying

(* The same requests are in flight when no thread changes the class of its *)
(* place.                                                                  *)
LEMMA SameInFlight ==
  ASSUME \A t \in Threads : SameClass(t)
  PROVE  InFlight' = InFlight
  BY DEF InFlight, SameClass, Flying

(* refcnt counts the threads that use a buffer. *)
LEMMA RefIs ==
  ASSUME Cache, NEW b \in Buffers
  PROVE  refcnt[b] = Cardinality(Users(b))
  BY ZenonT(40) DEF Cache

(* Cache holds on if the threads keep their buffers and locks. *)
LEMMA CacheSame ==
  ASSUME Cache, TypeInv, UNCHANGED <<blockno, refcnt, owner, buf>>,
         \A t \in Threads : /\ pc'[t] = "user" <=> pc[t] = "user"
                            /\ pc'[t] \in Holding <=> pc[t] \in Holding
  PROVE  Cache'
<1>1. \A b \in Buffers : Users(b)' = Users(b)
  BY DEF Users
<1>2. \A b \in Buffers : owner[b] # NoThread => owner[b] \in Threads
  BY DEF TypeInv
<1> QED
  BY <1>1, <1>2 DEF Cache

(* The same for threads that stay in their class of places. *)
LEMMA CacheFrame ==
  ASSUME Cache, \A t \in Threads : SameClass(t), UNCHANGED <<blockno, refcnt, owner, buf>>,
         TypeInv
  PROVE  Cache'
  BY CacheSame DEF SameClass, Holding

(* Rings holds on in a step that leaves rings and requests alone. *)
LEMMA RingsFrame ==
  ASSUME Rings, InFlight' = InFlight, UNCHANGED <<ringVars, working, NUM, ondisk>>,
         \A t \in InFlight : /\ idx0'[t] = idx0[t] /\ op'[t] = op[t] /\ buf'[t] = buf[t]
                             /\ blockno'[buf[t]] = blockno[buf[t]]
  PROVE  Rings'
<1>1. /\ desc' = desc /\ info' = info /\ free' = free /\ avail' = avail /\ used' = used
      /\ Unanswered' = Unanswered /\ Unseen' = Unseen /\ Descs' = Descs
      /\ working' = working /\ ondisk' = ondisk
  BY DEF ringVars, Unanswered, Unseen, Descs
<1>2. ASSUME NEW t \in InFlight
      PROVE  Linked(t)' /\ Chain(idx0[t])' = Chain(idx0[t])
  <2>1. t \in Threads /\ Linked(t)
    BY DEF Rings, InFlight
  <2> QED
    BY <1>1, <2>1, LinkedFrame, ZenonT(40)
<1>3. \A t \in InFlight : Linked(t)'
  BY <1>2
<1>4. \A t, u \in InFlight : t # u => Chain(idx0[t])' \cap Chain(idx0[u])' = {}
  BY <1>2 DEF Rings
<1>5. \A d \in Descs : d \in free <=> \A t \in InFlight : d \notin Chain(idx0[t])'
  BY <1>2 DEF Rings
<1>6. NoDup(avail) /\ NoDup(used) /\ Rng(avail) \cap working = {}
      /\ Unanswered \cap Rng(used) = {}
  BY DEF Rings
<1>7. \A d \in Unseen : \E t \in InFlight : idx0'[t] = d
  BY DEF Rings
<1>8. \A t \in InFlight : /\ ondisk[buf'[t]] <=> idx0'[t] \in Unseen
                          /\ idx0'[t] \notin Unanswered => info[idx0'[t]].status = "ok"
  BY DEF Rings
<1>9. \A b \in Buffers : ondisk[b] => \E t \in InFlight : buf'[t] = b
  BY DEF Rings
<1>10. NoDup(avail') /\ NoDup(used') /\ Rng(avail') \cap working' = {}
       /\ Unanswered' \cap Rng(used') = {}
  BY <1>1, <1>6, ZenonT(40)
<1>11. \A t \in InFlight : /\ ondisk'[buf'[t]] <=> idx0'[t] \in Unseen'
                           /\ idx0'[t] \notin Unanswered' => info'[idx0'[t]].status = "ok"
  BY <1>1, <1>8, ZenonT(40)
<1>12. \A d \in Descs' : d \in free' <=> \A t \in InFlight : d \notin Chain(idx0[t])'
  BY <1>1, <1>5, ZenonT(40)
<1>13. /\ \A d \in Unseen' : \E t \in InFlight : idx0'[t] = d
       /\ \A b \in Buffers : ondisk'[b] => \E t \in InFlight : buf'[t] = b
  BY <1>1, <1>7, <1>9, ZenonT(40)
<1> QED
  BY <1>3, <1>4, <1>10, <1>11, <1>12, <1>13, ZenonT(40) DEF Rings

(* Contents holds on in a step that leaves data and requests alone. *)
LEMMA ContentsFrame ==
  ASSUME Contents, \A t \in Threads : SameClass(t), Unanswered' = Unanswered,
         UNCHANGED <<platter, latest, valid, data, blockno, buf, op, idx0>>
  PROVE  Contents'
<1>1. InFlight' = InFlight
  BY SameInFlight
<1>2. ASSUME NEW t \in Threads
      PROVE  Pending(t)' <=> Pending(t)
  BY <1>1 DEF Pending, SameClass
<1>3. \A t \in Threads : Writing(t)' <=> Writing(t)
  BY <1>2 DEF Writing
<1>4. \A t \in Threads : (pc'[t] \in Wanting \cup Flying <=> pc[t] \in Wanting \cup Flying)
                         /\ (pc'[t] = "hold" <=> pc[t] = "hold")
  BY DEF SameClass
<1> QED
  BY <1>1, <1>2, <1>3, <1>4 DEF Contents

(* All but the places of the threads, the lock and the interrupts stays. *)
LEMMA PcFrame ==
  ASSUME IInv, \A t \in Threads : SameClass(t), pc' \in [Threads -> Labels],
         UNCHANGED <<bcacheVars, bufVars, ringVars, platter, working, buf, op, idx0,
                     NUM, latest, panic>>
  PROVE  IInv'
<1>1. TypeInv'
  BY SameDescs DEF IInv, TypeInv, bcacheVars, bufVars, ringVars
<1>2. Cache'
  BY CacheFrame, ZenonT(40) DEF IInv, bcacheVars, bufVars
<1>3. Rings'
  BY SameInFlight, RingsFrame DEF IInv, bcacheVars, bufVars
<1>4. Contents'
  <2>1. Unanswered' = Unanswered
    BY DEF Unanswered, ringVars
  <2> QED
    BY <2>1, ContentsFrame DEF IInv, bcacheVars, bufVars
<1> QED
  BY <1>1, <1>2, <1>3, <1>4 DEF IInv

(* A thread goes to sleep or is woken up. *)
LEMMA GotoClass ==
  ASSUME TypeInv, NEW t \in Threads, NEW l \in Labels, Goto(t, l),
         \/ {pc[t], l} \subseteq Waiting
         \/ {pc[t], l} \subseteq Wanting
         \/ {pc[t], l} \subseteq Flying
  PROVE  pc' \in [Threads -> Labels] /\ \A u \in Threads : SameClass(u)
<1>1. pc' \in [Threads -> Labels] /\ pc'[t] = l
      /\ \A u \in Threads : u # t => pc'[u] = pc[u]
  BY DEF Goto, TypeInv
<1>2. SameClass(t)
  BY <1>1 DEF SameClass, Waiting, Wanting, Flying
<1> QED
  BY <1>1, <1>2 DEF SameClass

(* kill() only wakes a sleeper and keeps the invariant. *)
LEMMA KillInv ==
  ASSUME IInv, NEW t \in Threads, Kill(t)
  PROVE  IInv'
<1>1. PICK l \in Labels : Goto(t, l) /\ \/ {pc[t], l} \subseteq Waiting
                                        \/ {pc[t], l} \subseteq Wanting
                                        \/ {pc[t], l} \subseteq Flying
  <2>1. CASE pc[t] = "asleep_lock"
    <3>1. Goto(t, "acquiresleep")
      BY <2>1 DEF Kill
    <3>2. "acquiresleep" \in Labels /\ {pc[t], "acquiresleep"} \subseteq Waiting
      BY <2>1 DEF Labels, Waiting
    <3> QED
      BY <3>1, <3>2
  <2>2. CASE pc[t] = "asleep_desc"
    <3>1. Goto(t, "rw")
      BY <2>2 DEF Kill
    <3>2. "rw" \in Labels /\ {pc[t], "rw"} \subseteq Wanting
      BY <2>2 DEF Labels, Holding, Wanting
    <3> QED
      BY <3>1, <3>2
  <2>3. CASE pc[t] = "asleep_disk"
    <3>1. Goto(t, "disk")
      BY <2>3 DEF Kill
    <3>2. "disk" \in Labels /\ {pc[t], "disk"} \subseteq Flying
      BY <2>3 DEF Labels, Holding, Flying
    <3> QED
      BY <3>1, <3>2
  <2> QED
    BY <2>1, <2>2, <2>3 DEF Kill, Asleep
<1>2. pc' \in [Threads -> Labels] /\ \A u \in Threads : SameClass(u)
  BY <1>1, GotoClass DEF IInv
<1> QED
  BY <1>2, PcFrame DEF Kill, deviceVars

(* alloc3_desc() fails, gives back what it took and keeps the invariant. *)
LEMMA AllocFailsInv ==
  ASSUME IInv, NEW t \in Threads, AllocFails(t)
  PROVE  IInv'
<1> DEFINE w == IF free = {} THEN pc ELSE WakeDesc(t)
<1>1. "rw" \in Labels /\ "asleep_desc" \in Labels
  BY DEF Labels, Holding, Wanting
<1>2. w \in [Threads -> Labels]
      /\ \A u \in Threads : w[u] = pc[u] \/ (pc[u] = "asleep_desc" /\ w[u] = "rw")
  <2>1. pc \in [Threads -> Labels]
    BY DEF IInv, TypeInv
  <2>2. WakeDesc(t) \in [Threads -> Labels]
        /\ \A u \in Threads : WakeDesc(t)[u] = pc[u]
                              \/ (pc[u] = "asleep_desc" /\ WakeDesc(t)[u] = "rw")
    BY <1>1, <2>1 DEF WakeDesc
  <2> QED
    BY <2>1, <2>2
<1> HIDE DEF w
<1>3. pc[t] = "rw" /\ pc' = [w EXCEPT ![t] = "asleep_desc"] /\ free' = free
  BY DEF AllocFails, Undone, w
<1>4. pc' \in [Threads -> Labels]
  BY <1>1, <1>2, <1>3
<1>5. \A u \in Threads : SameClass(u)
  <2> TAKE u \in Threads
  <2>1. CASE u = t
    <3>1. pc'[t] = "asleep_desc"
      BY <1>2, <1>3
    <3> QED
      BY <1>3, <2>1, <3>1 DEF SameClass, Wanting, Flying
  <2>2. CASE u # t
    <3>1. pc'[u] = w[u]
      BY <1>2, <1>3, <2>2
    <3> QED
      BY <1>2, <3>1 DEF SameClass, Wanting, Flying
  <2> QED
    BY <2>1, <2>2
<1> QED
  BY <1>3, <1>4, <1>5, PcFrame DEF AllocFails, deviceVars, ringVars

(* The steps that only take the lock or raise an interrupt *)
LEMMA LockInv ==
  ASSUME IInv, IntrEnter \/ IntrExit \/ DevRaise \/ UNCHANGED vars
  PROVE  IInv'
<1>1. pc' = pc
  BY DEF IntrEnter, IntrExit, DevRaise, DeviceStep, vars
<1>2. pc' \in [Threads -> Labels] /\ \A u \in Threads : SameClass(u)
  BY <1>1 DEF SameClass, IInv, TypeInv
<1>3. UNCHANGED <<bcacheVars, bufVars, ringVars, platter, working, buf, op, idx0,
                  NUM, latest, panic>>
  BY DEF IntrEnter, IntrExit, DevRaise, DeviceStep, ThreadsUnchanged, vars,
         deviceVars, ringVars, bufVars
<1> QED
  BY <1>2, <1>3, PcFrame

-----------------------------------------------------------------------------
(* bio.c and sleeplock.c *)

(* The users of a buffer can be counted. *)
LEMMA UsersFinite ==
  ASSUME NEW b
  PROVE  IsFiniteSet(Users(b)) /\ Cardinality(Users(b)) \in Nat
         /\ (Cardinality(Users(b)) = 0 <=> Users(b) = {})
<1>1. IsFiniteSet(Users(b))
  BY DiskAssumption, FS_Subset DEF Users
<1> QED
  BY <1>1, FS_CardinalityType, FS_EmptySet

(* bget() does not run out of buffers: a thread has one buffer at a time,  *)
(* and there are as many buffers as threads.                               *)
LEMMA BufferLeft ==
  ASSUME TypeInv, Cache, NEW t \in Threads, pc[t] = "user"
  PROVE  Recyclable # {}
<1> SUFFICES ASSUME Recyclable = {} PROVE FALSE
  OBVIOUS
<1> DEFINE T == {u \in Threads : buf[u] # NoBuf}
           g == [u \in T |-> buf[u]]
<1>1. ASSUME NEW b \in Buffers
      PROVE  \E u \in T : buf[u] = b
  <2>1. refcnt[b] # 0 /\ refcnt[b] = Cardinality(Users(b))
    BY DEF Recyclable, Cache
  <2>2. Users(b) # {}
    BY <2>1, UsersFinite
  <2> QED
    BY <2>2, DiskAssumption, ZenonT(40) DEF Users
<1>2. g \in Surjection(T, Buffers)
  <2>1. g \in [T -> Buffers]
    BY ZenonT(40) DEF TypeInv
  <2>2. \A b \in Buffers : \E u \in T : g[u] = b
    BY <1>1
  <2> QED
    BY <2>1, <2>2 DEF Surjection
<1>3. T \subseteq Threads /\ t \notin T
  BY DEF Cache
<1> HIDE DEF g, T
<1>4. IsFiniteSet(Threads) /\ IsFiniteSet(T) /\ Cardinality(T) <= Cardinality(Threads)
      /\ (Cardinality(Threads) = Cardinality(T) => Threads = T)
  BY <1>3, DiskAssumption, FS_Subset
<1>5. Cardinality(Buffers) <= Cardinality(T)
  BY <1>2, <1>4, FS_Surjection
<1>6. /\ Cardinality(Buffers) \in Nat /\ Cardinality(T) \in Nat
      /\ Cardinality(Threads) \in Nat /\ Cardinality(Threads) <= Cardinality(Buffers)
  BY <1>4, DiskAssumption, FS_CardinalityType, ZenonT(40)
<1> QED
  BY <1>3, <1>4, <1>5, <1>6

(* A request that stays where it is, and one that is made *)
Stays(t) ==
  /\ pc'[t] \in Wanting <=> pc[t] \in Wanting
  /\ pc[t] \in Wanting \cup Flying =>
       /\ op'[t] = op[t] /\ idx0'[t] = idx0[t] /\ buf'[t] = buf[t]
       /\ blockno'[buf[t]] = blockno[buf[t]] /\ valid'[buf[t]] = valid[buf[t]]
ToRead(t) ==
  /\ pc[t] \notin Wanting \cup Flying /\ pc'[t] \in Wanting
  /\ op'[t] = "read" /\ ~valid'[buf'[t]]

(* Nothing is written, and what is valid was so before. *)
LEMMA ContentsIdle ==
  ASSUME Contents, InFlight' = InFlight, Unanswered' = Unanswered,
         UNCHANGED <<platter, latest, data>>,
         \A t \in Threads : Stays(t) \/ ToRead(t),
         \A t \in Threads : pc'[t] = "hold" => valid'[buf'[t]],
         \A b \in Buffers : valid'[b] => valid[b] /\ blockno'[b] = blockno[b]
  PROVE  Contents'
<1>1. \A t \in Threads : t \in InFlight <=> pc[t] \in Flying
  BY DEF InFlight, Flying
<1>2. \A t \in Threads : t \in InFlight <=> pc'[t] \in Flying
  BY ZenonT(40) DEF InFlight, Flying
<1>3. ASSUME NEW t \in Threads, Stays(t)
      PROVE  (Pending(t)' <=> Pending(t)) /\ (Writing(t) => Writing(t)')
             /\ (pc'[t] \in Wanting \cup Flying <=> pc[t] \in Wanting \cup Flying)
  <2>1. Pending(t)' <=> Pending(t)
    BY <1>1, <1>3 DEF Pending, Stays
  <2>2. Pending(t) => op'[t] = op[t]
    BY <1>1, <1>3 DEF Pending, Stays
  <2>3. pc'[t] \in Wanting \cup Flying <=> pc[t] \in Wanting \cup Flying
    BY <1>1, <1>2, <1>3, ZenonT(40) DEF Stays
  <2> QED
    BY <2>1, <2>2, <2>3, ZenonT(40) DEF Writing
<1>4. ASSUME NEW k \in Blocks, platter'[k] # latest'[k]
      PROVE  \E t \in Threads : Writing(t)' /\ blockno'[buf'[t]] = k
  <2>1. PICK t \in Threads : Writing(t) /\ blockno[buf[t]] = k
    BY <1>4, ZenonT(40) DEF Contents
  <2>2. pc[t] \in Wanting \cup Flying
    BY <1>1, <2>1 DEF Writing, Pending
  <2>3. Stays(t)
    BY <2>2, ZenonT(40) DEF ToRead
  <2>4. buf'[t] = buf[t] /\ blockno'[buf[t]] = blockno[buf[t]]
    BY <2>2, <2>3, ZenonT(40) DEF Stays
  <2> QED
    BY <1>3, <2>1, <2>3, <2>4, ZenonT(40)
<1>5. \A b \in Buffers : valid'[b] => blockno'[b] # NoBlock /\ data'[b] = latest'[blockno'[b]]
  BY ZenonT(40) DEF Contents
<1>6. ASSUME NEW t \in Threads
      PROVE  /\ pc'[t] \in Wanting \cup Flying => (valid'[buf'[t]] <=> op'[t] = "write")
             /\ t \in InFlight' /\ ~Pending(t)' => data'[buf'[t]] = latest'[blockno'[buf'[t]]]
  <2>1. CASE Stays(t)
    <3>1. pc'[t] \in Wanting \cup Flying <=> pc[t] \in Wanting \cup Flying
      BY <1>3, <2>1, ZenonT(40)
    <3>2. pc[t] \in Wanting \cup Flying => (valid[buf[t]] <=> op[t] = "write")
      BY DEF Contents
    <3>3. t \in InFlight /\ ~Pending(t) => data[buf[t]] = latest[blockno[buf[t]]]
      BY ZenonT(40) DEF Contents
    <3>4. pc[t] \in Wanting \cup Flying =>
            /\ op'[t] = op[t] /\ buf'[t] = buf[t]
            /\ blockno'[buf[t]] = blockno[buf[t]] /\ valid'[buf[t]] = valid[buf[t]]
      BY <2>1, ZenonT(40) DEF Stays
    <3>5. Pending(t)' <=> Pending(t)
      BY <1>3, <2>1
    <3> QED
      BY <1>1, <3>1, <3>2, <3>3, <3>4, <3>5, ZenonT(40)
  <2>2. CASE ToRead(t)
    <3>1. t \notin InFlight
      BY <1>1, <2>2 DEF ToRead
    <3> QED
      BY <2>2, <3>1 DEF ToRead
  <2> QED
    BY <2>1, <2>2, ZenonT(40)
<1> QED
  BY <1>4, <1>5, <1>6, ZenonT(40) DEF Contents

(* Two threads that hold locks hold different buffers and blocks. *)
LEMMA OwnBuffer ==
  ASSUME TypeInv, Cache, NEW t \in Threads, pc[t] \in Holding
  PROVE  /\ buf[t] \in Buffers /\ blockno[buf[t]] \in Blocks /\ owner[buf[t]] = t
         /\ \A u \in Threads : u # t /\ pc[u] \in Holding =>
              buf[u] # buf[t] /\ blockno[buf[u]] # blockno[buf[t]]
<1>1. "user" \notin Holding
  BY DEF Holding, Wanting, Flying
<1>2. ASSUME NEW u \in Threads, pc[u] \in Holding
      PROVE  buf[u] \in Buffers /\ blockno[buf[u]] \in Blocks /\ owner[buf[u]] = u
             /\ blockno[buf[u]] # NoBlock
  BY <1>1, <1>2 DEF TypeInv, Cache
<1> QED
  BY <1>2 DEF Cache

(* bget() keeps the invariant: a recycled buffer has no users and is       *)
(* marked invalid.                                                         *)
LEMMA BgetInv ==
  ASSUME IInv, NEW t \in Threads, NEW k \in Blocks, Bget(t, k)
  PROVE  IInv'
<1>1. /\ pc[t] = "user" /\ pc' = [pc EXCEPT ![t] = "acquiresleep"]
      /\ UNCHANGED <<bufVars, ringVars, vdisk_lock, NUM, deviceVars, op, idx0, latest>>
  BY ZenonT(40) DEF Bget, Goto
<1>2. TypeInv /\ Cache /\ Rings /\ Contents /\ panic = "no"
  BY ZenonT(40) DEF IInv
<1>3. Recyclable # {} /\ buf[t] = NoBuf
  BY <1>1, <1>2, BufferLeft DEF Cache
<1>4. panic' = "no"
  BY <1>2, <1>3, ZenonT(40) DEF Bget
<1>5. PICK b \in Buffers :
        /\ buf' = [buf EXCEPT ![t] = b]
        /\ blockno' = [blockno EXCEPT ![b] = k]
        /\ refcnt' = [refcnt EXCEPT ![b] = @ + 1]
        /\ \/ blockno[b] = k /\ valid' = valid
           \/ Cached(k) = {} /\ refcnt[b] = 0 /\ valid' = [valid EXCEPT ![b] = FALSE]
  <2>1. CASE Cached(k) # {}
    <3>1. PICK b \in Cached(k) :
            /\ buf' = [buf EXCEPT ![t] = b]
            /\ blockno' = [blockno EXCEPT ![b] = k]
            /\ refcnt' = [refcnt EXCEPT ![b] = @ + 1]
            /\ valid' = valid
      BY <2>1, ZenonT(40) DEF Bget
    <3> QED
      BY <3>1, ZenonT(40) DEF Cached
  <2>2. CASE Cached(k) = {}
    <3>1. PICK b \in Recyclable :
            /\ buf' = [buf EXCEPT ![t] = b]
            /\ blockno' = [blockno EXCEPT ![b] = k]
            /\ refcnt' = [refcnt EXCEPT ![b] = 1]
            /\ valid' = [valid EXCEPT ![b] = FALSE]
      BY <1>3, <2>2, ZenonT(40) DEF Bget, Invalid
    <3>2. b \in Buffers /\ refcnt[b] = 0
      BY DEF Recyclable
    <3>3. refcnt' = [refcnt EXCEPT ![b] = @ + 1]
      BY <3>1, <3>2
    <3> QED
      BY <2>2, <3>1, <3>2, <3>3, ZenonT(40)
  <2> QED
    BY <2>1, <2>2
<1>6. /\ buf'[t] = b /\ blockno'[b] = k /\ pc'[t] = "acquiresleep"
      /\ \A u \in Threads : u # t => pc'[u] = pc[u] /\ buf'[u] = buf[u]
      /\ \A c \in Buffers : c # b => blockno'[c] = blockno[c] /\ valid'[c] = valid[c]
                                     /\ refcnt'[c] = refcnt[c]
      /\ refcnt'[b] = Cardinality(Users(b)) + 1
  BY <1>1, <1>2, <1>5 DEF TypeInv, Cache
(* Either the buffer was the one of the block, or nobody used it. *)
<1>7. \/ blockno[b] = k /\ valid'[b] = valid[b]
      \/ Users(b) = {} /\ ~valid'[b] /\ \A c \in Buffers : blockno[c] # k
  <2>1. CASE blockno[b] = k /\ valid' = valid
    BY <2>1
  <2>2. CASE Cached(k) = {} /\ refcnt[b] = 0 /\ valid' = [valid EXCEPT ![b] = FALSE]
    <3>1. Users(b) = {}
      BY <1>2, <2>2, UsersFinite DEF Cache
    <3>2. ~valid'[b]
      BY <1>2, <2>2 DEF TypeInv
    <3> QED
      BY <2>2, <3>1, <3>2, ZenonT(40) DEF Cached
  <2> QED
    BY <1>5, <2>1, <2>2
<1>8. \A u \in Threads : u # t /\ buf[u] # NoBuf =>
        blockno'[buf[u]] = blockno[buf[u]] /\ valid'[buf[u]] = valid[buf[u]]
  <2> TAKE u \in Threads
  <2> HAVE u # t /\ buf[u] # NoBuf
  <2>1. buf[u] \in Buffers /\ (buf[u] = b => u \in Users(b))
    BY <1>2 DEF TypeInv, Users
  <2> QED
    BY <1>6, <1>7, <2>1, Zenon

<1>9. TypeInv'
  <2>1. "acquiresleep" \in Labels
    BY DEF Labels, Waiting
  <2>2. /\ blockno' \in [Buffers -> Blocks \cup {NoBlock}]
        /\ refcnt' \in [Buffers -> Nat]
        /\ pc' \in [Threads -> Labels]
        /\ buf' \in [Threads -> Buffers \cup {NoBuf}]
    BY <1>1, <1>2, <1>5, <2>1 DEF TypeInv
  <2>3. valid' \in [Buffers -> BOOLEAN]
    BY <1>2, <1>5, ZenonT(40) DEF TypeInv
  <2> QED
    BY <1>1, <1>2, <2>2, <2>3, SameDescs, ZenonT(40)
       DEF TypeInv, bufVars, ringVars, deviceVars
<1>10. Cache'
  <2>1. \A c \in Buffers : c # b => Users(c)' = Users(c)
    BY <1>3, <1>6, DiskAssumption, ZenonT(40) DEF Users
  <2>2. Users(b)' = Users(b) \cup {t} /\ t \notin Users(b)
    BY <1>3, <1>6, DiskAssumption, ZenonT(40) DEF Users
  <2>3. Cardinality(Users(b) \cup {t}) = Cardinality(Users(b)) + 1
    BY <2>2, UsersFinite, FS_AddElement, ZenonT(40)
  <2>4. \A c \in Buffers : refcnt'[c] = Cardinality(Users(c)')
    <3> TAKE c \in Buffers
    <3>1. CASE c = b
      BY <1>6, <2>2, <2>3, <3>1, ZenonT(40)
    <3>2. CASE c # b
      <4>1. refcnt[c] = Cardinality(Users(c))
        BY <1>2, RefIs, ZenonT(40)
      <4> QED
        BY <1>6, <2>1, <3>2, <4>1, ZenonT(40)
    <3> QED
      BY <3>1, <3>2
  <2>5. \A c, d \in Buffers : blockno'[c] = blockno'[d] /\ blockno'[c] # NoBlock => c = d
    BY <1>2, <1>6, <1>7 DEF Cache
  <2>6. "user" \notin Holding /\ "acquiresleep" \notin Holding
    BY ZenonT(40) DEF Holding, Wanting, Flying
  <2>7. \A u \in Threads : /\ pc'[u] = "user" <=> buf'[u] = NoBuf
                           /\ buf'[u] # NoBuf => blockno'[buf'[u]] # NoBlock
                           /\ pc'[u] \in Holding => owner'[buf'[u]] = u
    <3> TAKE u \in Threads
    <3>1. CASE u = t
      BY <1>6, <2>6, <3>1, DiskAssumption, ZenonT(40)
    <3>2. CASE u # t
      BY <1>1, <1>2, <1>6, <1>8, <3>2 DEF Cache, bufVars
    <3> QED
      BY <3>1, <3>2, ZenonT(40)
  <2>8. \A c \in Buffers : owner'[c] # NoThread =>
                             buf'[owner'[c]] = c /\ pc'[owner'[c]] \in Holding
    <3> TAKE c \in Buffers
    <3> HAVE owner'[c] # NoThread
    <3>1. owner' = owner /\ owner[c] \in Threads
      BY <1>1, <1>2 DEF TypeInv, bufVars
    <3>2. buf[owner[c]] = c /\ pc[owner[c]] \in Holding
      BY <1>2, <3>1, ZenonT(40) DEF Cache
    <3> QED
      BY <1>1, <1>6, <2>6, <3>1, <3>2, ZenonT(40)
  <2> QED
    BY <2>4, <2>5, <2>7, <2>8, ZenonT(40) DEF Cache
<1>11. InFlight' = InFlight
  BY <1>1, <1>6, ZenonT(40) DEF InFlight
<1>12. \A u \in InFlight : u \in Threads /\ u # t /\ buf[u] # NoBuf
  BY <1>1, <1>2, ZenonT(40) DEF InFlight, Cache
<1>13. Rings'
  BY <1>1, <1>2, <1>6, <1>8, <1>11, <1>12, RingsFrame, ZenonT(40)
     DEF bufVars, deviceVars
<1>14. Contents'
  <2>1. Unanswered' = Unanswered
    BY <1>1 DEF Unanswered, ringVars, deviceVars
  <2>2. \A u \in Threads : Stays(u)
    <3> TAKE u \in Threads
    <3>1. CASE u = t
      BY <1>1, <1>6, <3>1, ZenonT(40) DEF Stays, Wanting, Flying
    <3>2. CASE u # t
      <4>1. pc[u] \in Wanting \cup Flying => buf[u] # NoBuf
        BY <1>2, ZenonT(40) DEF Cache, Wanting, Flying
      <4> QED
        BY <1>1, <1>6, <1>8, <3>2, <4>1 DEF Stays
    <3> QED
      BY <3>1, <3>2
  <2>3. \A u \in Threads : pc'[u] = "hold" => valid'[buf'[u]]
    <3> TAKE u \in Threads
    <3> HAVE pc'[u] = "hold"
    <3>1. u # t
      BY <1>6
    <3>2. pc[u] = "hold" /\ valid[buf[u]]
      BY <1>2, <1>6, <3>1, ZenonT(40) DEF Contents
    <3>3. buf[u] # NoBuf
      BY <1>2, <3>2, ZenonT(40) DEF Cache
    <3> QED
      BY <1>6, <1>8, <3>1, <3>2, <3>3, ZenonT(40)
  <2>4. \A c \in Buffers : valid'[c] => valid[c] /\ blockno'[c] = blockno[c]
    BY <1>6, <1>7, ZenonT(40)
  <2> QED
    BY <1>1, <1>2, <1>11, <2>1, <2>2, <2>3, <2>4, ContentsIdle, ZenonT(40)
       DEF bufVars, deviceVars
<1> QED
  BY <1>4, <1>9, <1>10, <1>13, <1>14 DEF IInv

(* acquiresleep() keeps the invariant, whether it locks the buffer, waits, *)
(* or goes on to read.                                                     *)
LEMMA AcquiresleepInv ==
  ASSUME IInv, NEW t \in Threads, Acquiresleep(t)
  PROVE  IInv'
<1>1. /\ pc[t] = "acquiresleep"
      /\ UNCHANGED <<bcacheVars, data, ondisk, ringVars, NUM, deviceVars,
                     buf, idx0, latest, panic>>
  BY ZenonT(40) DEF Acquiresleep
<1>2. TypeInv /\ Cache /\ Rings /\ Contents /\ panic = "no"
  BY DEF IInv
<1>3. CASE owner[buf[t]] # NoThread
  <2>1. Goto(t, "asleep_lock") /\ UNCHANGED <<owner, op>>
    BY <1>3, ZenonT(40) DEF Acquiresleep
  <2>2. "asleep_lock" \in Labels /\ {pc[t], "asleep_lock"} \subseteq Waiting
    BY <1>1 DEF Labels, Waiting
  <2>3. pc' \in [Threads -> Labels] /\ \A u \in Threads : SameClass(u)
    BY <1>2, <2>1, <2>2, GotoClass, ZenonT(40)
  <2> QED
    BY <1>1, <2>1, <2>3, PcFrame DEF deviceVars, bufVars
<1>4. CASE owner[buf[t]] = NoThread
  <2> DEFINE b == buf[t]
             l == bread(b)
  <2>1. /\ owner' = [owner EXCEPT ![b] = t] /\ op' = [op EXCEPT ![t] = "read"]
        /\ pc' = [pc EXCEPT ![t] = l]
    BY <1>4, ZenonT(40) DEF Acquiresleep, Goto
  <2>2. b \in Buffers
    BY <1>1, <1>2 DEF Cache, TypeInv
  <2>3. /\ l \in Labels /\ l \in Holding /\ l # "user"
        /\ (valid[b] => l = "hold") /\ (~valid[b] => l = "rw")
    BY ZenonT(40) DEF bread, Labels, Holding, Wanting
  <2> HIDE DEF l
  <2>4. /\ TypeInv' /\ pc'[t] = l /\ op'[t] = "read" /\ owner'[b] = t
        /\ \A u \in Threads : u # t => pc'[u] = pc[u] /\ op'[u] = op[u]
        /\ \A c \in Buffers : c # b => owner'[c] = owner[c]
    <3>1. /\ owner' \in [Buffers -> Threads \cup {NoThread}]
          /\ pc' \in [Threads -> Labels] /\ op' \in [Threads -> {"read", "write"}]
      BY <1>2, <2>1, <2>3, ZenonT(40) DEF TypeInv
    <3>2. TypeInv'
      BY <1>1, <1>2, <3>1, SameDescs, ZenonT(40)
         DEF TypeInv, bcacheVars, ringVars, deviceVars
    <3> QED
      BY <1>2, <2>1, <2>2, <3>2 DEF TypeInv
  <2>5. Cache'
    <3>1. blockno' = blockno /\ refcnt' = refcnt /\ buf' = buf
      BY <1>1 DEF bcacheVars
    <3>2. \A c \in Buffers : Users(c)' = Users(c)
      BY <3>1, ZenonT(40) DEF Users
    <3>3. \A u \in Threads : /\ pc'[u] = "user" <=> buf[u] = NoBuf
                             /\ pc'[u] \in Holding => owner'[buf[u]] = u
      <4> TAKE u \in Threads
      <4>1. CASE u = t
        BY <1>1, <1>2, <2>3, <2>4, <4>1, ZenonT(40) DEF Cache
      <4>2. CASE u # t
        <5>1. pc[u] \in Holding => owner[buf[u]] = u /\ buf[u] # b /\ buf[u] \in Buffers
          <6>1. "user" \notin Holding
            BY DEF Holding, Wanting, Flying
          <6> QED
            BY <1>2, <1>4, <6>1, DiskAssumption DEF Cache, TypeInv
        <5>2. pc'[u] = pc[u] /\ (pc[u] = "user" <=> buf[u] = NoBuf)
          BY <1>2, <2>4, <4>2, ZenonT(40) DEF Cache
        <5> QED
          BY <2>4, <5>1, <5>2, ZenonT(40)
      <4> QED
        BY <4>1, <4>2
    <3>4. \A c \in Buffers : owner'[c] # NoThread =>
                               buf[owner'[c]] = c /\ pc'[owner'[c]] \in Holding
      <4> TAKE c \in Buffers
      <4> HAVE owner'[c] # NoThread
      <4>1. CASE c = b
        BY <2>3, <2>4, <4>1, ZenonT(40)
      <4>2. CASE c # b
        <5>1. owner'[c] = owner[c] /\ owner[c] \in Threads
          BY <1>2, <2>4, <4>2 DEF TypeInv
        <5>2. buf[owner[c]] = c /\ pc[owner[c]] \in Holding
          BY <1>2, <5>1, ZenonT(40) DEF Cache
        <5> QED
          BY <2>4, <4>2, <5>1, <5>2, ZenonT(40)
      <4> QED
        BY <4>1, <4>2, ZenonT(40)
    <3>5. \A c, d \in Buffers : blockno'[c] = blockno'[d] /\ blockno'[c] # NoBlock => c = d
      BY <1>2, <3>1, ZenonT(40) DEF Cache
    <3>6. \A c \in Buffers : refcnt'[c] = Cardinality(Users(c)')
      BY <1>2, <3>1, <3>2, RefIs, ZenonT(40)
    <3>7. \A u \in Threads : buf[u] # NoBuf => blockno'[buf[u]] # NoBlock
      BY <1>2, <3>1, ZenonT(40) DEF Cache
    <3> QED
      BY <3>1, <3>3, <3>4, <3>5, <3>6, <3>7, ZenonT(40) DEF Cache
  <2>6. InFlight' = InFlight /\ t \notin InFlight
    BY <1>1, <2>3, <2>4, ZenonT(40) DEF InFlight
  <2>7. Rings'
    <3>1. \A u \in InFlight : u \in Threads /\ u # t
      BY <2>6, ZenonT(40) DEF InFlight
    <3> QED
      BY <1>1, <1>2, <2>4, <2>6, <3>1, RingsFrame, ZenonT(40)
         DEF bcacheVars, deviceVars
  <2>8. Contents'
    <3>1. Unanswered' = Unanswered
      BY <1>1 DEF Unanswered, ringVars, deviceVars
    <3>2. ASSUME NEW u \in Threads PROVE Stays(u) \/ ToRead(u)
      <4>1. CASE u # t
        BY <1>1, <2>4, <4>1, ZenonT(40) DEF Stays, bcacheVars
      <4>2. CASE u = t /\ valid[b]
        <5>1. pc'[t] = "hold"
          BY <2>3, <2>4, <4>2, ZenonT(40)
        <5> QED
          BY <1>1, <4>2, <5>1, ZenonT(40) DEF Stays, Wanting, Flying
      <4>3. CASE u = t /\ ~valid[b]
        <5>1. pc'[t] = "rw" /\ ~valid'[buf'[t]]
          BY <1>1, <2>3, <2>4, <4>3, ZenonT(40) DEF bcacheVars
        <5> QED
          BY <1>1, <2>4, <4>3, <5>1, ZenonT(40) DEF ToRead, Wanting, Flying
      <4> QED
        BY <4>1, <4>2, <4>3
    <3>3. \A u \in Threads : pc'[u] = "hold" => valid'[buf'[u]]
      BY <1>1, <1>2, <2>3, <2>4 DEF Contents, bcacheVars
    <3> QED
      BY <1>1, <1>2, <2>6, <3>1, <3>2, <3>3, ContentsIdle, ZenonT(40)
         DEF bcacheVars, deviceVars
  <2> QED
    BY <1>1, <1>2, <2>4, <2>5, <2>7, <2>8, ZenonT(40) DEF IInv
<1> QED
  BY <1>3, <1>4, ZenonT(40)

(* brelse() gives its reference back and keeps the invariant. *)
LEMMA BrelseInv ==
  ASSUME IInv, NEW t \in Threads, Brelse(t)
  PROVE  IInv'
<1>0. PICK b : b = buf[t]
  OBVIOUS
<1>1. /\ pc[t] = "brelse" /\ refcnt' = [refcnt EXCEPT ![b] = @ - 1]
      /\ buf' = [buf EXCEPT ![t] = NoBuf] /\ pc' = [pc EXCEPT ![t] = "user"]
      /\ UNCHANGED <<blockno, valid, bufVars, ringVars, NUM, deviceVars, op,
                     idx0, latest, panic>>
  BY <1>0, ZenonT(40) DEF Brelse, Goto
<1>2. TypeInv /\ Cache /\ Rings /\ Contents /\ panic = "no"
  BY DEF IInv
<1>3. b \in Buffers /\ b # NoBuf
  <2>1. b # NoBuf
    BY <1>0, <1>1, <1>2, ZenonT(40) DEF Cache
  <2>2. b \in Buffers \cup {NoBuf}
    BY <1>0, <1>2, ZenonT(40) DEF TypeInv
  <2> QED
    BY <2>1, <2>2, ZenonT(40)
<1>4. t \in Users(b) /\ IsFiniteSet(Users(b))
      /\ Cardinality(Users(b) \ {t}) = Cardinality(Users(b)) - 1
      /\ Cardinality(Users(b) \ {t}) \in Nat
  <2>1. t \in Users(b)
    BY <1>0 DEF Users
  <2>2. IsFiniteSet(Users(b)) /\ IsFiniteSet(Users(b) \ {t})
    BY UsersFinite, FS_Subset, ZenonT(40)
  <2> QED
    BY <2>1, <2>2, FS_RemoveElement, FS_CardinalityType
<1>5. /\ pc'[t] = "user" /\ buf'[t] = NoBuf
      /\ refcnt'[b] = Cardinality(Users(b) \ {t})
      /\ \A u \in Threads : u # t => pc'[u] = pc[u] /\ buf'[u] = buf[u]
      /\ \A c \in Buffers : c # b => refcnt'[c] = refcnt[c]
  BY <1>1, <1>2, <1>3, <1>4 DEF TypeInv, Cache
<1>6. TypeInv'
  <2>1. "user" \in Labels
    BY DEF Labels
  <2>2. pc' \in [Threads -> Labels] /\ buf' \in [Threads -> Buffers \cup {NoBuf}]
    BY <1>1, <1>2, <2>1 DEF TypeInv
  <2>3. refcnt' \in [Buffers -> Nat]
    <3>1. refcnt[b] - 1 \in Nat
      <4>1. refcnt[b] = Cardinality(Users(b))
        BY <1>2, <1>3, ZenonT(40) DEF Cache
      <4>2. Cardinality(Users(b)) - 1 \in Nat
        BY <1>4
      <4> QED
        BY <4>1, <4>2, ZenonT(40)
    <3> QED
      BY <1>1, <1>2, <3>1, ZenonT(40) DEF TypeInv
  <2> QED
    BY <1>1, <1>2, <2>2, <2>3, SameDescs, ZenonT(40)
       DEF TypeInv, bufVars, ringVars, deviceVars
<1>7. "user" \notin Holding /\ "brelse" \notin Holding
  BY DEF Holding, Wanting, Flying
<1>8. Cache'
  <2>1. \A c \in Buffers : c # b => Users(c)' = Users(c)
    <3> TAKE c \in Buffers
    <3> HAVE c # b
    <3>1. c # NoBuf
      BY DiskAssumption
    <3>2. \A u \in Threads : buf'[u] = c <=> buf[u] = c
      BY <1>0, <1>5, <3>1
    <3> QED
      BY <3>2 DEF Users
  <2>2. Users(b)' = Users(b) \ {t}
    <3>1. \A u \in Threads : buf'[u] = b <=> buf[u] = b /\ u # t
      BY <1>0, <1>3, <1>5
    <3> QED
      BY <3>1, ZenonT(40) DEF Users
  <2>3. \A c \in Buffers : refcnt'[c] = Cardinality(Users(c)')
    <3> TAKE c \in Buffers
    <3>1. CASE c = b
      BY <1>5, <2>2, <3>1, ZenonT(40)
    <3>2. CASE c # b
      <4>1. refcnt[c] = Cardinality(Users(c))
        BY <1>2, RefIs
      <4> QED
        BY <1>5, <2>1, <3>2, <4>1, ZenonT(40)
    <3> QED
      BY <3>1, <3>2
  <2>4. \A u \in Threads : /\ pc'[u] = "user" <=> buf'[u] = NoBuf
                           /\ buf'[u] # NoBuf => blockno'[buf'[u]] # NoBlock
                           /\ pc'[u] \in Holding => owner'[buf'[u]] = u
    <3> TAKE u \in Threads
    <3>1. blockno' = blockno /\ owner' = owner
      BY <1>1, ZenonT(40) DEF bufVars
    <3>2. CASE u = t
      BY <1>5, <1>7, <3>2, ZenonT(40)
    <3>3. CASE u # t
      BY <1>2, <1>5, <3>1, <3>3, ZenonT(40) DEF Cache
    <3> QED
      BY <3>2, <3>3, ZenonT(40)
  <2>5. \A c \in Buffers : owner'[c] # NoThread =>
                             buf'[owner'[c]] = c /\ pc'[owner'[c]] \in Holding
    <3> TAKE c \in Buffers
    <3> HAVE owner'[c] # NoThread
    <3>1. owner' = owner /\ owner[c] \in Threads
      BY <1>1, <1>2 DEF TypeInv, bufVars
    <3>2. buf[owner[c]] = c /\ pc[owner[c]] \in Holding
      BY <1>2, <3>1 DEF Cache
    <3> QED
      BY <1>1, <1>5, <1>7, <3>1, <3>2, ZenonT(40)
  <2>6. \A c, d \in Buffers : blockno'[c] = blockno'[d] /\ blockno'[c] # NoBlock => c = d
    BY <1>1, <1>2, ZenonT(40) DEF Cache
  <2> QED
    BY <2>3, <2>4, <2>5, <2>6, ZenonT(40) DEF Cache
<1>9. InFlight' = InFlight /\ t \notin InFlight
  BY <1>1, <1>5 DEF InFlight
<1>10. Rings'
  <2>1. \A u \in InFlight : u \in Threads /\ u # t
    BY <1>9 DEF InFlight
  <2> QED
    BY <1>1, <1>2, <1>5, <1>9, <2>1, RingsFrame, ZenonT(40)
       DEF bufVars, deviceVars
<1>11. Contents'
  <2>1. Unanswered' = Unanswered
    BY <1>1 DEF Unanswered, ringVars, deviceVars
  <2>2. ASSUME NEW u \in Threads PROVE Stays(u)
    <3>1. CASE u # t
      BY <1>1, <1>5, <3>1, ZenonT(40) DEF Stays
    <3>2. CASE u = t
      BY <1>1, <1>5, <3>2, ZenonT(40) DEF Stays, Wanting, Flying
    <3> QED
      BY <3>1, <3>2, ZenonT(40)
  <2>3. \A u \in Threads : pc'[u] = "hold" => valid'[buf'[u]]
    BY <1>1, <1>2, <1>5, ZenonT(40) DEF Contents
  <2> QED
    BY <1>1, <1>2, <1>9, <2>1, <2>2, <2>3, ContentsIdle, ZenonT(40)
       DEF bufVars, deviceVars
<1> QED
  BY <1>1, <1>2, <1>6, <1>8, <1>10, <1>11 DEF IInv

(* releasesleep() unlocks a buffer that agrees with the last write, and    *)
(* keeps the invariant.                                                    *)
LEMMA ReleasesleepInv ==
  ASSUME IInv, NEW t \in Threads, Releasesleep(t)
  PROVE  IInv'
<1>0. PICK b : b = buf[t]
  OBVIOUS
<1>1. /\ pc[t] = "hold" /\ owner' = [owner EXCEPT ![b] = NoThread]
      /\ pc' = [u \in Threads |->
                 IF u = t THEN "brelse"
                 ELSE IF pc[u] = "asleep_lock" /\ buf[u] = b
                 THEN "acquiresleep" ELSE pc[u]]
      /\ UNCHANGED <<bcacheVars, data, ondisk, ringVars, NUM, deviceVars,
                     buf, op, idx0, latest>>
  BY <1>0, ZenonT(40) DEF Releasesleep
<1>2. TypeInv /\ Cache /\ Rings /\ Contents /\ panic = "no"
  BY DEF IInv
<1>3. pc[t] \in Holding
  BY <1>1, ZenonT(40) DEF Holding
<1>4. b \in Buffers /\ owner[b] = t
      /\ \A u \in Threads : u # t /\ pc[u] \in Holding => buf[u] # b
  BY <1>0, <1>2, <1>3, OwnBuffer
<1>5. panic' = "no"
  BY <1>0, <1>2, <1>4, ZenonT(40) DEF Releasesleep
<1>6. /\ pc'[t] = "brelse" /\ owner'[b] = NoThread
      /\ \A u \in Threads : u # t => \/ pc'[u] = pc[u]
                                     \/ pc[u] = "asleep_lock" /\ pc'[u] = "acquiresleep"
      /\ \A c \in Buffers : c # b => owner'[c] = owner[c]
  BY <1>1, <1>2, <1>4, ZenonT(40) DEF TypeInv
<1>7. TypeInv'
  <2>1. "brelse" \in Labels /\ "acquiresleep" \in Labels
    BY DEF Labels, Waiting
  <2>2. pc' \in [Threads -> Labels] /\ owner' \in [Buffers -> Threads \cup {NoThread}]
    BY <1>1, <1>2, <2>1, ZenonT(40) DEF TypeInv
  <2> QED
    BY <1>1, <1>2, <2>2, SameDescs DEF TypeInv, bcacheVars, ringVars, deviceVars
<1>8. ASSUME NEW u \in Threads, u # t
      PROVE  SameClass(u) /\ (pc'[u] \in Holding <=> pc[u] \in Holding)
  <2>1. SameClass(u)
    BY <1>6, <1>8, ZenonT(40) DEF SameClass, Wanting, Flying
  <2> QED
    BY <2>1, ZenonT(40) DEF SameClass, Holding
<1>9. "brelse" \notin Holding
  BY ZenonT(40) DEF Holding, Wanting, Flying
<1>10. Cache'
  <2>1. blockno' = blockno /\ refcnt' = refcnt /\ buf' = buf
    BY <1>1, ZenonT(40) DEF bcacheVars
  <2>2. \A c \in Buffers : Users(c)' = Users(c)
    BY <2>1 DEF Users
  <2>3. \A u \in Threads : /\ pc'[u] = "user" <=> buf[u] = NoBuf
                           /\ pc'[u] \in Holding => owner'[buf[u]] = u
    <3> TAKE u \in Threads
    <3>1. CASE u = t
      BY <1>0, <1>4, <1>6, <1>9, <3>1, DiskAssumption, ZenonT(40)
    <3>2. CASE u # t
      <4>1. (pc'[u] = "user" <=> pc[u] = "user") /\ (pc'[u] \in Holding <=> pc[u] \in Holding)
        BY <1>8, <3>2, ZenonT(40) DEF SameClass
      <4>2. pc[u] \in Holding => buf[u] # b /\ buf[u] \in Buffers /\ owner[buf[u]] = u
        BY <1>2, <1>4, <3>2, OwnBuffer, ZenonT(40)
      <4>3. pc[u] = "user" <=> buf[u] = NoBuf
        BY <1>2, ZenonT(40) DEF Cache
      <4> QED
        BY <1>6, <4>1, <4>2, <4>3, ZenonT(40)
    <3> QED
      BY <3>1, <3>2
  <2>4. \A c \in Buffers : owner'[c] # NoThread =>
                             buf[owner'[c]] = c /\ pc'[owner'[c]] \in Holding
    <3> TAKE c \in Buffers
    <3> HAVE owner'[c] # NoThread
    <3>1. c # b /\ owner'[c] = owner[c]
      BY <1>6, ZenonT(40)
    <3>2. owner[c] \in Threads /\ buf[owner[c]] = c /\ pc[owner[c]] \in Holding
      BY <1>2, <3>1 DEF Cache, TypeInv
    <3> QED
      BY <1>0, <1>8, <3>1, <3>2, ZenonT(40)
  <2>5. \A c, d \in Buffers : blockno'[c] = blockno'[d] /\ blockno'[c] # NoBlock => c = d
    BY <1>2, <2>1, ZenonT(40) DEF Cache
  <2>6. \A c \in Buffers : refcnt'[c] = Cardinality(Users(c)')
    BY <1>2, <2>1, <2>2, RefIs, ZenonT(40)
  <2>7. \A u \in Threads : buf[u] # NoBuf => blockno'[buf[u]] # NoBlock
    BY <1>2, <2>1, ZenonT(40) DEF Cache
  <2> QED
    BY <2>1, <2>3, <2>4, <2>5, <2>6, <2>7, ZenonT(40) DEF Cache
<1>11. InFlight' = InFlight /\ t \notin InFlight
  BY <1>1, <1>6, ZenonT(40) DEF InFlight
<1>12. Rings'
  BY <1>1, <1>2, <1>11, RingsFrame, ZenonT(40) DEF bcacheVars, deviceVars
<1>13. Contents'
  <2>1. Unanswered' = Unanswered
    BY <1>1, ZenonT(40) DEF Unanswered, ringVars, deviceVars
  <2>2. ASSUME NEW u \in Threads PROVE Stays(u)
    <3>1. CASE u # t
      BY <1>1, <1>8, <3>1, ZenonT(40) DEF Stays, SameClass, bcacheVars
    <3>2. CASE u = t
      BY <1>1, <1>6, <3>2 DEF Stays, Wanting, Flying
    <3> QED
      BY <3>1, <3>2
  <2>3. \A u \in Threads : pc'[u] = "hold" => valid'[buf'[u]]
    BY <1>1, <1>2, <1>6, ZenonT(40) DEF Contents, bcacheVars
  <2> QED
    BY <1>1, <1>2, <1>11, <2>1, <2>2, <2>3, ContentsIdle, ZenonT(40)
       DEF bcacheVars, deviceVars
<1> QED
  BY <1>2, <1>5, <1>7, <1>10, <1>12, <1>13 DEF IInv

(* bwrite() keeps the invariant: the new contents are the latest, and      *)
(* pending until they are on the disk.                                     *)
LEMMA BwriteInv ==
  ASSUME IInv, NEW t \in Threads, NEW d \in Data, Bwrite(t, d)
  PROVE  IInv'
<1>0. PICK b, k : b = buf[t] /\ k = blockno[b]
  OBVIOUS
<1>1. /\ pc[t] = "hold" /\ data' = [data EXCEPT ![b] = d]
      /\ latest' = [latest EXCEPT ![k] = d] /\ op' = [op EXCEPT ![t] = "write"]
      /\ pc' = [pc EXCEPT ![t] = "rw"]
      /\ UNCHANGED <<bcacheVars, owner, ondisk, ringVars, NUM, deviceVars, buf, idx0>>
  BY <1>0, ZenonT(40) DEF Bwrite, Goto
<1>2. TypeInv /\ Cache /\ Rings /\ Contents /\ panic = "no"
  BY DEF IInv
<1>3. pc[t] \in Holding /\ "rw" \in Holding /\ "rw" \in Labels /\ "rw" \in Wanting
  BY <1>1 DEF Holding, Labels, Wanting
<1>4. b \in Buffers /\ k \in Blocks /\ owner[b] = t
      /\ \A u \in Threads : u # t /\ pc[u] \in Holding => buf[u] # b /\ blockno[buf[u]] # k
  BY <1>0, <1>2, <1>3, OwnBuffer, ZenonT(40)
<1>5. panic' = "no"
  BY <1>0, <1>2, <1>4, ZenonT(40) DEF Bwrite
<1>6. TypeInv'
  <2>1. /\ data' \in [Buffers -> Data] /\ latest' \in [Blocks -> Data]
        /\ pc' \in [Threads -> Labels] /\ op' \in [Threads -> {"read", "write"}]
    BY <1>1, <1>2, <1>3, ZenonT(40) DEF TypeInv
  <2> QED
    BY <1>1, <1>2, <2>1, SameDescs, ZenonT(40)
       DEF TypeInv, bcacheVars, ringVars, deviceVars
<1>7. /\ pc'[t] = "rw" /\ op'[t] = "write" /\ data'[b] = d /\ latest'[k] = d
      /\ \A u \in Threads : u # t => pc'[u] = pc[u] /\ op'[u] = op[u]
      /\ \A c \in Buffers : c # b => data'[c] = data[c]
      /\ \A j \in Blocks : j # k => latest'[j] = latest[j]
  BY <1>1, <1>2, <1>4, ZenonT(40) DEF TypeInv
<1>8. Cache'
  BY <1>1, <1>2, <1>3, <1>7, CacheSame, ZenonT(40) DEF bcacheVars
<1>9. InFlight' = InFlight /\ t \notin InFlight
  BY <1>1, <1>7, ZenonT(40) DEF InFlight
<1>10. Rings'
  <2>1. \A u \in InFlight : u \in Threads /\ u # t
    BY <1>9, ZenonT(40) DEF InFlight
  <2> QED
    BY <1>1, <1>2, <1>7, <1>9, <2>1, RingsFrame, ZenonT(40)
       DEF bcacheVars, deviceVars
<1>11. Contents'
  <2>1. blockno' = blockno /\ valid' = valid /\ buf' = buf /\ platter' = platter
        /\ Unanswered' = Unanswered /\ idx0' = idx0
    BY <1>1 DEF Unanswered, ringVars, deviceVars, bcacheVars
  <2>2. ASSUME NEW u \in Threads, u # t
        PROVE  (Pending(u)' <=> Pending(u)) /\ (Writing(u)' <=> Writing(u))
    BY <1>7, <1>9, <2>1, <2>2, ZenonT(40) DEF Pending, Writing
  <2>3. Writing(t)' /\ Pending(t)' /\ ~Writing(t)
    BY <1>1, <1>3, <1>7, <1>9 DEF Writing, Pending, Wanting
  <2>4. \A j \in Blocks : platter'[j] # latest'[j] =>
          \E u \in Threads : Writing(u)' /\ blockno'[buf'[u]] = j
    <3> TAKE j \in Blocks
    <3> HAVE platter'[j] # latest'[j]
    <3>1. CASE j = k
      BY <1>0, <2>1, <2>3, <3>1, ZenonT(40)
    <3>2. CASE j # k
      <4>1. platter[j] # latest[j]
        BY <1>7, <2>1, <3>2, ZenonT(40)
      <4>2. PICK u \in Threads : Writing(u) /\ blockno[buf[u]] = j
        BY <1>2, <4>1 DEF Contents
      <4> QED
        BY <2>1, <2>2, <2>3, <4>2, ZenonT(40)
    <3> QED
      BY <3>1, <3>2, ZenonT(40)
  <2>5. \A c \in Buffers : valid[c] => blockno[c] # NoBlock /\ data'[c] = latest'[blockno[c]]
    <3> TAKE c \in Buffers
    <3> HAVE valid[c]
    <3>1. blockno[c] # NoBlock /\ blockno[c] \in Blocks /\ data[c] = latest[blockno[c]]
      BY <1>2 DEF Contents, TypeInv
    <3>2. c # b => blockno[c] # k
      BY <1>0, <1>2, <1>4, <3>1, ZenonT(40) DEF Cache
    <3> QED
      BY <1>0, <1>7, <3>1, <3>2, ZenonT(40)
  <2>6. ASSUME NEW u \in Threads
        PROVE  /\ pc'[u] = "hold" => valid[buf[u]]
               /\ pc'[u] \in Wanting \cup Flying => (valid[buf[u]] <=> op'[u] = "write")
               /\ u \in InFlight /\ ~Pending(u)' => data'[buf[u]] = latest'[blockno[buf[u]]]
    <3>1. CASE u = t
      BY <1>1, <1>2, <1>7, <2>3, <3>1, ZenonT(40) DEF Contents
    <3>2. CASE u # t
      <4>1. u \in InFlight => /\ buf[u] # b /\ blockno[buf[u]] # k
                              /\ buf[u] \in Buffers /\ blockno[buf[u]] \in Blocks
        <5>1. u \in InFlight => pc[u] \in Holding
          BY ZenonT(40) DEF InFlight, Holding, Flying
        <5> QED
          BY <1>2, <1>4, <3>2, <5>1, OwnBuffer, ZenonT(40)
      <4>2. u \in InFlight /\ ~Pending(u) => data[buf[u]] = latest[blockno[buf[u]]]
        BY <1>2, ZenonT(40) DEF Contents
      <4>3. /\ pc[u] = "hold" => valid[buf[u]]
            /\ pc[u] \in Wanting \cup Flying => (valid[buf[u]] <=> op[u] = "write")
        BY <1>2, ZenonT(40) DEF Contents
      <4> QED
        BY <1>7, <2>2, <3>2, <4>1, <4>2, <4>3, ZenonT(40)
    <3> QED
      BY <3>1, <3>2, ZenonT(40)
  <2> QED
    BY <1>9, <2>1, <2>4, <2>5, <2>6, ZenonT(40) DEF Contents
<1> QED
  BY <1>2, <1>5, <1>6, <1>8, <1>10, <1>11 DEF IInv

-----------------------------------------------------------------------------
(* The device and its handler *)

(* The first half of Rings, which these steps leave alone *)
Chains ==
  /\ \A t \in InFlight : Linked(t)
  /\ \A t, u \in InFlight : t # u => Chain(idx0[t]) \cap Chain(idx0[u]) = {}
  /\ \A d \in Descs : d \in free <=> \A t \in InFlight : d \notin Chain(idx0[t])

(* The chains of descriptors stay in a step that leaves descriptors and    *)
(* requests alone.                                                         *)
LEMMA ChainsFrame ==
  ASSUME Rings, InFlight' = InFlight, UNCHANGED <<free, desc, NUM, buf, op, idx0, blockno>>,
         \A t \in InFlight : info'[idx0[t]].b = info[idx0[t]].b
  PROVE  Chains'
<1>1. ASSUME NEW t \in InFlight
      PROVE  Linked(t)' /\ Chain(idx0[t])' = Chain(idx0[t])
  <2>1. t \in Threads /\ Linked(t)
    BY ZenonT(40) DEF Rings, InFlight
  <2> QED
    BY <2>1, LinkedFrame
<1>2. Descs' = Descs
  BY ZenonT(40) DEF Descs
<1>3. \A t \in InFlight : Linked(t)'
  BY <1>1, ZenonT(40)
<1>4. \A t, u \in InFlight : t # u => Chain(idx0[t])' \cap Chain(idx0[u])' = {}
  BY <1>1, ZenonT(40) DEF Rings
<1>5. \A d \in Descs : d \in free <=> \A t \in InFlight : d \notin Chain(idx0[t])'
  <2> TAKE d \in Descs
  <2>1. d \in free <=> \A t \in InFlight : d \notin Chain(idx0[t])
    BY ZenonT(40) DEF Rings
  <2> QED
    BY <1>1, <2>1, ZenonT(40)
<1> QED
  BY <1>2, <1>3, <1>4, <1>5, ZenonT(40) DEF Chains

(* Every request has its own first descriptor, and buffer. *)
LEMMA OwnRequest ==
  ASSUME TypeInv, Cache, Rings, NEW d \in Unseen
  PROVE  \E t \in InFlight :
           /\ t \in Threads /\ pc[t] \in Holding /\ idx0[t] = d /\ Linked(t)
           /\ \A u \in InFlight : u # t => idx0[u] # d /\ buf[u] # buf[t]
<1>1. \A u \in InFlight : u \in Threads /\ pc[u] \in Holding /\ Linked(u)
  BY ZenonT(40) DEF InFlight, Holding, Flying, Rings
<1>2. PICK t \in InFlight : idx0[t] = d
  BY ZenonT(40) DEF Rings
<1>3. \A u \in InFlight : idx0[u] \in Chain(idx0[u])
  BY ZenonT(40) DEF Chain
<1>4. \A u \in InFlight : u # t => idx0[u] # d
  BY <1>2, <1>3 DEF Rings
<1>5. \A u \in InFlight : u # t => buf[u] # buf[t]
  BY <1>1, OwnBuffer, ZenonT(40)
<1> QED
  BY <1>1, <1>2, <1>4, <1>5

(* The device takes a request from the available ring and keeps the        *)
(* invariant.                                                              *)
LEMMA DevFetchInv ==
  ASSUME IInv, DevFetch
  PROVE  IInv'
<1>0. PICK id : id = Head(avail)
  BY ZenonT(40)
<1>1. /\ avail # <<>> /\ working' = working \cup {id} /\ avail' = Tail(avail)
      /\ UNCHANGED <<data, info, used, platter, bcacheVars, owner, ondisk, free, desc, NUM,
                     pc, buf, op, idx0, latest, panic>>
  BY <1>0 DEF DevFetch, DeviceStep
<1>2. TypeInv /\ Cache /\ Rings /\ Contents /\ panic = "no"
  BY ZenonT(40) DEF IInv
<1>3. /\ id \in Rng(avail) /\ id \in Descs /\ Tail(avail) \in Seq(Descs)
      /\ NoDup(Tail(avail)) /\ Rng(Tail(avail)) = Rng(avail) \ {id}
  BY <1>0, <1>1, <1>2, HeadTail, ZenonT(40) DEF TypeInv, Rings
<1>4. TypeInv'
  BY <1>1, <1>2, <1>3, SameDescs, ZenonT(40) DEF TypeInv, bcacheVars
<1>5. (\A u \in Threads : SameClass(u)) /\ InFlight' = InFlight
  BY <1>1 DEF SameClass, InFlight
<1>6. Unanswered' = Unanswered /\ Unseen' = Unseen
  BY <1>1, <1>3, Zenon DEF Unanswered, Unseen
<1>7. Cache'
  BY <1>1, <1>2, <1>5, CacheFrame DEF bcacheVars
<1>8. Rings'
  <2>1. Chains'
    BY <1>1, <1>2, <1>5, ChainsFrame, ZenonT(40) DEF bcacheVars
  <2>2. NoDup(avail') /\ NoDup(used') /\ Rng(avail') \cap working' = {}
    BY <1>1, <1>2, <1>3, ZenonT(40) DEF Rings
  <2>3. Unanswered' \cap Rng(used') = {}
    BY <1>1, <1>2, <1>6, ZenonT(40) DEF Rings
  <2>4. \A d \in Unseen : \E t \in InFlight : idx0[t] = d
    BY <1>2, ZenonT(40) DEF Rings
  <2>5. \A t \in InFlight : /\ ondisk[buf[t]] <=> idx0[t] \in Unseen
                            /\ idx0[t] \notin Unanswered => info[idx0[t]].status = "ok"
    BY <1>2, ZenonT(40) DEF Rings
  <2>6. \A b \in Buffers : ondisk[b] => \E t \in InFlight : buf[t] = b
    BY <1>2, ZenonT(40) DEF Rings
  <2> QED
    BY <1>1, <1>5, <1>6, <2>1, <2>2, <2>3, <2>4, <2>5, <2>6, ZenonT(40)
       DEF Rings, Chains
<1>9. Contents'
  BY <1>1, <1>2, <1>5, <1>6, ContentsFrame DEF bcacheVars
<1> QED
  BY <1>1, <1>2, <1>4, <1>7, <1>8, <1>9 DEF IInv

(* virtio_disk_intr() handles an entry of the used ring: a request that    *)
(* the device has answered.                                                *)
LEMMA IntrEntryInv ==
  ASSUME IInv, IntrEntry
  PROVE  IInv'
<1>0. PICK id, b : id = Head(used) /\ b = info[id].b
  OBVIOUS
<1>1. /\ used # <<>> /\ used' = Tail(used) /\ ondisk' = [ondisk EXCEPT ![b] = FALSE]
      /\ pc' = WakeBuf(b)
      /\ panic' = IF info[id].status # "ok" THEN "virtio_disk_intr status" ELSE panic
      /\ UNCHANGED <<bcacheVars, owner, data, free, desc, info, avail, NUM, platter, working,
                     buf, op, idx0, latest>>
  BY <1>0, ZenonT(40) DEF IntrEntry, ThreadsUnchanged, deviceVars
<1>2. TypeInv /\ Cache /\ Rings /\ Contents /\ panic = "no"
  BY DEF IInv
<1>3. /\ id \in Rng(used) /\ id \in Descs /\ Tail(used) \in Seq(Descs)
      /\ NoDup(Tail(used)) /\ Rng(Tail(used)) = Rng(used) \ {id}
  BY <1>0, <1>1, <1>2, HeadTail, ZenonT(40) DEF TypeInv, Rings
<1>4. id \in Unseen /\ id \notin Unanswered
  BY <1>2, <1>3, ZenonT(40) DEF Unseen, Rings
<1>5. PICK t \in InFlight :
           /\ t \in Threads /\ pc[t] \in Holding /\ idx0[t] = id /\ Linked(t)
           /\ \A u \in InFlight : u # t => idx0[u] # id /\ buf[u] # buf[t]
  BY <1>2, <1>4, OwnRequest, ZenonT(40)
<1>6. b = buf[t] /\ b \in Buffers
  <2>1. b = buf[t]
    BY <1>0, <1>5, ZenonT(40) DEF Linked
  <2> QED
    BY <1>2, <1>5, <2>1, OwnBuffer
<1>7. panic' = "no"
  <2>1. info[id].status = "ok"
    BY <1>2, <1>4, <1>5, ZenonT(40) DEF Rings
  <2> QED
    BY <1>1, <1>2, <2>1, ZenonT(40)
<1>8. pc' \in [Threads -> Labels]
      /\ \A u \in Threads : pc'[u] = pc[u] \/ (pc[u] = "asleep_disk" /\ pc'[u] = "disk")
  <2>1. "disk" \in Labels
    BY DEF Labels, Holding, Flying
  <2>2. pc \in [Threads -> Labels]
    BY <1>2 DEF TypeInv
  <2> QED
    BY <1>1, <2>1, <2>2, ZenonT(40) DEF WakeBuf
<1>9. (\A u \in Threads : SameClass(u)) /\ InFlight' = InFlight
  <2>1. \A u \in Threads : SameClass(u)
    BY <1>8 DEF SameClass, Wanting, Flying
  <2> QED
    BY <2>1, SameInFlight
<1>10. TypeInv'
  <2>1. ondisk' \in [Buffers -> BOOLEAN]
    BY <1>1, <1>2, ZenonT(40) DEF TypeInv
  <2> QED
    BY <1>1, <1>2, <1>3, <1>8, <2>1, SameDescs, ZenonT(40)
       DEF TypeInv, bcacheVars
<1>11. Unanswered' = Unanswered /\ Unseen' = Unseen \ {id}
  <2>1. Unanswered' = Unanswered
    BY <1>1, ZenonT(40) DEF Unanswered
  <2> QED
    BY <1>1, <1>3, <1>4, <2>1, Zenon DEF Unseen
<1>12. Cache'
  BY <1>1, <1>2, <1>9, CacheFrame, ZenonT(40) DEF bcacheVars
<1>13. Rings'
  <2>1. Chains'
    BY <1>1, <1>2, <1>9, ChainsFrame, ZenonT(40) DEF bcacheVars
  <2>2. NoDup(avail') /\ NoDup(used') /\ Rng(avail') \cap working' = {}
    BY <1>1, <1>2, <1>3, ZenonT(40) DEF Rings
  <2>3. Unanswered' \cap Rng(used') = {}
    BY <1>1, <1>2, <1>3, <1>11, ZenonT(40) DEF Rings
  <2>4. \A d \in Unseen' : \E u \in InFlight : idx0[u] = d
    BY <1>2, <1>11, ZenonT(40) DEF Rings
  <2>5. /\ ondisk'[b] = FALSE
        /\ \A c \in Buffers : c # b => ondisk'[c] = ondisk[c]
    BY <1>1, <1>2, <1>6, ZenonT(40) DEF TypeInv
  <2>6. \A u \in InFlight : /\ ondisk'[buf[u]] <=> idx0[u] \in Unseen'
                            /\ idx0[u] \notin Unanswered => info[idx0[u]].status = "ok"
    <3> TAKE u \in InFlight
    <3>1. /\ ondisk[buf[u]] <=> idx0[u] \in Unseen
          /\ idx0[u] \notin Unanswered => info[idx0[u]].status = "ok"
      BY <1>2, ZenonT(40) DEF Rings
    <3>2. CASE u = t
      BY <1>5, <1>6, <1>11, <2>5, <3>1, <3>2
    <3>3. CASE u # t
      <4>1. buf[u] \in Buffers
        <5>1. u \in Threads /\ pc[u] \in Holding
          BY DEF InFlight, Holding, Flying
        <5> QED
          BY <1>2, <5>1, OwnBuffer, ZenonT(40)
      <4> QED
        BY <1>5, <1>6, <1>11, <2>5, <3>1, <3>3, <4>1, ZenonT(40)
    <3> QED
      BY <3>2, <3>3, ZenonT(40)
  <2>7. \A c \in Buffers : ondisk'[c] => \E u \in InFlight : buf[u] = c
    BY <1>2, <2>5, ZenonT(40) DEF Rings
  <2> QED
    BY <1>1, <1>9, <1>11, <2>1, <2>2, <2>3, <2>4, <2>6, <2>7, ZenonT(40)
       DEF Rings, Chains
<1>14. Contents'
  BY <1>1, <1>2, <1>9, <1>11, ContentsFrame, ZenonT(40) DEF bcacheVars
<1> QED
  BY <1>2, <1>7, <1>10, <1>12, <1>13, <1>14 DEF IInv

(* The device completes a request and keeps the invariant: what it writes  *)
(* or reads belongs to the one thread whose request it is.                 *)
LEMMA DevCompleteInv ==
  ASSUME IInv, NEW id \in Descs, DevComplete(id)
  PROVE  IInv'
<1>1. /\ id \in working /\ used' = Append(used, id) /\ working' = working \ {id}
      /\ UNCHANGED <<avail, bcacheVars, owner, ondisk, free, desc, NUM,
                     pc, buf, op, idx0, latest, panic>>
  BY ZenonT(40) DEF DevComplete, DeviceStep
<1>2. TypeInv /\ Cache /\ Rings /\ Contents /\ panic = "no"
  BY DEF IInv
<1>3. id \in Unanswered /\ id \in Unseen /\ id \notin Rng(used) /\ id \notin Rng(avail)
  BY <1>1, <1>2, ZenonT(40) DEF Unanswered, Unseen, Rings
<1>4. PICK t \in InFlight :
           /\ t \in Threads /\ pc[t] \in Holding /\ idx0[t] = id /\ Linked(t)
           /\ \A u \in InFlight : u # t => idx0[u] # id /\ buf[u] # buf[t]
  BY <1>2, <1>3, OwnRequest, ZenonT(40)
<1>5. PICK b, k : b = buf[t] /\ k = blockno[b]
  BY ZenonT(40)
<1>6. b \in Buffers /\ k \in Blocks
      /\ \A u \in Threads : u # t /\ pc[u] \in Holding => buf[u] # b /\ blockno[buf[u]] # k
  BY <1>2, <1>4, <1>5, OwnBuffer, ZenonT(40)
(* The device follows the chain to the buffer, the block and the status. *)
<1>7. /\ IF op[t] = "read"
         THEN data' = [data EXCEPT ![b] = platter[k]] /\ UNCHANGED platter
         ELSE platter' = [platter EXCEPT ![k] = data[b]] /\ UNCHANGED data
      /\ info' = [info EXCEPT ![id].status = "ok"]
  <2>1. /\ desc[id].op = op[t] /\ desc[id].sector = k /\ desc[desc[id].next].buf = b
        /\ desc[desc[desc[id].next].next].status = id
    BY <1>4, <1>5, ZenonT(40) DEF Linked
  <2> QED
    BY <2>1 DEF DevComplete
<1>8. /\ info' \in [Descs -> Info] /\ info'[id].status = "ok" /\ info'[id].b = info[id].b
      /\ \A d \in Descs : d # id => info'[d] = info[d]
  <2>1. info \in [Descs -> Info] /\ info[id] \in Info
    BY <1>2 DEF TypeInv
  <2>2. info' = [info EXCEPT ![id] = [info[id] EXCEPT !.status = "ok"]]
    BY <1>7
  <2>3. /\ [info[id] EXCEPT !.status = "ok"] \in Info
        /\ [info[id] EXCEPT !.status = "ok"].status = "ok"
        /\ [info[id] EXCEPT !.status = "ok"].b = info[id].b
    BY <2>1 DEF Info
  <2> QED
    BY <2>1, <2>2, <2>3, ZenonT(40)
<1>9. /\ used' \in Seq(Descs) /\ NoDup(used') /\ Rng(used') = Rng(used) \cup {id}
  <2>1. used \in Seq(Descs) /\ NoDup(used) /\ id \in Descs /\ id \notin Rng(used)
    BY <1>2, <1>3, ZenonT(40) DEF TypeInv, Rings
  <2>2. /\ Append(used, id) \in Seq(Descs) /\ NoDup(Append(used, id))
        /\ Rng(Append(used, id)) = Rng(used) \cup {id}
    BY <2>1, AppendNew, ZenonT(40)
  <2> QED
    BY <1>1, <2>2, ZenonT(40)
<1>10. TypeInv'
  <2>1. data' \in [Buffers -> Data] /\ platter' \in [Blocks -> Data]
    <3>1. /\ data \in [Buffers -> Data] /\ platter \in [Blocks -> Data]
          /\ data[b] \in Data /\ platter[k] \in Data
      BY <1>2, <1>6 DEF TypeInv
    <3>2. CASE op[t] = "read"
      BY <1>7, <3>1, <3>2
    <3>3. CASE op[t] # "read"
      BY <1>7, <3>1, <3>3
    <3> QED
      BY <3>2, <3>3
  <2>2. working' \subseteq Descs
    BY <1>1, <1>2, ZenonT(40) DEF TypeInv
  <2> QED
    BY <1>1, <1>2, <1>8, <1>9, <2>1, <2>2, SameDescs, ZenonT(40)
       DEF TypeInv, bcacheVars
<1>11. (\A u \in Threads : SameClass(u)) /\ InFlight' = InFlight
  BY <1>1 DEF SameClass, InFlight
<1>12. Unanswered' = Unanswered \ {id} /\ Unseen' = Unseen
  <2>1. Unanswered' = Unanswered \ {id}
    BY <1>1, <1>3, Zenon DEF Unanswered
  <2> QED
    BY <1>3, <1>9, <2>1, Zenon DEF Unseen
<1>13. Cache'
  BY <1>1, <1>2, <1>11, CacheFrame DEF bcacheVars
<1>14. Rings'
  <2>1. \A u \in InFlight : idx0[u] \in Descs
    BY <1>2 DEF InFlight, TypeInv
  <2>2. Chains'
    <3>1. \A u \in InFlight : info'[idx0[u]].b = info[idx0[u]].b
      BY <1>8, <2>1
    <3> QED
      BY <1>1, <1>2, <1>11, <3>1, ChainsFrame, ZenonT(40) DEF bcacheVars
  <2>3. NoDup(avail') /\ NoDup(used') /\ Rng(avail') \cap working' = {}
    BY <1>1, <1>2, <1>9, ZenonT(40) DEF Rings
  <2>4. Unanswered' \cap Rng(used') = {}
    BY <1>2, <1>9, <1>12, ZenonT(40) DEF Rings
  <2>5. \A d \in Unseen : \E u \in InFlight : idx0[u] = d
    BY <1>2, ZenonT(40) DEF Rings
  <2>6. \A u \in InFlight : /\ ondisk[buf[u]] <=> idx0[u] \in Unseen
                            /\ idx0[u] \notin Unanswered' => info'[idx0[u]].status = "ok"
    BY <1>2, <1>8, <1>12, <2>1, ZenonT(40) DEF Rings
  <2>7. \A c \in Buffers : ondisk[c] => \E u \in InFlight : buf[u] = c
    BY <1>2, ZenonT(40) DEF Rings
  <2> QED
    BY <1>1, <1>11, <1>12, <2>2, <2>3, <2>4, <2>5, <2>6, <2>7, ZenonT(40)
       DEF Rings, Chains
<1>15. Contents'
  <2>1. blockno' = blockno /\ valid' = valid /\ buf' = buf /\ latest' = latest
        /\ pc' = pc /\ op' = op /\ idx0' = idx0
    BY <1>1 DEF bcacheVars
  <2>2. ASSUME NEW u \in Threads, u # t
        PROVE  (Pending(u)' <=> Pending(u)) /\ (Writing(u)' <=> Writing(u))
    <3>1. u \in InFlight => idx0[u] # id
      BY <1>4, <2>2, ZenonT(40)
    <3> QED
      BY <1>11, <1>12, <2>1, <3>1, ZenonT(40) DEF Pending, Writing
  <2>3. Pending(t) /\ ~Pending(t)' /\ pc[t] \in Wanting \cup Flying
    BY <1>3, <1>4, <1>11, <1>12, <2>1, ZenonT(40)
       DEF Pending, InFlight, Wanting, Flying
  <2>4. valid[b] <=> op[t] = "write"
    BY <1>2, <1>4, <1>5, <2>3, ZenonT(40) DEF Contents
  <2>5. op[t] \in {"read", "write"}
    BY <1>2, <1>4, ZenonT(40) DEF TypeInv
  <2>6. ASSUME NEW u \in Threads, Pending(u), blockno[buf[u]] = k
        PROVE  u = t
    <3>1. pc[u] \in Holding
      BY <2>6, ZenonT(40) DEF Pending, InFlight, Holding, Flying
    <3> QED
      BY <1>6, <2>6, <3>1, ZenonT(40)
  (* What the buffer and the disk hold now is the latest contents. *)
  <2>7. /\ data'[b] = latest[k] /\ platter'[k] = latest[k]
        /\ \A c \in Buffers : c # b => data'[c] = data[c]
        /\ \A j \in Blocks : j # k => platter'[j] = platter[j]
        /\ valid[b] => data'[b] = data[b]
    <3>1. data \in [Buffers -> Data] /\ platter \in [Blocks -> Data]
      BY <1>2 DEF TypeInv
    <3>2. CASE op[t] = "read"
      <4>1. platter[k] = latest[k]
        BY <1>2, <1>6, <2>6, <3>2, ZenonT(40) DEF Contents, Writing
      <4> QED
        BY <1>6, <1>7, <2>4, <3>1, <3>2, <4>1, ZenonT(40)
    <3>3. CASE op[t] = "write"
      <4>1. data[b] = latest[k]
        BY <1>2, <1>5, <1>6, <2>4, <3>3, ZenonT(40) DEF Contents
      <4> QED
        BY <1>6, <1>7, <3>1, <3>3, <4>1, ZenonT(40)
    <3> QED
      BY <2>5, <3>2, <3>3, ZenonT(40)
  <2>8. \A j \in Blocks : platter'[j] # latest[j] =>
          \E u \in Threads : Writing(u)' /\ blockno[buf[u]] = j
    <3> TAKE j \in Blocks
    <3> HAVE platter'[j] # latest[j]
    <3>1. j # k /\ platter[j] # latest[j]
      BY <2>7, ZenonT(40)
    <3>2. PICK u \in Threads : Writing(u) /\ blockno[buf[u]] = j
      BY <1>2, <3>1 DEF Contents
    <3> QED
      BY <1>5, <2>2, <3>1, <3>2, ZenonT(40)
  <2>9. \A c \in Buffers : valid[c] => blockno[c] # NoBlock /\ data'[c] = latest[blockno[c]]
    BY <1>2, <2>7, ZenonT(40) DEF Contents
  <2>10. ASSUME NEW u \in Threads
         PROVE  /\ pc[u] = "hold" => valid[buf[u]]
                /\ pc[u] \in Wanting \cup Flying => (valid[buf[u]] <=> op[u] = "write")
    BY <1>2, ZenonT(40) DEF Contents
  <2>11. ASSUME NEW u \in Threads, u \in InFlight, ~Pending(u)'
         PROVE  data'[buf[u]] = latest[blockno[buf[u]]]
    <3>1. CASE u = t
      BY <1>5, <2>7, <3>1, ZenonT(40)
    <3>2. CASE u # t
      <4>1. buf[u] \in Buffers /\ buf[u] # b
        <5>1. pc[u] \in Holding
          BY <2>11, ZenonT(40) DEF InFlight, Holding, Flying
        <5> QED
          BY <1>2, <1>6, <3>2, <5>1, OwnBuffer, ZenonT(40)
      <4>2. data[buf[u]] = latest[blockno[buf[u]]]
        BY <1>2, <2>2, <2>11, <3>2, ZenonT(40) DEF Contents
      <4> QED
        BY <2>7, <4>1, <4>2, ZenonT(40)
    <3> QED
      BY <3>1, <3>2
  <2> QED
    BY <1>11, <2>1, <2>8, <2>9, <2>10, <2>11, ZenonT(40) DEF Contents
<1> QED
  BY <1>1, <1>2, <1>10, <1>13, <1>14, <1>15 DEF IInv

-----------------------------------------------------------------------------
(* virtio_disk_rw() *)

(* With three descriptors free alloc3_desc() takes three different ones. *)
LEMMA Alloc3 ==
  ASSUME TypeInv, Cardinality(free) >= 3
  PROVE  \E i1, i2, i3 \in free :
           alloc3_desc = <<i1, i2, i3>> /\ i1 # i2 /\ i1 # i3 /\ i2 # i3
<1> DEFINE i1 == Min(free)
           i2 == Min(free \ {i1})
           i3 == Min(free \ {i1, i2})
           n  == Cardinality(free)
<1>1. free \subseteq Nat /\ IsFiniteSet(free) /\ n \in Nat /\ n >= 3
  <2>0. NUM \in Nat /\ Descs \subseteq Nat /\ free \subseteq Descs
    BY SizeType DEF TypeInv
  <2>1. IsFiniteSet(Descs)
    <3>1. 0 \in Int /\ NUM - 1 \in Int
      BY <2>0
    <3>2. IsFiniteSet(0 .. NUM - 1)
      BY <3>1, FS_Interval
    <3> QED
      BY <3>2 DEF Descs
  <2>2. IsFiniteSet(free)
    BY <2>0, <2>1, FS_Subset, ZenonT(40)
  <2>3. n \in Nat
    BY <2>2, FS_CardinalityType
  <2> QED
    BY <2>0, <2>2, <2>3, ZenonT(40)
<1>2. alloc3_desc = <<i1, i2, i3>>
  BY DEF alloc3_desc
<1>3. free # {}
  BY <1>1, FS_EmptySet DEF n
<1> HIDE DEF n
<1>4. i1 \in free
  BY <1>1, <1>3, MinIn
<1> HIDE DEF i1
<1>5. IsFiniteSet(free \ {i1}) /\ Cardinality(free \ {i1}) = n - 1
  BY <1>1, <1>4, FS_RemoveElement DEF n
<1>6. free \ {i1} # {} /\ free \ {i1} \subseteq Nat
  <2>1. Cardinality(free \ {i1}) # 0
    BY <1>1, <1>5
  <2>2. free \ {i1} # {}
    BY <2>1, FS_EmptySet, Zenon
  <2> QED
    BY <1>1, <2>2, ZenonT(40)
<1>7. i2 \in free \ {i1}
  BY <1>6, MinIn
<1> HIDE DEF i2
<1>8. Cardinality((free \ {i1}) \ {i2}) = n - 1 - 1
  BY <1>5, <1>7, FS_RemoveElement
<1>9. (free \ {i1}) \ {i2} = free \ {i1, i2}
  BY Zenon
<1>10. free \ {i1, i2} # {} /\ free \ {i1, i2} \subseteq Nat
  <2>1. Cardinality(free \ {i1, i2}) # 0
    <3>1. n - 1 - 1 # 0
      BY <1>1
    <3> QED
      BY <1>8, <1>9, <3>1, Zenon
  <2>2. free \ {i1, i2} # {}
    BY <2>1, FS_EmptySet, Zenon
  <2> QED
    BY <1>1, <2>2, ZenonT(40)
<1>11. i3 \in free \ {i1, i2}
  BY <1>10, MinIn
<1> HIDE DEF i3
<1>12. i2 \in free /\ i3 \in free /\ i1 # i2 /\ i1 # i3 /\ i2 # i3
  BY <1>7, <1>11
<1> QED
  BY <1>2, <1>4, <1>12, Zenon

(* virtio_disk_rw() takes three descriptors, links them, puts the request  *)
(* into the available ring and keeps the invariant.                        *)
LEMMA SubmitInv ==
  ASSUME IInv, NEW t \in Threads, Submit(t)
  PROVE  IInv'
<1>0. PICK b, k : b = buf[t] /\ k = blockno[b]
  OBVIOUS
<1>1. TypeInv /\ Cache /\ Rings /\ Contents /\ panic = "no"
  BY DEF IInv
<1>2. PICK i1, i2, i3 \in free :
        alloc3_desc = <<i1, i2, i3>> /\ i1 # i2 /\ i1 # i3 /\ i2 # i3
  BY <1>1, Alloc3 DEF Submit
<1> DEFINE d1 == [NoDesc EXCEPT !.next = i2, !.more = TRUE, !.op = op[t], !.sector = k]
           d2 == [NoDesc EXCEPT !.next = i3, !.more = TRUE, !.buf = b]
           d3 == [NoDesc EXCEPT !.status = i1]
           n1 == [b |-> b, status |-> "busy"]
<1>3. /\ pc[t] = "rw" /\ free' = free \ {i1, i2, i3}
      /\ desc' = [desc EXCEPT ![i1] = d1, ![i2] = d2, ![i3] = d3]
      /\ info' = [info EXCEPT ![i1] = n1]
      /\ ondisk' = [ondisk EXCEPT ![b] = TRUE]
      /\ avail' = Append(avail, i1)
      /\ idx0' = [idx0 EXCEPT ![t] = i1]
      /\ pc' = [pc EXCEPT ![t] = "asleep_disk"]
      /\ UNCHANGED <<bcacheVars, owner, data, used, NUM, platter, working, buf, op, latest,
                     panic>>
  BY <1>0, <1>2 DEF Submit, Goto, deviceVars
<1>4. pc[t] \in Holding /\ pc[t] \in Wanting /\ "asleep_disk" \in Holding
      /\ "asleep_disk" \in Labels
  BY <1>3, ZenonT(40) DEF Holding, Wanting, Flying, Labels
<1>5. b \in Buffers /\ k \in Blocks
      /\ \A u \in Threads : u # t /\ pc[u] \in Holding => buf[u] # b /\ blockno[buf[u]] # k
  BY <1>0, <1>1, <1>4, OwnBuffer, ZenonT(40)
<1>6. /\ i1 \in Descs /\ i2 \in Descs /\ i3 \in Descs /\ 0 \in Descs
      /\ op[t] \in {"read", "write"}
  BY <1>1, <1>2, SizeType DEF TypeInv
<1>7. /\ d1 \in Desc /\ d2 \in Desc /\ d3 \in Desc /\ n1 \in Info
      /\ d1.next = i2 /\ d1.more /\ d1.op = op[t] /\ d1.sector = k
      /\ d2.next = i3 /\ d2.more /\ d2.buf = b /\ ~d3.more /\ d3.status = i1
      /\ n1.b = b
  BY <1>5, <1>6, ZenonT(40) DEF NoDesc, Desc, Info
<1> HIDE DEF d1, d2, d3, n1
<1>8. /\ desc' \in [Descs -> Desc] /\ info' \in [Descs -> Info]
      /\ desc'[i1] = d1 /\ desc'[i2] = d2 /\ desc'[i3] = d3 /\ info'[i1] = n1
      /\ \A d \in Descs : d # i1 /\ d # i2 /\ d # i3 => desc'[d] = desc[d]
      /\ \A d \in Descs : d # i1 => info'[d] = info[d]
  <2>1. desc \in [Descs -> Desc] /\ info \in [Descs -> Info]
    BY <1>1, ZenonT(40) DEF TypeInv
  <2> QED
    BY <1>2, <1>3, <1>6, <1>7, <2>1, ZenonT(40)
<1>9. /\ pc'[t] = "asleep_disk" /\ idx0'[t] = i1 /\ ondisk'[b] = TRUE
      /\ \A u \in Threads : u # t => pc'[u] = pc[u] /\ idx0'[u] = idx0[u]
      /\ \A c \in Buffers : c # b => ondisk'[c] = ondisk[c]
  BY <1>1, <1>3, <1>5 DEF TypeInv
<1>10. InFlight' = InFlight \cup {t} /\ t \notin InFlight
  BY <1>3, <1>9 DEF InFlight
<1>11. \A u \in InFlight :
         /\ u \in Threads /\ u # t /\ pc[u] \in Holding /\ buf[u] # b /\ buf[u] \in Buffers
         /\ Linked(u) /\ idx0[u] \in Chain(idx0[u])
         /\ i1 \notin Chain(idx0[u]) /\ i2 \notin Chain(idx0[u]) /\ i3 \notin Chain(idx0[u])
         /\ idx0[u] # i1
  <2> TAKE u \in InFlight
  <2>1. u \in Threads /\ u # t /\ pc[u] \in Holding
    BY <1>10 DEF InFlight, Holding, Flying
  <2>2. buf[u] # b /\ buf[u] \in Buffers
    BY <1>1, <1>5, <2>1, OwnBuffer, ZenonT(40)
  <2>3. Linked(u) /\ \A d \in Descs : d \in free => d \notin Chain(idx0[u])
    BY <1>1, ZenonT(40) DEF Rings
  <2>4. idx0[u] \in Chain(idx0[u])
    BY ZenonT(40) DEF Chain
  <2> QED
    BY <1>6, <2>1, <2>2, <2>3, <2>4, ZenonT(40)
<1>12. i1 \notin Unseen
  BY <1>1, <1>11, ZenonT(40) DEF Rings
<1>13. /\ avail' \in Seq(Descs) /\ NoDup(avail') /\ Rng(avail') = Rng(avail) \cup {i1}
  <2>1. i1 \in Descs /\ i1 \notin Rng(avail) /\ NoDup(avail) /\ avail \in Seq(Descs)
    <3>1. NoDup(avail) /\ avail \in Seq(Descs)
      BY <1>1, ZenonT(40) DEF Rings, TypeInv
    <3>2. i1 \notin Rng(avail)
      BY <1>12, ZenonT(40) DEF Unseen, Unanswered
    <3> QED
      BY <1>6, <3>1, <3>2, ZenonT(40)
  <2>2. /\ Append(avail, i1) \in Seq(Descs) /\ NoDup(Append(avail, i1))
        /\ Rng(Append(avail, i1)) = Rng(avail) \cup {i1}
    BY <2>1, AppendNew
  <2> QED
    BY <1>3, <2>2, ZenonT(40)
<1>14. Unanswered' = Unanswered \cup {i1} /\ Unseen' = Unseen \cup {i1}
  <2>1. Unanswered' = Unanswered \cup {i1}
    BY <1>3, <1>13, Zenon DEF Unanswered
  <2> QED
    BY <1>3, <2>1, Zenon DEF Unseen
<1>15. TypeInv'
  <2>1. /\ pc' \in [Threads -> Labels] /\ idx0' \in [Threads -> Descs]
        /\ ondisk' \in [Buffers -> BOOLEAN] /\ free' \subseteq Descs
    BY <1>1, <1>3, <1>4, <1>6, ZenonT(40) DEF TypeInv
  <2> QED
    BY <1>1, <1>3, <1>8, <1>13, <2>1, SameDescs, ZenonT(40)
       DEF TypeInv, bcacheVars
<1>16. Cache'
  BY <1>1, <1>3, <1>4, <1>9, CacheSame DEF bcacheVars
<1>17. Linked(t)' /\ Chain(idx0[t])' = {i1, i2, i3}
  <2>1. Linked(t)'
    <3>1. op'[t] = op[t] /\ buf'[t] = b /\ blockno'[b] = k
      BY <1>0, <1>3, ZenonT(40) DEF bcacheVars
    <3> QED
      BY <1>2, <1>7, <1>8, <1>9, <3>1, ZenonT(40) DEF Linked
  <2>2. Chain(idx0[t])' = {idx0'[t], desc'[idx0'[t]].next, desc'[desc'[idx0'[t]].next].next}
    <3>1. desc'[i1].more /\ desc'[i2].more /\ desc'[i1].next = i2 /\ desc'[i2].next = i3
      BY <1>7, <1>8, ZenonT(40)
    <3>2. Chain(idx0[t])' = {i1} \cup ({i2} \cup {i3})
      BY <1>9, <3>1 DEF Chain
    <3> QED
      BY <1>9, <3>1, <3>2, ZenonT(40)
  <2> QED
    BY <1>7, <1>8, <1>9, <2>1, <2>2, ZenonT(40)
<1>18. ASSUME NEW u \in InFlight
       PROVE  Linked(u)' /\ Chain(idx0[u])' = Chain(idx0[u])
  <2>1. u \in Threads /\ Linked(u) /\ idx0'[u] = idx0[u]
    BY <1>9, <1>11, ZenonT(40)
  <2>2. \A d \in Chain(idx0[u]) : d \in Descs
    BY <1>1, <2>1, ChainIs, LinkedTypes, ZenonT(40)
  <2>3. \A d \in Chain(idx0[u]) : desc'[d] = desc[d]
    BY <1>8, <1>11, <2>2, ZenonT(40)
  <2>4. info'[idx0[u]] = info[idx0[u]]
    BY <1>8, <1>11, <2>2, ZenonT(40)
  <2>5. op' = op /\ buf' = buf /\ blockno' = blockno
    BY <1>3 DEF bcacheVars
  <2> QED
    BY <2>1, <2>3, <2>4, <2>5, LinkedFrame, ZenonT(40)

<1>19. Rings'
  <2>1. \A u \in InFlight' : Linked(u)'
    BY <1>10, <1>17, <1>18
  <2>2. \A u, v \in InFlight' : u # v => Chain(idx0[u])' \cap Chain(idx0[v])' = {}
    <3>1. \A u \in InFlight : Chain(idx0[u])' \cap {i1, i2, i3} = {}
      BY <1>11, <1>18, ZenonT(40)
    <3>2. \A u, v \in InFlight : u # v => Chain(idx0[u])' \cap Chain(idx0[v])' = {}
      BY <1>1, <1>18, ZenonT(40) DEF Rings
    <3> QED
      BY <1>10, <1>17, <3>1, <3>2
  <2>3. \A d \in Descs : d \in free' <=> \A u \in InFlight' : d \notin Chain(idx0[u])'
    <3> TAKE d \in Descs
    <3>1. d \in free <=> \A u \in InFlight : d \notin Chain(idx0[u])'
      <4>1. d \in free <=> \A u \in InFlight : d \notin Chain(idx0[u])
        BY <1>1, ZenonT(40) DEF Rings
      <4> QED
        BY <1>18, <4>1, ZenonT(40)
    <3>2. d \in free' <=> d \in free /\ d \notin {i1, i2, i3}
      BY <1>3, ZenonT(40)
    <3> QED
      BY <1>10, <1>17, <3>1, <3>2
  <2>4. NoDup(avail') /\ NoDup(used') /\ Rng(avail') \cap working' = {}
        /\ Unanswered' \cap Rng(used') = {}
    <3>1. NoDup(used) /\ Rng(avail) \cap working = {} /\ Unanswered \cap Rng(used) = {}
      BY <1>1, ZenonT(40) DEF Rings
    <3>2. i1 \notin working /\ i1 \notin Rng(used)
      BY <1>12 DEF Unseen, Unanswered
    <3> QED
      BY <1>3, <1>13, <1>14, <3>1, <3>2
  <2>5. \A d \in Unseen' : \E u \in InFlight' : idx0'[u] = d
    <3> TAKE d \in Unseen'
    <3>1. CASE d = i1
      BY <1>9, <1>10, <3>1
    <3>2. CASE d \in Unseen
      <4>1. PICK u \in InFlight : idx0[u] = d
        BY <1>1, <3>2, ZenonT(40) DEF Rings
      <4> QED
        BY <1>9, <1>10, <1>11, <4>1, ZenonT(40)
    <3> QED
      BY <1>14, <3>1, <3>2
  <2>6. ASSUME NEW u \in InFlight'
        PROVE  /\ ondisk'[buf'[u]] <=> idx0'[u] \in Unseen'
               /\ idx0'[u] \notin Unanswered' => info'[idx0'[u]].status = "ok"
    <3>1. CASE u = t
      <4>1. buf'[u] = b /\ idx0'[u] = i1 /\ ondisk'[b]
        BY <1>0, <1>3, <1>9, <3>1, ZenonT(40)
      <4>2. i1 \in Unseen' /\ i1 \in Unanswered'
        BY <1>14, ZenonT(40)
      <4> QED
        BY <4>1, <4>2, ZenonT(40)
    <3>2. CASE u \in InFlight
      <4>1. /\ ondisk[buf[u]] <=> idx0[u] \in Unseen
            /\ idx0[u] \notin Unanswered => info[idx0[u]].status = "ok"
        BY <1>1, <3>2, ZenonT(40) DEF Rings
      <4>2. /\ idx0'[u] = idx0[u] /\ idx0[u] # i1 /\ buf'[u] = buf[u]
            /\ ondisk'[buf[u]] = ondisk[buf[u]]
        BY <1>3, <1>9, <1>11, <3>2, ZenonT(40)
      <4>3. info'[idx0[u]] = info[idx0[u]]
        BY <1>1, <1>8, <1>11, <3>2 DEF TypeInv
      <4> QED
        BY <1>14, <4>1, <4>2, <4>3, ZenonT(40)
    <3> QED
      BY <1>10, <3>1, <3>2, ZenonT(40)
  <2>7. \A c \in Buffers : ondisk'[c] => \E u \in InFlight' : buf'[u] = c
    <3> TAKE c \in Buffers
    <3> HAVE ondisk'[c]
    <3>1. CASE c = b
      BY <1>0, <1>3, <1>10, <3>1, ZenonT(40)
    <3>2. CASE c # b
      <4>1. PICK u \in InFlight : buf[u] = c
        BY <1>1, <1>9, <3>2, ZenonT(40) DEF Rings
      <4> QED
        BY <1>3, <1>10, <4>1
    <3> QED
      BY <3>1, <3>2, ZenonT(40)
  <2>8. Descs' = Descs
    BY <1>3, SameDescs
  <2> QED
    BY <2>1, <2>2, <2>3, <2>4, <2>5, <2>6, <2>7, <2>8, ZenonT(40) DEF Rings
<1>20. Contents'
  <2>1. blockno' = blockno /\ valid' = valid /\ buf' = buf /\ platter' = platter
        /\ latest' = latest /\ data' = data /\ op' = op
    BY <1>3 DEF bcacheVars
  <2>2. ASSUME NEW u \in Threads
        PROVE  (Pending(u)' <=> Pending(u)) /\ (Writing(u)' <=> Writing(u))
    <3>1. CASE u = t
      BY <1>4, <1>9, <1>10, <1>14, <2>1, <3>1, ZenonT(40) DEF Pending, Writing
    <3>2. CASE u # t
      <4>1. u \in InFlight => idx0[u] # i1
        BY <1>11, ZenonT(40)
      <4> QED
        BY <1>9, <1>10, <1>14, <2>1, <3>2, <4>1 DEF Pending, Writing
    <3> QED
      BY <3>1, <3>2
  <2>3. \A u \in Threads :
          /\ pc'[u] \in Wanting \cup Flying <=> pc[u] \in Wanting \cup Flying
          /\ pc'[u] = "hold" <=> pc[u] = "hold"
          /\ u \in InFlight' /\ ~Pending(u) => u \in InFlight
    <3>1. "asleep_disk" \in Flying
      BY DEF Flying
    <3>2. Pending(t)
      BY <1>4, ZenonT(40) DEF Pending
    <3> QED
      BY <1>3, <1>4, <1>9, <1>10, <3>1, <3>2
  <2> QED
    BY <1>1, <2>1, <2>2, <2>3, ZenonT(40) DEF Contents
<1> QED
  BY <1>1, <1>3, <1>15, <1>16, <1>19, <1>20 DEF IInv

(* virtio_disk_rw() frees the chain of its request and keeps the           *)
(* invariant.                                                              *)
LEMMA FinishInv ==
  ASSUME IInv, NEW t \in Threads, Finish(t)
  PROVE  IInv'
<1>0. PICK b, h, C : b = buf[t] /\ h = idx0[t] /\ C = Chain(h)
  BY ZenonT(40)
<1>1. /\ pc[t] = "disk"
      /\ UNCHANGED <<blockno, refcnt, bufVars, avail, used, NUM, platter, working, buf, latest>>
  BY ZenonT(40) DEF Finish, deviceVars
<1>2. TypeInv /\ Cache /\ Rings /\ Contents /\ panic = "no"
  BY DEF IInv
<1>3. CASE StillOnDisk(t)
  <2>1. Goto(t, "asleep_disk") /\ UNCHANGED <<free, desc, info, valid, op, idx0, panic>>
    BY <1>3 DEF Finish
  <2>2. "asleep_disk" \in Labels /\ {pc[t], "asleep_disk"} \subseteq Flying
    BY <1>1 DEF Labels, Holding, Flying
  <2>3. pc' \in [Threads -> Labels] /\ \A u \in Threads : SameClass(u)
    BY <1>2, <2>1, <2>2, GotoClass
  <2> QED
    BY <1>1, <2>1, <2>3, PcFrame, ZenonT(40) DEF bcacheVars, ringVars
<1>4. CASE ~StillOnDisk(t)
  <2>1. /\ free' = free \cup C
        /\ panic' = IF C \cap free # {} THEN "free_desc 2" ELSE panic
        /\ desc' = [i \in Descs |-> IF i \in C THEN NoDesc ELSE desc[i]]
        /\ info' = [info EXCEPT ![h] = NoInfo]
        /\ idx0' = [idx0 EXCEPT ![t] = 0]
        /\ op' = [op EXCEPT ![t] = "read"]
        /\ valid' = [valid EXCEPT ![b] = @ \/ op[t] = "read"]
        /\ pc' = [WakeDesc(t) EXCEPT ![t] = "hold"]
        /\ ~ondisk[b]
    BY <1>0, <1>4, ZenonT(40) DEF Finish, StillOnDisk
  <2>2. pc[t] \in Holding /\ t \in InFlight /\ pc[t] \in Flying /\ pc[t] \notin Wanting
    BY <1>1 DEF InFlight, Holding, Wanting, Flying
  <2>3. b \in Buffers /\ blockno[b] \in Blocks /\ blockno[b] # NoBlock
        /\ \A u \in Threads : u # t /\ pc[u] \in Holding => buf[u] # b
    BY <1>0, <1>2, <2>2, OwnBuffer, DiskAssumption, ZenonT(40)
  <2>4. h \in Descs /\ h \notin Unseen /\ h \notin Unanswered /\ ~Pending(t)
    <3>1. h \in Descs /\ h \notin Unseen
      BY <1>0, <1>2, <2>1, <2>2, ZenonT(40) DEF Rings, TypeInv
    <3> QED
      BY <1>0, <2>2, <3>1 DEF Pending, Unseen
  <2>5. /\ C \subseteq Descs /\ C \cap free = {} /\ h \in C
        /\ \A u \in InFlight : u # t => Chain(idx0[u]) \cap C = {}
    <3>1. Linked(t)
      BY <1>2, <2>2, ZenonT(40) DEF Rings
    <3>2. C \subseteq Descs /\ h \in C
      BY <1>0, <1>2, <3>1, ChainIs, LinkedTypes, ZenonT(40)
    <3> QED
      BY <1>0, <1>2, <2>2, <3>2, ZenonT(40) DEF Rings
  <2>6. panic' = "no"
    BY <1>2, <2>1, <2>5, ZenonT(40)
  <2>7. NoDesc \in Desc /\ NoInfo \in Info /\ 0 \in Descs
    <3>1. 0 \in Descs
      BY <1>2, SizeType
    <3> QED
      BY <3>1 DEF NoDesc, Desc, NoInfo, Info
  <2>8. /\ desc' \in [Descs -> Desc] /\ info' \in [Descs -> Info]
        /\ \A d \in Descs : d \notin C => desc'[d] = desc[d]
        /\ \A d \in Descs : d # h => info'[d] = info[d]
    BY <1>2, <2>1, <2>4, <2>7, ZenonT(40) DEF TypeInv
  <2>9. /\ pc' \in [Threads -> Labels] /\ pc'[t] = "hold"
        /\ \A u \in Threads : u # t => \/ pc'[u] = pc[u]
                                       \/ pc[u] = "asleep_desc" /\ pc'[u] = "rw"
    <3>1. "hold" \in Labels /\ "rw" \in Labels
      BY ZenonT(40) DEF Labels, Holding, Wanting
    <3>2. WakeDesc(t) \in [Threads -> Labels]
          /\ \A u \in Threads : \/ WakeDesc(t)[u] = pc[u]
                                \/ pc[u] = "asleep_desc" /\ WakeDesc(t)[u] = "rw"
      BY <1>2, <3>1, ZenonT(40) DEF WakeDesc, TypeInv
    <3> QED
      BY <2>1, <3>1, <3>2, ZenonT(40)
  <2>10. valid[b] \/ op[t] = "read"
    BY <1>0, <1>2, <2>2 DEF Contents, TypeInv
  <2>11. /\ valid' \in [Buffers -> BOOLEAN] /\ valid'[b]
         /\ op' \in [Threads -> {"read", "write"}] /\ idx0' \in [Threads -> Descs]
         /\ \A c \in Buffers : c # b => valid'[c] = valid[c]
         /\ \A u \in Threads : u # t => op'[u] = op[u] /\ idx0'[u] = idx0[u]
    BY <1>2, <2>1, <2>3, <2>7, <2>10, ZenonT(40) DEF TypeInv
  <2>12. TypeInv'
    BY <1>1, <1>2, <2>1, <2>5, <2>8, <2>9, <2>11, SameDescs, ZenonT(40)
       DEF TypeInv, bufVars
  <2>13. ASSUME NEW u \in Threads, u # t
         PROVE  SameClass(u) /\ (pc'[u] \in Holding <=> pc[u] \in Holding)
    <3>1. SameClass(u)
      BY <2>9, <2>13, ZenonT(40) DEF SameClass, Wanting, Flying
    <3> QED
      BY <3>1, ZenonT(40) DEF SameClass, Holding
  <2>14. Cache'
    <3>1. pc'[t] \in Holding /\ pc'[t] # "user" /\ pc[t] # "user"
      BY <1>1, <2>9 DEF Holding
    <3>2. \A u \in Threads : /\ pc'[u] = "user" <=> pc[u] = "user"
                             /\ pc'[u] \in Holding <=> pc[u] \in Holding
      BY <2>2, <2>13, <3>1, ZenonT(40) DEF SameClass
    <3> QED
      BY <1>1, <1>2, <3>2, CacheSame, ZenonT(40) DEF bufVars
  <2>15. InFlight' = InFlight \ {t}
    BY <2>9, <2>13 DEF InFlight, SameClass, Flying
  <2>16. ASSUME NEW u \in InFlight, u # t
         PROVE  /\ u \in Threads /\ idx0'[u] = idx0[u] /\ info'[idx0[u]] = info[idx0[u]]
                /\ Linked(u)' /\ Chain(idx0[u])' = Chain(idx0[u])
    <3>1. u \in Threads /\ Linked(u) /\ idx0[u] \in Chain(idx0[u])
      BY <1>2, ZenonT(40) DEF Rings, InFlight, Chain
    <3>2. \A d \in Chain(idx0[u]) : d \in Descs /\ d \notin C
      <4>1. Chain(idx0[u]) \cap C = {}
        BY <2>5, <2>16, ZenonT(40)
      <4>2. Chain(idx0[u]) \subseteq Descs
        BY <1>2, <3>1, ChainIs, LinkedTypes, ZenonT(40)
      <4> QED
        BY <4>1, <4>2, ZenonT(40)
    <3>3. (\A d \in Chain(idx0[u]) : desc'[d] = desc[d]) /\ info'[idx0[u]] = info[idx0[u]]
      BY <2>5, <2>8, <3>1, <3>2, ZenonT(40)
    <3> QED
      BY <1>1, <2>11, <2>16, <3>1, <3>3, LinkedFrame, ZenonT(40)
  <2>17. Rings'
    <3>1. \A u \in InFlight' : Linked(u)'
      BY <2>15, <2>16
    <3>2. \A u, v \in InFlight' : u # v => Chain(idx0[u])' \cap Chain(idx0[v])' = {}
      <4>1. \A u, v \in InFlight : u # v => Chain(idx0[u]) \cap Chain(idx0[v]) = {}
        BY <1>2, ZenonT(40) DEF Rings
      <4> QED
        BY <2>15, <2>16, <4>1, ZenonT(40)
    <3>3. \A d \in Descs : d \in free' <=> \A u \in InFlight' : d \notin Chain(idx0[u])'
      <4> TAKE d \in Descs
      <4>1. d \in free <=> \A u \in InFlight : d \notin Chain(idx0[u])
        BY <1>2, ZenonT(40) DEF Rings
      <4>2. CASE d \in C
        BY <2>1, <2>5, <2>15, <2>16, <4>2, ZenonT(40)
      <4>3. CASE d \notin C
        BY <1>0, <2>1, <2>15, <2>16, <4>1, <4>3, ZenonT(40)
      <4> QED
        BY <4>2, <4>3
    <3>4. /\ avail' = avail /\ used' = used /\ working' = working /\ ondisk' = ondisk
          /\ buf' = buf /\ Unanswered' = Unanswered /\ Unseen' = Unseen
      BY <1>1 DEF bufVars, Unanswered, Unseen
    <3>5. NoDup(avail) /\ NoDup(used) /\ Rng(avail) \cap working = {}
          /\ Unanswered \cap Rng(used) = {}
      BY <1>2, ZenonT(40) DEF Rings
    <3>6. \A d \in Unseen : \E u \in InFlight' : idx0'[u] = d
      <4> TAKE d \in Unseen
      <4>1. PICK u \in InFlight : idx0[u] = d
        BY <1>2, ZenonT(40) DEF Rings
      <4>2. u # t
        BY <1>0, <2>4, <4>1
      <4> QED
        BY <2>15, <2>16, <4>1, <4>2
    <3>7. \A u \in InFlight' :
             /\ ondisk[buf[u]] <=> idx0'[u] \in Unseen
             /\ idx0'[u] \notin Unanswered => info'[idx0'[u]].status = "ok"
      <4> TAKE u \in InFlight'
      <4>1. u \in InFlight /\ u # t
        BY <2>15, ZenonT(40)
      <4>2. /\ ondisk[buf[u]] <=> idx0[u] \in Unseen
            /\ idx0[u] \notin Unanswered => info[idx0[u]].status = "ok"
        BY <1>2, <4>1, ZenonT(40) DEF Rings
      <4> QED
        BY <2>16, <4>1, <4>2, ZenonT(40)
    <3>8. \A c \in Buffers : ondisk[c] => \E u \in InFlight' : buf[u] = c
      <4> TAKE c \in Buffers
      <4> HAVE ondisk[c]
      <4>1. PICK u \in InFlight : buf[u] = c
        BY <1>2, ZenonT(40) DEF Rings
      <4> QED
        BY <1>0, <2>1, <2>15, <4>1, ZenonT(40)
    <3>9. Descs' = Descs
      BY <1>1, SameDescs
    <3> QED
      BY <3>1, <3>2, <3>3, <3>4, <3>5, <3>6, <3>7, <3>8, <3>9, ZenonT(40)
         DEF Rings
  <2>18. Contents'
    <3>1. /\ blockno' = blockno /\ buf' = buf /\ platter' = platter /\ latest' = latest
          /\ data' = data /\ Unanswered' = Unanswered
      BY <1>1 DEF bufVars, Unanswered
    <3>2. ASSUME NEW u \in Threads, u # t
          PROVE  /\ (Pending(u)' <=> Pending(u)) /\ (Writing(u)' <=> Writing(u))
                 /\ (u \in InFlight' <=> u \in InFlight)
      <4>1. u \in InFlight' <=> u \in InFlight
        BY <2>15, <3>2
      <4>2. (pc'[u] \in Wanting <=> pc[u] \in Wanting) /\ op'[u] = op[u] /\ idx0'[u] = idx0[u]
        BY <2>11, <2>13, <3>2, ZenonT(40) DEF SameClass
      <4> QED
        BY <3>1, <4>1, <4>2, ZenonT(40) DEF Pending, Writing
    <3>3. data[b] = latest[blockno[b]]
      BY <1>0, <1>2, <2>2, <2>4, ZenonT(40) DEF Contents
    <3>4. \A j \in Blocks : platter[j] # latest[j] =>
            \E u \in Threads : Writing(u)' /\ blockno[buf[u]] = j
      <4> TAKE j \in Blocks
      <4> HAVE platter[j] # latest[j]
      <4>1. PICK u \in Threads : Writing(u) /\ blockno[buf[u]] = j
        BY <1>2, ZenonT(40) DEF Contents
      <4>2. u # t
        BY <2>4, <4>1, ZenonT(40) DEF Writing
      <4> QED
        BY <3>2, <4>1, <4>2, ZenonT(40)
    <3>5. \A c \in Buffers : valid'[c] => blockno[c] # NoBlock /\ data[c] = latest[blockno[c]]
      BY <1>2, <2>3, <2>11, <3>3, ZenonT(40) DEF Contents
    <3>6. ASSUME NEW u \in Threads
          PROVE  /\ pc'[u] = "hold" => valid'[buf[u]]
                 /\ pc'[u] \in Wanting \cup Flying => (valid'[buf[u]] <=> op'[u] = "write")
                 /\ u \in InFlight' /\ ~Pending(u)' => data[buf[u]] = latest[blockno[buf[u]]]
      <4>1. CASE u = t
        BY <1>0, <2>9, <2>11, <2>15, <4>1, ZenonT(40) DEF Wanting, Flying
      <4>2. CASE u # t
        <5>1. /\ pc[u] = "hold" => valid[buf[u]]
              /\ pc[u] \in Wanting \cup Flying => (valid[buf[u]] <=> op[u] = "write")
              /\ u \in InFlight /\ ~Pending(u) => data[buf[u]] = latest[blockno[buf[u]]]
          BY <1>2, ZenonT(40) DEF Contents
        <5>2. pc[u] \in {"hold"} \cup Wanting \cup Flying => valid'[buf[u]] = valid[buf[u]]
          <6>1. pc[u] \in Holding => buf[u] # b /\ buf[u] \in Buffers
            BY <1>2, <2>3, <4>2, OwnBuffer, ZenonT(40)
          <6> QED
            BY <2>11, <6>1, ZenonT(40) DEF Holding
        <5>3. /\ pc'[u] = "hold" <=> pc[u] = "hold"
              /\ pc'[u] \in Wanting \cup Flying <=> pc[u] \in Wanting \cup Flying
          BY <2>13, <4>2, ZenonT(40) DEF SameClass
        <5>4. op'[u] = op[u]
          BY <2>11, <4>2
        <5> QED
          BY <3>2, <4>2, <5>1, <5>2, <5>3, <5>4, ZenonT(40)
      <4> QED
        BY <4>1, <4>2, ZenonT(40)
    <3> QED
      BY <3>1, <3>4, <3>5, <3>6, ZenonT(40) DEF Contents
  <2> QED
    BY <2>6, <2>12, <2>14, <2>17, <2>18 DEF IInv
<1> QED
  BY <1>3, <1>4

-----------------------------------------------------------------------------
(* The theorems *)

(* Every step keeps the invariant. *)
LEMMA NextInv == IInv /\ [Next]_vars => IInv'
<1> SUFFICES ASSUME IInv, [Next]_vars PROVE IInv'
  OBVIOUS
<1>1. ASSUME NEW t \in Threads, ThreadStep(t) PROVE IInv'
  BY <1>1, BgetInv, AcquiresleepInv, BwriteInv, ReleasesleepInv, BrelseInv, AllocFailsInv,
     SubmitInv, FinishInv DEF ThreadStep
<1>2. ASSUME NEW t \in Threads, Kill(t) PROVE IInv'
  BY <1>2, KillInv
<1>3. ASSUME HandlerStep PROVE IInv'
  BY <1>3, LockInv, IntrEntryInv DEF HandlerStep
<1>4. ASSUME Device PROVE IInv'
  BY <1>4, LockInv, DevFetchInv, DevCompleteInv DEF Device
<1>5. CASE UNCHANGED vars
  BY <1>5, LockInv
<1> QED
  BY <1>1, <1>2, <1>3, <1>4, <1>5 DEF Next

(* The invariant holds in every reachable state, for any number of         *)
(* threads, of buffers not fewer than the threads, and of descriptors.     *)
THEOREM Invariant == Spec => []IInv
  BY InitInv, NextInv, PTL DEF Spec

(* Three different things are three. *)
LEMMA ThreeElements ==
  ASSUME NEW h, NEW j, NEW k, h # j, h # k, j # k
  PROVE  Cardinality({h, j, k}) = 3
<1>1. IsFiniteSet({h}) /\ Cardinality({h}) = 1
  BY FS_Singleton, ZenonT(40)
<1>2. {h} \cup {j} = {h, j} /\ {h, j} \cup {k} = {h, j, k}
  BY Zenon
<1>3. IsFiniteSet({h, j}) /\ Cardinality({h, j}) = 2
  <2>1. j \notin {h}
    OBVIOUS
  <2> QED
    BY <1>1, <1>2, <2>1, FS_AddElement
<1>4. Cardinality({h, j, k}) = 2 + 1
  <2>1. k \notin {h, j}
    OBVIOUS
  <2> QED
    BY <1>2, <1>3, <2>1, FS_AddElement
<1> QED
  BY <1>4

(* The invariant implies DescOwned. *)
LEMMA InvDescOwned == IInv => DescOwned
<1> SUFFICES ASSUME IInv PROVE DescOwned
  OBVIOUS
<1>1. TypeInv /\ Rings
  BY ZenonT(40) DEF IInv
<1>2. \A t \in InFlight : t \in Threads /\ Linked(t)
  BY <1>1, ZenonT(40) DEF Rings, InFlight
<1>3. ASSUME NEW t \in InFlight
      PROVE  Cardinality(Chain(idx0[t])) = 3
  <2>1. Chain(idx0[t]) = {idx0[t], desc[idx0[t]].next, desc[desc[idx0[t]].next].next}
    BY <1>2, ChainIs, ZenonT(40)
  <2>2. /\ idx0[t] # desc[idx0[t]].next /\ idx0[t] # desc[desc[idx0[t]].next].next
        /\ desc[idx0[t]].next # desc[desc[idx0[t]].next].next
    BY <1>2, ZenonT(40) DEF Linked
  <2>3. Cardinality({idx0[t], desc[idx0[t]].next, desc[desc[idx0[t]].next].next}) = 3
    BY <2>2, ThreeElements, Zenon
  <2> QED
    BY <2>1, <2>3, ZenonT(40)
<1>4. \A t, u \in InFlight : t # u => Chain(idx0[t]) \cap Chain(idx0[u]) = {}
  BY <1>1, ZenonT(40) DEF Rings
<1> DEFINE chain == [t \in InFlight |-> Chain(idx0[t])]
<1>5. free = Descs \ UNION {chain[t] : t \in InFlight}
  <2>1. free \subseteq Descs
    BY <1>1 DEF TypeInv
  <2>2. ASSUME NEW d \in Descs
        PROVE  d \in free <=> d \notin UNION {chain[t] : t \in InFlight}
    <3>1. d \in free <=> \A t \in InFlight : d \notin Chain(idx0[t])
      BY <1>1 DEF Rings
    <3>2. \A t \in InFlight : chain[t] = Chain(idx0[t])
      OBVIOUS
    <3> HIDE DEF chain
    <3>3. d \in UNION {chain[t] : t \in InFlight} <=> \E t \in InFlight : d \in chain[t]
      BY Zenon
    <3> QED
      BY <3>1, <3>2, <3>3
  <2> HIDE DEF chain
  <2> QED
    BY <2>1, <2>2
<1> QED
  BY <1>3, <1>4, <1>5 DEF DescOwned

(* Requests never share or leak descriptors: the chains virtio_disk_rw()   *)
(* builds are three descriptors each, disjoint, and all others are free,   *)
(* for any number of threads and descriptors.                              *)
THEOREM DescriptorsOwned == Spec => []DescOwned
  BY Invariant, InvDescOwned, PTL

(* The invariant implies HeldIsLatest. *)
LEMMA InvHeldIsLatest == IInv => HeldIsLatest
<1> SUFFICES ASSUME IInv, NEW t \in Threads, pc[t] = "hold"
             PROVE  /\ owner[buf[t]] = t /\ valid[buf[t]]
                    /\ data[buf[t]] = latest[blockno[buf[t]]]
                    /\ platter[blockno[buf[t]]] = latest[blockno[buf[t]]]
  BY DEF HeldIsLatest
<1>1. TypeInv /\ Cache /\ Contents
  BY DEF IInv
<1>2. pc[t] \in Holding /\ pc[t] \notin Wanting /\ t \notin InFlight
  BY DEF Holding, Wanting, InFlight
<1>3. /\ buf[t] \in Buffers /\ blockno[buf[t]] \in Blocks /\ owner[buf[t]] = t
      /\ \A u \in Threads : u # t /\ pc[u] \in Holding => blockno[buf[u]] # blockno[buf[t]]
  BY <1>1, <1>2, OwnBuffer
<1>4. valid[buf[t]] /\ data[buf[t]] = latest[blockno[buf[t]]]
  BY <1>1, <1>3 DEF Contents
<1>5. ASSUME NEW u \in Threads, Writing(u)
      PROVE  u # t /\ pc[u] \in Holding
  BY <1>2, <1>5 DEF Writing, Pending, InFlight, Holding, Flying
<1>6. platter[blockno[buf[t]]] = latest[blockno[buf[t]]]
  <2>1. ASSUME NEW k \in Blocks, platter[k] # latest[k]
        PROVE  \E u \in Threads : Writing(u) /\ blockno[buf[u]] = k
    BY <1>1, <2>1, ZenonT(40) DEF Contents
  <2> QED
    BY <1>3, <1>5, <2>1, ZenonT(40)
<1> QED
  BY <1>3, <1>4, <1>6

(* A buffer that bread() or bwrite() returned is locked by the caller and  *)
(* holds what was last written to its block, and so does the disk.         *)
THEOREM HeldBufferIsLatest == Spec => []HeldIsLatest
  BY Invariant, InvHeldIsLatest, PTL

(* None of the panics is reached: bget() finds a buffer, bwrite() and      *)
(* brelse() are called with the lock, a descriptor is not freed twice, and *)
(* the handler sees only requests the device has answered.                 *)
THEOREM DiskNeverPanics == Spec => [](panic = "no")
<1>1. IInv => panic = "no"
  BY DEF IInv
<1> QED
  BY <1>1, Invariant, PTL
=============================================================================
