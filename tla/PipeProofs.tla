----------------------------- MODULE PipeProofs -----------------------------
(* A pipe keeps order and bounds, and its sleepers are awaited, for pipes of *)
(* every size and any number of readers and writers.                        *)
EXTENDS Pipe, SequenceTheorems, TLAPS

-----------------------------------------------------------------------------
(* Arithmetic of counters that wrap around *)

(* Division with a remainder, as uint counters are reduced to an index. *)
LEMMA DivMod ==
  ASSUME NEW p \in Nat \ {0}, NEW x \in Int
  PROVE  \E q \in Int, a \in 0 .. p - 1 : x = p * q + a /\ x % p = a
BY SMTT(30)

(* Quotient and remainder are unique. *)
LEMMA UniqueMod ==
  ASSUME NEW p \in Nat \ {0}, NEW x \in Int,
         NEW q \in Int, NEW a \in 0 .. p - 1, x = p * q + a
  PROVE  x % p = a
<1>1. PICK s \in Int, b \in 0 .. p - 1 : x = p * s + b /\ x % p = b
  BY DivMod, ZenonT(40)
<1>2. p * (q - s) = b - a
  BY <1>1, SMTT(30)
<1>3. CASE q > s
  <2>1. p * (q - s) >= p
    BY <1>3, SMTT(30)
  <2> QED BY <1>2, <2>1
<1>4. CASE q < s
  <2>1. p * (q - s) <= -p
    BY <1>4, SMTT(30)
  <2> QED BY <1>2, <2>1
<1> QED BY <1>1, <1>3, <1>4

(* PIPESIZE divides 2^32: a turn of a counter does not change the index. *)
LEMMA Multiple ==
  ASSUME NEW p \in Nat \ {0}, NEW m \in Nat, m % p = 0, NEW x \in Int
  PROVE  (m + x) % p = x % p
<1>1. PICK k \in Int, a \in 0 .. p - 1 : m = p * k + a /\ m % p = a
  BY DivMod
<1>2. PICK s \in Int, b \in 0 .. p - 1 : x = p * s + b /\ x % p = b
  BY DivMod
<1>3. /\ m + x = p * (k + s) + b
      /\ k + s \in Int /\ m + x \in Int
  BY <1>1, <1>2, SMTT(30)
<1>4. (m + x) % p = b
  BY <1>3, UniqueMod, ZenonT(40)
<1> QED BY <1>2, <1>4

(* Counters less than PIPESIZE apart have different indices. *)
LEMMA DistinctMod ==
  ASSUME NEW p \in Nat \ {0}, NEW x \in Int, NEW y \in Int, x < y, y < x + p
  PROVE  x % p # y % p
<1>1. PICK q \in Int, a \in 0 .. p - 1 : x = p * q + a /\ x % p = a
  BY DivMod, ZenonT(40)
<1>2. PICK s \in Int, b \in 0 .. p - 1 : y = p * s + b /\ y % p = b
  BY DivMod
<1>3. SUFFICES ASSUME a = b PROVE FALSE
  BY <1>1, <1>2
<1>4. y - x = p * (s - q)
  BY <1>1, <1>2, <1>3, SMTT(30)
<1>5. CASE s - q >= 1
  <2>1. p * (s - q) >= p
    BY <1>5, SMTT(30)
  <2> QED BY <1>4, <2>1
<1>6. CASE s - q <= 0
  <2>1. p * (s - q) <= 0
    BY <1>6, SMTT(30)
  <2> QED BY <1>4, <2>1
<1> QED BY <1>5, <1>6

(* What the differences of nread and nwrite say of the pipe. *)
LEMMA Counters ==
  ASSUME NEW r \in 0 .. UINT - 1, NEW w \in 0 .. UINT - 1,
         NEW used, used = (w - r) % UINT
  PROVE  /\ used \in 0 .. UINT - 1
         /\ used = 0 <=> r = w
         /\ used = PIPESIZE <=> w = (r + PIPESIZE) % UINT
         /\ (w + 1) % UINT \in 0 .. UINT - 1
         /\ used < PIPESIZE => (((w + 1) % UINT) - r) % UINT = used + 1
         /\ (r + 1) % UINT \in 0 .. UINT - 1
         /\ (r + 1) % UINT # r
         /\ used > 0 => (w - ((r + 1) % UINT)) % UINT = used - 1
         /\ r + used = w \/ r + used = w + UINT
<1> USE PipeAssumption
<1>1. used = IF w >= r THEN w - r ELSE w - r + UINT
  BY SMTT(30)
<1>2. (w + 1) % UINT = IF w + 1 = UINT THEN 0 ELSE w + 1
  BY SMTT(30)
<1>3. (r + 1) % UINT = IF r + 1 = UINT THEN 0 ELSE r + 1
  BY SMTT(30)
<1>4. (r + PIPESIZE) % UINT = IF r + PIPESIZE < UINT THEN r + PIPESIZE
                              ELSE r + PIPESIZE - UINT
  BY SMTT(30)
<1>5. ASSUME used < PIPESIZE
      PROVE  (((w + 1) % UINT) - r) % UINT = used + 1
  BY <1>1, <1>2, <1>5, SMTT(30)
<1>6. ASSUME used > 0
      PROVE  (w - ((r + 1) % UINT)) % UINT = used - 1
  BY <1>1, <1>3, <1>6, SMTT(30)
<1> QED BY <1>1, <1>2, <1>3, <1>4, <1>5, <1>6

-----------------------------------------------------------------------------
(* The inductive invariant *)

WritePcs == {"write", "write_sleep", "write_asleep", "write_woken"}
ReadPcs == {"read", "read_sleep", "read_asleep", "read_woken", "copy"}
HoldPcs == {"write", "write_sleep", "read", "read_sleep", "copy"}

TypeOK ==
  /\ data \in [0 .. PIPESIZE - 1 -> Bytes]
  /\ nread \in 0 .. UINT - 1 /\ nwrite \in 0 .. UINT - 1
  /\ readopen \in BOOLEAN /\ writeopen \in BOOLEAN
  /\ lock \in SUBSET Threads /\ killed \in SUBSET Threads
  /\ pc \in [Threads -> Pcs]
  /\ n \in [Threads -> Nat] /\ i \in [Threads -> Nat]

(* pi->lock has one holder, the thread between acquire() and release(). *)
Mutex ==
  /\ \A t \in Threads : pc[t] \in HoldPcs <=> t \in lock
  /\ \A t, u \in lock : t = u

(* A thread inside a call uses its own end, and that end is open. *)
Roles ==
  \A t \in Threads : /\ pc[t] \in WritePcs => t \in Writers /\ writeopen
                     /\ pc[t] \in ReadPcs => t \in Readers /\ readopen

(* A writer sleeps while the pipe is full, or a reader is about to wake it. *)
WriterWaits ==
  \A t \in Threads :
    /\ pc[t] = "write_sleep" => Full /\ readopen
    /\ pc[t] = "write_asleep" =>
         (Full /\ readopen) \/ \E u \in Threads : pc[u] = "copy"

(* A reader sleeps while the pipe is empty, or a writer is about to wake it. *)
ReaderWaits ==
  \A t \in Threads :
    /\ pc[t] = "read_sleep" => NothingYet
    /\ pc[t] = "read_asleep" /\ Writers \cap killed = {} =>
         NothingYet \/ \E u \in Threads : pc[u] = "write"

(* A reader that has left the first loop of piperead() has something to    *)
(* read, or met the end of the file.                                       *)
FirstByte ==
  \A t \in Threads : pc[t] = "copy" /\ i[t] = 0 => ~NothingYet

Bounded == Used <= PIPESIZE

IInv == /\ TypeOK /\ Mutex /\ Roles /\ WriterWaits /\ ReaderWaits /\ FirstByte
        /\ Bounded

(* The state that pipealloc() leaves satisfies the invariant. *)
LEMMA InitInv == Init => IInv
<1> SUFFICES ASSUME Init PROVE IInv
  OBVIOUS
<1> USE PipeAssumption
<1>1. TypeOK
  BY DEF Init, TypeOK, Pcs
<1>2. Mutex /\ Roles
  BY DEF Init, Mutex, Roles, HoldPcs, WritePcs, ReadPcs
<1>3. WriterWaits /\ ReaderWaits /\ FirstByte
  BY DEF Init, WriterWaits, ReaderWaits, FirstByte
<1>4. Bounded
  BY SMTT(30) DEF Init, Bounded, Used
<1> QED BY <1>1, <1>2, <1>3, <1>4 DEF IInv

(* The thread that holds pi->lock is alone inside the pipe. *)
LEMMA Holder ==
  ASSUME IInv, NEW t \in Threads, pc[t] \in HoldPcs
  PROVE  /\ lock = {t}
         /\ \A u \in Threads : pc[u] \in HoldPcs => u = t
BY ZenonT(40) DEF IInv, Mutex

(* WriteByte leaves a byte more between nread and nwrite. *)
LEMMA PutCount ==
  ASSUME TypeOK, Bounded, ~Full, nread' = nread, nwrite' = (nwrite + 1) % UINT
  PROVE  /\ nwrite' \in 0 .. UINT - 1
         /\ Used \in Nat /\ Used < PIPESIZE /\ Used' = Used + 1
<1>1. /\ nread \in 0 .. UINT - 1 /\ nwrite \in 0 .. UINT - 1
      /\ Used = (nwrite - nread) % UINT
      /\ Used' = (((nwrite + 1) % UINT) - nread) % UINT
  BY DEF TypeOK, Used
<1>2. /\ Used \in 0 .. UINT - 1
      /\ Used # PIPESIZE
      /\ (nwrite + 1) % UINT \in 0 .. UINT - 1
      /\ Used < PIPESIZE => Used' = Used + 1
  BY <1>1, Counters DEF Full
<1> QED BY <1>2, PipeAssumption DEF Bounded

(* ReadByte and CopyoutFails leave a byte less. *)
(* ReadByte and CopyoutFails leave a byte less. *)
(* ReadByte and CopyoutFails leave a byte less. *)
LEMMA GetCount ==
  ASSUME TypeOK, Bounded, ~Empty, nwrite' = nwrite, nread' = (nread + 1) % UINT
  PROVE  /\ nread' \in 0 .. UINT - 1 /\ nread' # nread
         /\ Used \in Nat \ {0} /\ Used' = Used - 1
<1>1. /\ nread \in 0 .. UINT - 1 /\ nwrite \in 0 .. UINT - 1
      /\ Used = (nwrite - nread) % UINT
      /\ Used' = (nwrite - ((nread + 1) % UINT)) % UINT
  BY DEF TypeOK, Used
<1>2. /\ Used \in 0 .. UINT - 1
      /\ Used # 0
      /\ (nread + 1) % UINT \in 0 .. UINT - 1
      /\ (nread + 1) % UINT # nread
      /\ Used > 0 => Used' = Used - 1
  BY <1>1, Counters DEF Empty
<1> QED BY <1>2, PipeAssumption

-----------------------------------------------------------------------------
(* Every step keeps the invariant *)

(* pipewrite() fails; whoever sleeps was not waiting for it. *)
LEMMA WriteFailsInv ==
  ASSUME IInv, NEW t \in Threads, WriteFails(t)
  PROVE  IInv'
<1> USE DEF IInv, TypeOK, WriteFails, Return, Goto, pipeVars, openVars
<1>1. TypeOK'
  BY ZenonT(40) DEF Pcs
<1>2. Mutex'
  BY ZenonT(40) DEF Mutex, HoldPcs
<1>3. Roles'
  BY ZenonT(40) DEF Roles, WritePcs, ReadPcs
<1>4. WriterWaits'
  BY ZenonT(40), Holder DEF WriterWaits, Full, HoldPcs, Roles, WritePcs,
      ReadPcs
<1>5. ReaderWaits'
  BY ZenonT(40), Holder DEF ReaderWaits, NothingYet, Empty, HoldPcs, Roles,
      WritePcs, ReadPcs
<1>6. FirstByte'
  BY ZenonT(40), Holder DEF FirstByte, NothingYet, Empty, HoldPcs
<1>7. Bounded'
  BY ZenonT(40) DEF Bounded, Used
<1> QED BY <1>1, <1>2, <1>3, <1>4, <1>5, <1>6, <1>7

(* pipewrite() wakes the readers before it sleeps. *)
LEMMA WriteFullInv ==
  ASSUME IInv, NEW t \in Threads, WriteFull(t)
  PROVE  IInv'
<1> USE DEF IInv, TypeOK, WriteFull, WakeReaders, WakeupGoto, pipeVars,
           openVars
<1>1. TypeOK'
  BY ZenonT(40) DEF Pcs
<1>2. Mutex'
  BY ZenonT(40) DEF Mutex, HoldPcs
<1>3. Roles'
  BY ZenonT(40) DEF Roles, WritePcs, ReadPcs
<1>4. WriterWaits'
  BY ZenonT(40), Holder DEF WriterWaits, Full, HoldPcs, Roles, WritePcs,
      ReadPcs
<1>5. ReaderWaits'
  BY ZenonT(40), Holder DEF ReaderWaits, NothingYet, Empty, HoldPcs, Roles,
      WritePcs, ReadPcs
<1>6. FirstByte'
  BY ZenonT(40), Holder DEF FirstByte, NothingYet, Empty, HoldPcs
<1>7. Bounded'
  BY ZenonT(40) DEF Bounded, Used
<1> QED BY <1>1, <1>2, <1>3, <1>4, <1>5, <1>6, <1>7

(* pipewrite() stores a byte while no writer sleeps. *)
LEMMA WriteByteInv ==
  ASSUME IInv, NEW t \in Threads, NEW ch \in Bytes, WriteByte(t, ch)
  PROVE  IInv'
<1> USE DEF IInv, TypeOK, WriteByte, openVars
<1>0. /\ nwrite' \in 0 .. UINT - 1
      /\ Used' <= PIPESIZE
  BY PutCount, PipeAssumption DEF Bounded
<1>1. TypeOK'
  <2>1. data' \in [0 .. PIPESIZE - 1 -> Bytes]
    BY ZenonT(40)
  <2>2. i' \in [Threads -> Nat]
    OBVIOUS
  <2> QED BY ZenonT(40), <1>0, <2>1, <2>2
<1>2. Mutex'
  BY ZenonT(40) DEF Mutex, HoldPcs
<1>3. Roles'
  BY ZenonT(40) DEF Roles, WritePcs, ReadPcs
<1>4. WriterWaits'
  BY ZenonT(40), Holder DEF WriterWaits, Full, HoldPcs, Roles, WritePcs,
      ReadPcs
<1>5. ReaderWaits'
  BY ZenonT(40), Holder DEF ReaderWaits, NothingYet, Empty, HoldPcs, Roles,
      WritePcs, ReadPcs
<1>6. FirstByte'
  BY ZenonT(40), Holder DEF FirstByte, NothingYet, Empty, HoldPcs
<1>7. Bounded'
  BY <1>0 DEF Bounded
<1> QED BY <1>1, <1>2, <1>3, <1>4, <1>5, <1>6, <1>7

(* pipewrite() wakes the readers before it returns. *)
LEMMA WriteReturnsInv ==
  ASSUME IInv, NEW t \in Threads, WriteReturns(t)
  PROVE  IInv'
<1> USE DEF IInv, TypeOK, WriteReturns, Return, WakeReaders, WakeupGoto,
           pipeVars, openVars
<1>1. TypeOK'
  BY ZenonT(40) DEF Pcs
<1>2. Mutex'
  BY ZenonT(40) DEF Mutex, HoldPcs
<1>3. Roles'
  BY ZenonT(40) DEF Roles, WritePcs, ReadPcs
<1>4. WriterWaits'
  BY ZenonT(40), Holder DEF WriterWaits, Full, HoldPcs, Roles, WritePcs,
      ReadPcs
<1>5. ReaderWaits'
  BY ZenonT(40), Holder DEF ReaderWaits, NothingYet, Empty, HoldPcs, Roles,
      WritePcs, ReadPcs
<1>6. FirstByte'
  BY ZenonT(40), Holder DEF FirstByte, NothingYet, Empty, HoldPcs
<1>7. Bounded'
  BY ZenonT(40) DEF Bounded, Used
<1> QED BY <1>1, <1>2, <1>3, <1>4, <1>5, <1>6, <1>7

(* piperead() fails before it has taken anything. *)
LEMMA ReadFailsInv ==
  ASSUME IInv, NEW t \in Threads, ReadFails(t)
  PROVE  IInv'
<1> USE DEF IInv, TypeOK, ReadFails, Return, Goto, pipeVars, openVars
<1>1. TypeOK'
  BY ZenonT(40) DEF Pcs
<1>2. Mutex'
  BY ZenonT(40) DEF Mutex, HoldPcs
<1>3. Roles'
  BY ZenonT(40) DEF Roles, WritePcs, ReadPcs
<1>4. WriterWaits'
  BY ZenonT(40), Holder DEF WriterWaits, Full, HoldPcs, Roles, WritePcs,
      ReadPcs
<1>5. ReaderWaits'
  BY ZenonT(40), Holder DEF ReaderWaits, NothingYet, Empty, HoldPcs, Roles,
      WritePcs, ReadPcs
<1>6. FirstByte'
  BY ZenonT(40), Holder DEF FirstByte, NothingYet, Empty, HoldPcs
<1>7. Bounded'
  BY ZenonT(40) DEF Bounded, Used
<1> QED BY <1>1, <1>2, <1>3, <1>4, <1>5, <1>6, <1>7

(* piperead() is about to sleep on an empty pipe. *)
LEMMA ReadEmptyInv ==
  ASSUME IInv, NEW t \in Threads, ReadEmpty(t)
  PROVE  IInv'
<1> USE DEF IInv, TypeOK, ReadEmpty, Goto, pipeVars, openVars
<1>1. TypeOK'
  BY ZenonT(40) DEF Pcs
<1>2. Mutex'
  BY ZenonT(40) DEF Mutex, HoldPcs
<1>3. Roles'
  BY ZenonT(40) DEF Roles, WritePcs, ReadPcs
<1>4. WriterWaits'
  BY ZenonT(40), Holder DEF WriterWaits, Full, HoldPcs, Roles, WritePcs,
      ReadPcs
<1>5. ReaderWaits'
  BY ZenonT(40), Holder DEF ReaderWaits, NothingYet, Empty, HoldPcs, Roles,
      WritePcs, ReadPcs
<1>6. FirstByte'
  BY ZenonT(40), Holder DEF FirstByte, NothingYet, Empty, HoldPcs
<1>7. Bounded'
  BY ZenonT(40) DEF Bounded, Used
<1> QED BY <1>1, <1>2, <1>3, <1>4, <1>5, <1>6, <1>7

(* piperead() leaves its first loop. *)
LEMMA ReadReadyInv ==
  ASSUME IInv, NEW t \in Threads, ReadReady(t)
  PROVE  IInv'
<1> USE DEF IInv, TypeOK, ReadReady, Goto, pipeVars, openVars
<1>1. TypeOK'
  BY ZenonT(40) DEF Pcs
<1>2. Mutex'
  BY ZenonT(40) DEF Mutex, HoldPcs
<1>3. Roles'
  BY ZenonT(40) DEF Roles, WritePcs, ReadPcs
<1>4. WriterWaits'
  BY ZenonT(40), Holder DEF WriterWaits, Full, HoldPcs, Roles, WritePcs,
      ReadPcs
<1>5. ReaderWaits'
  BY ZenonT(40), Holder DEF ReaderWaits, NothingYet, Empty, HoldPcs, Roles,
      WritePcs, ReadPcs
<1>6. FirstByte'
  BY ZenonT(40), Holder DEF FirstByte, NothingYet, Empty, HoldPcs
<1>7. Bounded'
  BY ZenonT(40) DEF Bounded, Used
<1> QED BY <1>1, <1>2, <1>3, <1>4, <1>5, <1>6, <1>7

(* piperead() takes a byte and owes the writers a wakeup. *)
LEMMA ReadByteInv ==
  ASSUME IInv, NEW t \in Threads, ReadByte(t)
  PROVE  IInv'
<1> USE DEF IInv, TypeOK, ReadByte, openVars
<1>0. /\ nread' \in 0 .. UINT - 1
      /\ Used' <= PIPESIZE
  BY GetCount, PipeAssumption DEF Bounded
<1>1. TypeOK'
  BY SMTT(30), <1>0 DEF Pcs, Threads
<1>2. Mutex'
  BY ZenonT(40) DEF Mutex, HoldPcs
<1>3. Roles'
  BY ZenonT(40) DEF Roles, WritePcs, ReadPcs
<1>4. WriterWaits'
  BY ZenonT(40), Holder DEF WriterWaits, Full, HoldPcs, Roles, WritePcs,
      ReadPcs
<1>5. ReaderWaits'
  BY ZenonT(40), Holder DEF ReaderWaits, NothingYet, Empty, HoldPcs, Roles,
      WritePcs, ReadPcs
<1>6. FirstByte'
  <2>1. i[t] \in Nat /\ i'[t] = i[t] + 1
    OBVIOUS
  <2>2. i'[t] # 0
    BY <2>1
  <2> QED BY ZenonT(40), Holder, <2>2 DEF FirstByte, HoldPcs
<1>7. Bounded'
  BY <1>0 DEF Bounded
<1> QED BY <1>1, <1>2, <1>3, <1>4, <1>5, <1>6, <1>7

(* piperead() gives up after it has taken a byte. *)
LEMMA CopyoutFailsInv ==
  ASSUME IInv, NEW t \in Threads, CopyoutFails(t)
  PROVE  IInv'
<1> USE DEF IInv, TypeOK, CopyoutFails, Return, WakeWriters, WakeupGoto,
           openVars
<1>0. /\ nread' \in 0 .. UINT - 1
      /\ Used' <= PIPESIZE
  BY GetCount, PipeAssumption DEF Bounded
<1>1. TypeOK'
  BY SMTT(30), <1>0 DEF Pcs, Threads
<1>2. Mutex'
  BY ZenonT(40) DEF Mutex, HoldPcs
<1>3. Roles'
  BY ZenonT(40) DEF Roles, WritePcs, ReadPcs
<1>4. WriterWaits'
  BY ZenonT(40), Holder DEF WriterWaits, Full, HoldPcs, Roles, WritePcs,
      ReadPcs
<1>5. ReaderWaits'
  BY ZenonT(40), Holder DEF ReaderWaits, NothingYet, Empty, HoldPcs, Roles,
      WritePcs, ReadPcs
<1>6. FirstByte'
  BY ZenonT(40), Holder DEF FirstByte, NothingYet, Empty, HoldPcs
<1>7. Bounded'
  BY <1>0 DEF Bounded
<1> QED BY <1>1, <1>2, <1>3, <1>4, <1>5, <1>6, <1>7

(* piperead() wakes the writers before it returns. *)
LEMMA ReadReturnsInv ==
  ASSUME IInv, NEW t \in Threads, ReadReturns(t)
  PROVE  IInv'
<1> USE DEF IInv, TypeOK, ReadReturns, Return, WakeWriters, WakeupGoto,
           pipeVars, openVars
<1>1. TypeOK'
  BY ZenonT(40) DEF Pcs
<1>2. Mutex'
  BY ZenonT(40) DEF Mutex, HoldPcs
<1>3. Roles'
  BY ZenonT(40) DEF Roles, WritePcs, ReadPcs
<1>4. WriterWaits'
  BY ZenonT(40), Holder DEF WriterWaits, Full, HoldPcs, Roles, WritePcs,
      ReadPcs
<1>5. ReaderWaits'
  BY ZenonT(40), Holder DEF ReaderWaits, NothingYet, Empty, HoldPcs, Roles,
      WritePcs, ReadPcs
<1>6. FirstByte'
  BY ZenonT(40), Holder DEF FirstByte, NothingYet, Empty, HoldPcs
<1>7. Bounded'
  BY ZenonT(40) DEF Bounded, Used
<1> QED BY <1>1, <1>2, <1>3, <1>4, <1>5, <1>6, <1>7

(* sleep() releases pi->lock. *)
LEMMA SleepInv ==
  ASSUME IInv, NEW t \in Threads, Sleep(t)
  PROVE  IInv'
<1> USE DEF IInv, TypeOK, Sleep, Goto, pipeVars, openVars
<1>1. TypeOK'
  BY ZenonT(40) DEF Pcs
<1>2. Mutex'
  BY ZenonT(40) DEF Mutex, HoldPcs
<1>3. Roles'
  BY ZenonT(40) DEF Roles, WritePcs, ReadPcs
<1>4. WriterWaits'
  BY ZenonT(40), Holder DEF WriterWaits, Full, HoldPcs, Roles, WritePcs,
      ReadPcs
<1>5. ReaderWaits'
  BY ZenonT(40), Holder DEF ReaderWaits, NothingYet, Empty, HoldPcs, Roles,
      WritePcs, ReadPcs
<1>6. FirstByte'
  BY ZenonT(40), Holder DEF FirstByte, NothingYet, Empty, HoldPcs
<1>7. Bounded'
  BY ZenonT(40) DEF Bounded, Used
<1> QED BY <1>1, <1>2, <1>3, <1>4, <1>5, <1>6, <1>7

(* sleep() has pi->lock again. *)
LEMMA ResumeInv ==
  ASSUME IInv, NEW t \in Threads, Resume(t)
  PROVE  IInv'
<1> USE DEF IInv, TypeOK, Resume, Goto, pipeVars, openVars
<1>1. TypeOK'
  BY ZenonT(40) DEF Pcs
<1>2. Mutex'
  BY ZenonT(40) DEF Mutex, HoldPcs
<1>3. Roles'
  BY ZenonT(40) DEF Roles, WritePcs, ReadPcs
<1>4. WriterWaits'
  BY ZenonT(40), Holder DEF WriterWaits, Full, HoldPcs, Roles, WritePcs,
      ReadPcs
<1>5. ReaderWaits'
  BY ZenonT(40), Holder DEF ReaderWaits, NothingYet, Empty, HoldPcs, Roles,
      WritePcs, ReadPcs
<1>6. FirstByte'
  BY ZenonT(40), Holder DEF FirstByte, NothingYet, Empty, HoldPcs
<1>7. Bounded'
  BY ZenonT(40) DEF Bounded, Used
<1> QED BY <1>1, <1>2, <1>3, <1>4, <1>5, <1>6, <1>7

(* kill() wakes its victim. *)
LEMMA KillInv ==
  ASSUME IInv, NEW t \in Threads, kill(t)
  PROVE  IInv'
<1> USE DEF IInv, TypeOK, kill, pipeVars, openVars
<1>1. TypeOK'
  BY ZenonT(40) DEF Pcs
<1>2. Mutex'
  BY ZenonT(40) DEF Mutex, HoldPcs
<1>3. Roles'
  BY ZenonT(40) DEF Roles, WritePcs, ReadPcs
<1>4. WriterWaits'
  BY ZenonT(40), Holder DEF WriterWaits, Full, HoldPcs, Roles, WritePcs,
      ReadPcs
<1>5. ReaderWaits'
  BY ZenonT(40), Holder DEF ReaderWaits, NothingYet, Empty, HoldPcs, Roles,
      WritePcs, ReadPcs
<1>6. FirstByte'
  BY ZenonT(40), Holder DEF FirstByte, NothingYet, Empty, HoldPcs
<1>7. Bounded'
  BY ZenonT(40) DEF Bounded, Used
<1> QED BY <1>1, <1>2, <1>3, <1>4, <1>5, <1>6, <1>7

(* A call of pipewrite(). *)
LEMMA PipewriteInv ==
  ASSUME IInv, NEW t \in Threads, NEW k \in 0 .. MaxCount, pipewrite(t, k)
  PROVE  IInv'
<1> USE DEF IInv, TypeOK, pipewrite, Goto, pipeVars, openVars
<1>0. k \in Nat
  BY PipeAssumption
<1>1. TypeOK'
  BY ZenonT(40), <1>0 DEF Pcs
<1>2. Mutex'
  BY ZenonT(40) DEF Mutex, HoldPcs
<1>3. Roles'
  BY ZenonT(40) DEF Roles, WritePcs, ReadPcs
<1>4. WriterWaits'
  BY ZenonT(40), Holder DEF WriterWaits, Full, HoldPcs, Roles, WritePcs,
      ReadPcs
<1>5. ReaderWaits'
  BY ZenonT(40), Holder DEF ReaderWaits, NothingYet, Empty, HoldPcs, Roles,
      WritePcs, ReadPcs
<1>6. FirstByte'
  BY ZenonT(40), Holder DEF FirstByte, NothingYet, Empty, HoldPcs
<1>7. Bounded'
  BY ZenonT(40) DEF Bounded, Used
<1> QED BY <1>1, <1>2, <1>3, <1>4, <1>5, <1>6, <1>7

(* A call of piperead(). *)
LEMMA PipereadInv ==
  ASSUME IInv, NEW t \in Threads, NEW k \in 0 .. MaxCount, piperead(t, k)
  PROVE  IInv'
<1> USE DEF IInv, TypeOK, piperead, Goto, pipeVars, openVars
<1>0. k \in Nat
  BY PipeAssumption
<1>1. TypeOK'
  BY ZenonT(40), <1>0 DEF Pcs
<1>2. Mutex'
  BY ZenonT(40) DEF Mutex, HoldPcs
<1>3. Roles'
  BY ZenonT(40) DEF Roles, WritePcs, ReadPcs
<1>4. WriterWaits'
  BY ZenonT(40), Holder DEF WriterWaits, Full, HoldPcs, Roles, WritePcs,
      ReadPcs
<1>5. ReaderWaits'
  BY ZenonT(40), Holder DEF ReaderWaits, NothingYet, Empty, HoldPcs, Roles,
      WritePcs, ReadPcs
<1>6. FirstByte'
  BY ZenonT(40), Holder DEF FirstByte, NothingYet, Empty, HoldPcs
<1>7. Bounded'
  BY ZenonT(40) DEF Bounded, Used
<1> QED BY <1>1, <1>2, <1>3, <1>4, <1>5, <1>6, <1>7

(* pipeclose() of the writing end wakes the readers. *)
LEMMA CloseWriteInv ==
  ASSUME IInv, CloseWrite
  PROVE  IInv'
<1> USE DEF IInv, TypeOK, CloseWrite, pipeVars
<1>1. TypeOK'
  BY ZenonT(40) DEF Pcs
<1>2. Mutex'
  BY ZenonT(40) DEF Mutex, HoldPcs
<1>3. Roles'
  BY ZenonT(40) DEF Roles, WritePcs, ReadPcs
<1>4. WriterWaits'
  BY ZenonT(40), Holder DEF WriterWaits, Full, HoldPcs, Roles, WritePcs,
      ReadPcs
<1>5. ReaderWaits'
  BY ZenonT(40), Holder DEF ReaderWaits, NothingYet, Empty, HoldPcs, Roles,
      WritePcs, ReadPcs
<1>6. FirstByte'
  BY ZenonT(40), Holder DEF FirstByte, NothingYet, Empty, HoldPcs
<1>7. Bounded'
  BY ZenonT(40) DEF Bounded, Used
<1> QED BY <1>1, <1>2, <1>3, <1>4, <1>5, <1>6, <1>7

(* pipeclose() of the reading end wakes the writers. *)
LEMMA CloseReadInv ==
  ASSUME IInv, CloseRead
  PROVE  IInv'
<1> USE DEF IInv, TypeOK, CloseRead, pipeVars
<1>1. TypeOK'
  BY ZenonT(40) DEF Pcs
<1>2. Mutex'
  BY ZenonT(40) DEF Mutex, HoldPcs
<1>3. Roles'
  BY ZenonT(40) DEF Roles, WritePcs, ReadPcs
<1>4. WriterWaits'
  BY ZenonT(40), Holder DEF WriterWaits, Full, HoldPcs, Roles, WritePcs,
      ReadPcs
<1>5. ReaderWaits'
  BY ZenonT(40), Holder DEF ReaderWaits, NothingYet, Empty, HoldPcs, Roles,
      WritePcs, ReadPcs
<1>6. FirstByte'
  BY ZenonT(40), Holder DEF FirstByte, NothingYet, Empty, HoldPcs
<1>7. Bounded'
  BY ZenonT(40) DEF Bounded, Used
<1> QED BY <1>1, <1>2, <1>3, <1>4, <1>5, <1>6, <1>7

(* Every step of a pipe keeps the invariant. *)
LEMMA NextInv ==
  IInv /\ [Next]_vars => IInv'
<1> SUFFICES ASSUME IInv, [Next]_vars PROVE IInv'
  OBVIOUS
<1>1. ASSUME NEW t \in Threads, Inside(t)
      PROVE  IInv'
  BY <1>1, WriteFailsInv, WriteFullInv, WriteReturnsInv, WriteByteInv,
     ReadFailsInv, ReadEmptyInv, ReadReadyInv, ReadByteInv, CopyoutFailsInv,
     ReadReturnsInv, SleepInv, ResumeInv DEF Inside
<1>2. CASE UNCHANGED vars
  BY ZenonT(40), <1>2
     DEF vars, pipeVars, openVars, IInv, TypeOK, Mutex, Roles, WriterWaits,
         ReaderWaits, FirstByte, Bounded, Used, Full, Empty, NothingYet
<1> QED BY <1>1, <1>2, KillInv, PipewriteInv, PipereadInv, CloseWriteInv,
           CloseReadInv DEF Next

(* The invariant holds in every reachable state, for pipes of every size    *)
(* and any number of threads.                                               *)
THEOREM PipeInvariant == Spec => []IInv
BY InitInv, NextInv, PTL DEF Spec

(* Nobody sleeps in pipewrite() or piperead() for want of a wakeup().       *)
THEOREM NobodySleepsInVain == Spec => []SleepersAwaited
<1>1. IInv => SleepersAwaited
  BY ZenonT(40) DEF IInv, Mutex, HoldPcs, WriterWaits, ReaderWaits,
                    SleepersAwaited, Threads
<1> QED BY <1>1, PipeInvariant, PTL

(* piperead() returns nothing only at the end of the file.                  *)
THEOREM NothingMeansEndOfFile == Spec => EndOfFile
<1> DEFINE Eof == \A t \in Readers :
                    /\ pc[t] = "copy" /\ pc'[t] = "user"
                    /\ n[t] > 0 /\ i[t] = 0 /\ nread' = nread
                    => Empty /\ ~writeopen
<1>1. ASSUME IInv, [Next]_vars, NEW t \in Readers,
             pc[t] = "copy", pc'[t] = "user",
             n[t] > 0, i[t] = 0, nread' = nread
      PROVE  Empty /\ ~writeopen
  <2>1. /\ t \in Threads /\ lock = {t}
        /\ \A u \in Threads : pc[u] \in HoldPcs => u = t
    BY <1>1, Holder DEF Threads, HoldPcs
  <2>2. CopyoutFails(t) \/ ReadReturns(t)
    <3>1. ASSUME NEW u \in Threads, Inside(u)
          PROVE  CopyoutFails(t) \/ ReadReturns(t)
      <4>1. u = t
        BY ZenonT(60), <2>1, <3>1
           DEF Inside, HoldPcs, WriteFails, WriteFull, WriteByte, WriteReturns,
               ReadFails, ReadEmpty, ReadReady, ReadByte, CopyoutFails,
               ReadReturns, Sleep, Resume
      <4> QED BY ZenonT(60), <1>1, <3>1, <4>1
                 DEF Inside, WriteFails, WriteFull, WriteByte, WriteReturns,
                     ReadFails, ReadEmpty, ReadReady, ReadByte, Sleep, Resume
    <3>2. ASSUME NEW u \in Threads, kill(u)
          PROVE  FALSE
      BY <1>1, <2>1, <3>2 DEF kill, IInv, TypeOK
    <3>3. lock # {}
      BY <2>1
    <3> QED BY ZenonT(60), <1>1, <3>1, <3>2, <3>3
               DEF Next, vars, pipewrite, piperead, CloseWrite, CloseRead
  <2>3. ~CopyoutFails(t)
    BY <1>1, GetCount DEF CopyoutFails, IInv
  <2>4. More(t)
    BY <1>1, <2>1 DEF More, IInv, TypeOK
  <2> QED BY <1>1, <2>1, <2>2, <2>3, <2>4
             DEF ReadReturns, IInv, FirstByte, NothingYet
<1>2. IInv /\ [Next]_vars => [Eof]_vars
  BY <1>1
<1>3. Spec => [][Eof]_vars
  BY <1>2, PipeInvariant, PTL DEF Spec
<1> QED BY <1>3 DEF EndOfFile

-----------------------------------------------------------------------------
(* The bytes between nread and nwrite are a queue *)

(* The queue is the sequence of the bytes from nread on. *)
QueueFacts ==
  /\ Used \in Nat
  /\ Queue \in Seq(Bytes) /\ Len(Queue) = Used
  /\ \A k \in 1 .. Used : /\ (nread + k - 1) % PIPESIZE \in 0 .. PIPESIZE - 1
                          /\ Queue[k] = data[(nread + k - 1) % PIPESIZE]

(* Every state of a pipe holds such a queue. *)
LEMMA QueueType == TypeOK => QueueFacts
<1> SUFFICES ASSUME TypeOK PROVE QueueFacts
  OBVIOUS
<1>1. Used \in Nat /\ nread \in Int
  BY Counters, PipeAssumption DEF TypeOK, Used
<1>2. \A k \in 1 .. Used : (nread + k - 1) % PIPESIZE \in 0 .. PIPESIZE - 1
  BY <1>1, PipeAssumption, SMTT(30)
<1>3. \A k \in 1 .. Used : data[(nread + k - 1) % PIPESIZE] \in Bytes
  BY <1>2 DEF TypeOK
<1>4. Queue \in [1 .. Used -> Bytes]
  BY <1>3 DEF Queue
<1>5. Queue \in Seq(Bytes) /\ Len(Queue) = Used
  BY <1>1, <1>4, SeqDef, LenProperties
<1> QED BY <1>1, <1>2, <1>5 DEF Queue, QueueFacts

(* So does the state after a step. *)
LEMMA QueueTypeNext == TypeOK' => QueueFacts'
BY QueueType, PTL

(* WriteByte appends to the queue: the slot of nwrite is not one of those   *)
(* that hold a byte, and it is the one that follows them.                   *)
LEMMA QueuePut ==
  ASSUME TypeOK, Bounded, TypeOK', ~Full, NEW ch \in Bytes,
         data' = [data EXCEPT ![nwrite % PIPESIZE] = ch],
         nwrite' = (nwrite + 1) % UINT, nread' = nread
  PROVE  Len(Queue) < PIPESIZE /\ Queue' = Append(Queue, ch)
<1> DEFINE slot == nwrite % PIPESIZE
<1>1. /\ Used \in Nat /\ Used < PIPESIZE /\ Used' = Used + 1
      /\ nread \in Nat /\ nwrite \in Nat
  BY PutCount DEF TypeOK
<1>2. nread + Used = nwrite \/ nread + Used = UINT + nwrite
  <2>1. /\ nread \in 0 .. UINT - 1 /\ nwrite \in 0 .. UINT - 1
        /\ Used = (nwrite - nread) % UINT
    BY DEF TypeOK, Used
  <2>2. nread + Used = nwrite \/ nread + Used = nwrite + UINT
    BY <2>1, Counters
  <2> QED BY <2>1, <2>2, PipeAssumption
<1>3. (nread + Used) % PIPESIZE = slot
  <2>1. /\ PIPESIZE \in Nat \ {0} /\ UINT \in Nat /\ UINT % PIPESIZE = 0
        /\ nwrite \in Int
    BY <1>1, PipeAssumption
  <2>2. (UINT + nwrite) % PIPESIZE = slot
    BY <2>1, Multiple, ZenonT(40)
  <2> QED BY <1>2, <2>2
<1>4. ASSUME NEW k \in 1 .. Used
      PROVE  (nread + k - 1) % PIPESIZE # slot
  <2>1. /\ nread + k - 1 \in Int /\ nread + Used \in Int
        /\ nread + k - 1 < nread + Used
        /\ nread + Used < nread + k - 1 + PIPESIZE
    BY <1>1, PipeAssumption
  <2> QED BY <1>3, <2>1, DistinctMod, PipeAssumption
<1>5. slot \in 0 .. PIPESIZE - 1
  BY <1>1, PipeAssumption, SMTT(30)
<1>6. /\ Queue \in Seq(Bytes) /\ Len(Queue) = Used
      /\ \A k \in 1 .. Used : /\ (nread + k - 1) % PIPESIZE \in 0 .. PIPESIZE - 1
                              /\ Queue[k] = data[(nread + k - 1) % PIPESIZE]
  BY QueueType DEF QueueFacts
<1>7. /\ Queue' \in Seq(Bytes) /\ Len(Queue') = Used + 1
      /\ \A k \in 1 .. Used + 1 : Queue'[k] = data'[(nread + k - 1) % PIPESIZE]
  BY <1>1, QueueTypeNext DEF QueueFacts
<1>8. \A k \in 1 .. Used : Queue'[k] = Queue[k]
  BY <1>1, <1>4, <1>6, <1>7 DEF TypeOK
<1>9. Queue'[Used + 1] = ch
  <2>1. Used + 1 \in 1 .. Used + 1 /\ nread + (Used + 1) - 1 = nread + Used
    BY <1>1
  <2>2. Queue'[Used + 1] = data'[slot]
    BY <1>3, <1>7, <2>1
  <2> QED BY <1>5, <2>2 DEF TypeOK
<1>10. /\ Append(Queue, ch) \in Seq(Bytes) /\ Len(Append(Queue, ch)) = Used + 1
       /\ \A k \in 1 .. Used : Append(Queue, ch)[k] = Queue[k]
       /\ Append(Queue, ch)[Used + 1] = ch
  BY <1>6, AppendProperties
<1>11. \A k \in 1 .. Len(Queue') : Queue'[k] = Append(Queue, ch)[k]
  BY <1>1, <1>7, <1>8, <1>9, <1>10
<1>12. Queue' = Append(Queue, ch)
  BY <1>7, <1>10, <1>11, SeqEqual
<1> QED BY <1>1, <1>6, <1>12

(* ReadByte and CopyoutFails take the head of the queue. *)
LEMMA QueueGet ==
  ASSUME TypeOK, Bounded, TypeOK', ~Empty,
         data' = data, nwrite' = nwrite, nread' = (nread + 1) % UINT
  PROVE  Queue # << >> /\ Queue' = Tail(Queue)
<1>1. /\ Used \in Nat \ {0} /\ Used' = Used - 1
      /\ nread \in Nat /\ nread < UINT
  BY GetCount, PipeAssumption DEF TypeOK
<1>2. nread' = nread + 1 \/ (nread' = 0 /\ nread + 1 = UINT)
  BY <1>1, PipeAssumption, SMTT(30)
<1>3. ASSUME NEW k \in 1 .. Used - 1
      PROVE  (nread' + k - 1) % PIPESIZE = (nread + (k + 1) - 1) % PIPESIZE
  <2>1. CASE nread' = nread + 1
    <3>1. nread' + k - 1 = nread + (k + 1) - 1
      BY <1>1, <2>1
    <3> QED BY <3>1
  <2>2. CASE nread' = 0 /\ nread + 1 = UINT
    <3>1. /\ nread + (k + 1) - 1 = UINT + (nread' + k - 1)
          /\ nread' + k - 1 \in Int
      BY <1>1, <2>2, PipeAssumption
    <3> QED BY <3>1, Multiple, PipeAssumption
  <2> QED BY <1>2, <2>1, <2>2
<1>4. /\ Queue \in Seq(Bytes) /\ Len(Queue) = Used
      /\ \A k \in 1 .. Used : Queue[k] = data[(nread + k - 1) % PIPESIZE]
  BY QueueType DEF QueueFacts
<1>5. /\ Queue' \in Seq(Bytes) /\ Len(Queue') = Used - 1
      /\ \A k \in 1 .. Used - 1 : Queue'[k] = data[(nread' + k - 1) % PIPESIZE]
  BY <1>1, QueueTypeNext DEF QueueFacts
<1>6. Queue # << >>
  BY <1>1, <1>4, EmptySeq
<1>7. /\ Tail(Queue) \in Seq(Bytes) /\ Len(Tail(Queue)) = Used - 1
      /\ \A k \in 1 .. Used - 1 : Tail(Queue)[k] = Queue[k + 1]
  BY <1>4, <1>6, HeadTailProperties
<1>8. \A k \in 1 .. Len(Queue') : Queue'[k] = Tail(Queue)[k]
  <2> SUFFICES ASSUME NEW k \in 1 .. Used - 1 PROVE Queue'[k] = Queue[k + 1]
    BY <1>5, <1>7
  <2>1. k \in 1 .. Used /\ k + 1 \in 1 .. Used
    BY <1>1
  <2> QED BY <1>3, <1>4, <1>5, <2>1, ZenonT(40)
<1>9. Queue' = Tail(Queue)
  BY <1>5, <1>7, <1>8, SeqEqual
<1> QED BY <1>6, <1>9

(* A pipe implements the bounded queue Fifo: bytes come out in the order in *)
(* which they went in, none is lost or read twice, and never more than      *)
(* PIPESIZE are under way, for every size of the pipe and of its counters.  *)
THEOREM PipeIsFifo == Spec => IsFifo
<1>1. Init => F!Init
  <2> SUFFICES ASSUME Init PROVE F!Init
    OBVIOUS
  <2>1. TypeOK
    BY InitInv DEF IInv
  <2>2. Used = 0
    BY <2>1, Counters DEF Init, Used, TypeOK
  <2>3. Queue = << >>
    BY <2>1, <2>2, QueueType, EmptySeq DEF QueueFacts
  <2> QED BY <2>3 DEF Init, F!Init
<1>2. IInv /\ IInv' /\ [Next]_vars => [F!Next]_(F!vars)
  <2> SUFFICES ASSUME IInv, IInv', [Next]_vars PROVE [F!Next]_(F!vars)
    OBVIOUS
  <2> USE DEF F!Next, F!vars
  <2>1. ASSUME UNCHANGED <<pipeVars, openVars>>
        PROVE  UNCHANGED F!vars
    BY <2>1 DEF pipeVars, openVars, Queue, Used
  <2>2. ASSUME NEW t \in Threads, NEW ch \in Bytes, WriteByte(t, ch)
        PROVE  F!Put(ch)
    BY <2>2, QueuePut, ZenonT(40)
       DEF WriteByte, openVars, IInv, Roles, WritePcs, F!Put
  <2>3. ASSUME NEW t \in Threads, ReadByte(t) \/ CopyoutFails(t)
        PROVE  F!Get
    BY <2>3, QueueGet DEF ReadByte, CopyoutFails, openVars, IInv, Roles, ReadPcs, F!Get
  <2>4. CloseWrite => F!CloseWrite
    BY DEF CloseWrite, F!CloseWrite, pipeVars, Queue, Used
  <2>5. CloseRead => F!CloseRead
    BY DEF CloseRead, F!CloseRead, pipeVars, Queue, Used
  <2>6. ASSUME NEW t \in Threads, Inside(t)
        PROVE  [F!Next]_(F!vars)
    BY <2>1, <2>2, <2>3, <2>6
       DEF Inside, WriteFails, WriteFull, WriteReturns, ReadFails, ReadEmpty,
           ReadReady, ReadReturns, Sleep, Resume
  <2> QED BY <2>1, <2>4, <2>5, <2>6 DEF Next, vars, kill, pipewrite, piperead
<1> QED BY <1>1, <1>2, PipeInvariant, PTL DEF Spec, IsFifo, F!Spec
=============================================================================
