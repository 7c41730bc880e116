-------------------------- MODULE FileBlocksProofs --------------------------
(***************************************************************************)
(* The blocks of files, for any number of processes, files and blocks,     *)
(* every block size and every size of the log. The invariant says of a     *)
(* writei() in progress which bytes it may reach (Extent), that those it   *)
(* has passed have blocks (Filled), and which blocks its transaction may   *)
(* have written (Logged). That blocks have one owner is a statement about  *)
(* a table of names (Owns), which balloc() extends and itrunc() shortens.  *)
(***************************************************************************)
EXTENDS FileBlocks, FiniteSetTheorems, WellFoundedInduction, TLAPS

-----------------------------------------------------------------------------
(* The inductive invariant *)

Local == [f : Files \cup {0}, n : Nat, start : Nat, off : Nat, n1 : Nat,
          tx : SUBSET Int]

TypeInv ==
  /\ bitmap \subseteq Blocks
  /\ addrs \in [Inums -> [0 .. MAXFILE - 1 -> 0 .. NBLOCKS]]
  /\ ind \in [Inums -> 0 .. NBLOCKS]
  /\ size \in [Inums -> Nat]
  /\ lock \in [Inums -> Procs \cup {NoProc}]
  /\ off \in [Files -> Nat]
  /\ pc \in [Procs -> {"user", "chunk", "writei", "short"}]
  /\ loc \in [Procs -> Local]

Busy(p) == pc[p] \in {"writei", "short"}

(* The writei() with locals l works on bytes that its transaction and the  *)
(* file have room for.                                                     *)
Extent(l, sz) ==
  /\ l.start <= sz /\ l.start <= l.off /\ l.off <= l.start + l.n1
  /\ l.n1 <= l.n /\ l.n1 <= MaxChunk
  /\ l.start + l.n1 <= MAXFILE * BSIZE

(* All that it has passed over has blocks. *)
Filled(l, as) ==
  \A bn \in 0 .. MAXFILE - 1 : bn * BSIZE < l.off => as[bn] # 0

(* The blocks of the file that it may touch. *)
Touched(l) ==
  {bn \in 0 .. MAXFILE - 1 : l.start \div BSIZE <= bn
                             /\ bn <= (l.start + l.n1) \div BSIZE}

(* What the transaction has written is one of these blocks, the indirect   *)
(* block, the inode or the bitmap.                                         *)
Logged(l, as, in) ==
  l.tx \subseteq {INODE, BITMAP} \cup (({in} \cup {as[bn] : bn \in Touched(l)}) \ {0})

Writer(p) ==
  LET l == loc[p]
      i == Ino[l.f]
  IN  /\ pc[p] # "user" => l.f \in Files
      /\ ~Busy(p) => l.tx = {}
      /\ Busy(p) => /\ lock[i] = p
                    /\ off[l.f] = l.start
                    /\ Extent(l, size[i])
                    /\ Filled(l, addrs[i])
                    /\ Logged(l, addrs[i], ind[i])

IInv ==
  /\ TypeInv
  /\ panic = "no"
  /\ \A p \in Procs : Writer(p)
  /\ BlocksOwned
  /\ Mapped

-----------------------------------------------------------------------------
(* Arithmetic and the smallest element of a set *)

(* A set of natural numbers has a smallest element, and Min is that. *)
LEMMA MinIn ==
  ASSUME NEW S \in SUBSET Nat, S # {}
  PROVE  /\ Min(S) \in S
         /\ \A y \in S : Min(S) <= y
<1> DEFINE R == OpToRel(<, Nat)
<1>1. \A x, y \in Nat : <<x, y>> \in R <=> x < y
  BY DEF OpToRel
<1>2. IsWellFoundedOn(R, Nat)
  BY NatLessThanWellFounded, ZenonT(40)
<1> HIDE DEF R
<1>3. PICK x \in S : \A y \in S : ~ (<<y, x>> \in R)
  BY <1>2, WFMin, ZenonT(40)
<1>4. \A y \in S : x <= y
  <2> TAKE y \in S
  <2>1. x \in Nat /\ y \in Nat
    OBVIOUS
  <2>2. ~ (<<y, x>> \in R)
    BY <1>3
  <2>3. ~ (y < x)
    BY <1>1, <2>1, <2>2
  <2> QED BY <2>1, <2>3
<1> QED
  BY <1>3, <1>4, ZenonT(40) DEF Min
(* Quotient and remainder of the division by a block size. *)
LEMMA DivMod ==
  ASSUME NEW o \in Nat, NEW B \in Nat \ {0}
  PROVE  /\ o \div B \in Nat /\ o % B \in 0 .. B - 1
         /\ o = B * (o \div B) + (o % B)
  BY Z3
(* Multiplying by a block size keeps the order. *)
LEMMA MultLt ==
  ASSUME NEW a \in Nat, NEW b \in Nat, NEW k \in Nat \ {0}
  PROVE  (a * k < b * k) <=> (a < b)
  BY Z3
(* The smaller of two numbers. *)
LEMMA Min2 ==
  ASSUME NEW a \in Int, NEW b \in Int
  PROVE  Min({a, b}) = IF a <= b THEN a ELSE b
<1> DEFINE m == IF a <= b THEN a ELSE b
<1>1. m \in {a, b} /\ \A y \in {a, b} : m <= y
  OBVIOUS
<1>2. \A x \in {a, b} : (\A y \in {a, b} : x <= y) => x = m
  OBVIOUS
<1> HIDE DEF m
<1>3. Min({a, b}) = m
  BY <1>1, <1>2 DEF Min
<1> QED BY <1>3 DEF m
(* The larger of two numbers. *)
LEMMA Max2 ==
  ASSUME NEW a \in Int, NEW b \in Int
  PROVE  Max({a, b}) = IF a >= b THEN a ELSE b
<1> DEFINE m == IF a >= b THEN a ELSE b
<1>1. m \in {a, b} /\ \A y \in {a, b} : m >= y
  OBVIOUS
<1>2. \A x \in {a, b} : (\A y \in {a, b} : x >= y) => x = m
  OBVIOUS
<1> HIDE DEF m
<1>3. Max({a, b}) = m
  BY <1>1, <1>2 DEF Max
<1> QED BY <1>3 DEF m

(* A range of n1 bytes, K blocks at most, touches K + 1 blocks at most. *)
LEMMA Span ==
  ASSUME NEW B \in Nat \ {0}, NEW K \in Nat, NEW s \in Nat, NEW m \in Nat,
         m <= K * B
  PROVE  (s + m) \div B <= (s \div B) + K
<1> DEFINE q == s \div B
           z == (s + m) \div B
<1>1. q \in Nat /\ (s % B) \in 0 .. B - 1 /\ s = B * q + (s % B)
  BY DivMod, ZenonT(40)
<1>2. z \in Nat /\ ((s + m) % B) \in 0 .. B - 1 /\ s + m = B * z + ((s + m) % B)
  <2>1. s + m \in Nat
    OBVIOUS
  <2> QED
    BY <2>1, DivMod, ZenonT(40)
<1> HIDE DEF q, z
<1>3. B * z <= s + m
  BY <1>2
<1>4. s + m < B * q + B + K * B
  BY <1>1
<1>5. B * q + B + K * B = (q + 1 + K) * B
  BY <1>1, Z3
<1>6. z * B < (q + 1 + K) * B
  BY <1>1, <1>2, <1>3, <1>4, <1>5, Z3
<1>7. z < q + 1 + K
  BY <1>1, <1>2, <1>6, MultLt
<1>8. z <= q + K
  BY <1>1, <1>2, <1>7
<1> QED
  BY <1>8 DEF q, z

(* A later byte is in no earlier block. *)
LEMMA DivMono ==
  ASSUME NEW B \in Nat \ {0}, NEW s \in Nat, NEW t \in Nat, s <= t
  PROVE  (s \div B) <= (t \div B)
<1> DEFINE q == s \div B
           z == t \div B
<1>1. q \in Nat /\ (s % B) \in 0 .. B - 1 /\ s = B * q + (s % B)
  BY DivMod, ZenonT(40)
<1>2. z \in Nat /\ (t % B) \in 0 .. B - 1 /\ t = B * z + (t % B)
  BY DivMod, ZenonT(40)
<1> HIDE DEF q, z
<1>3. q * B < (z + 1) * B
  BY <1>1, <1>2, Z3
<1>4. q < z + 1
  BY <1>1, <1>2, <1>3, MultLt
<1> QED
  BY <1>1, <1>2, <1>4 DEF q, z

(* The block of an offset below the largest size of a file. *)
LEMMA DivBound ==
  ASSUME NEW B \in Nat \ {0}, NEW s \in Nat, NEW k \in Nat, s < k * B
  PROVE  (s \div B) \in 0 .. k - 1
<1> DEFINE q == s \div B
<1>1. q \in Nat /\ (s % B) \in 0 .. B - 1 /\ s = B * q + (s % B)
  BY DivMod, ZenonT(40)
<1> HIDE DEF q
<1>2. q * B < k * B
  BY <1>1, Z3
<1>3. q < k
  BY <1>1, <1>2, MultLt
<1> QED
  BY <1>1, <1>3 DEF q

(* The turn of writei() at offset s reaches no further than the end of the *)
(* block of s.                                                             *)
LEMMA WithinBlock ==
  ASSUME NEW B \in Nat \ {0}, NEW s \in Nat, NEW m \in Nat, m <= B - (s % B),
         NEW bn \in Nat, bn * B < s + m
  PROVE  bn = s \div B \/ bn * B < s
<1> DEFINE q == s \div B
<1>1. q \in Nat /\ (s % B) \in 0 .. B - 1 /\ s = B * q + (s % B)
  BY DivMod
<1> HIDE DEF q
<1>2. bn * B < (q + 1) * B
  BY <1>1, Z3
<1>3. bn < q + 1
  BY <1>1, <1>2, MultLt
<1>4. CASE bn < q
  <2>1. bn * B < q * B
    BY <1>1, <1>4, MultLt
  <2> QED
    BY <1>1, <2>1, Z3
<1> QED
  BY <1>1, <1>3, <1>4 DEF q

-----------------------------------------------------------------------------
(* balloc() and the ownership of blocks *)

(* balloc() returns a block that is not in use, or 0. *)
LEMMA BallocLemma ==
  ASSUME NEW used
  PROVE  balloc(used) = 0 \/ balloc(used) \in Blocks \ used
<1>1. CASE ~(Blocks \subseteq used)
  <2>1. Blocks \ used # {} /\ Blocks \ used \in SUBSET Nat
    BY <1>1, FileBlocksAssumption DEF Blocks
  <2>2. Min(Blocks \ used) \in Blocks \ used
    BY <2>1, MinIn, Zenon
  <2> QED
    BY <1>1, <2>2, Zenon DEF balloc
<1>2. CASE Blocks \subseteq used
  BY <1>2 DEF balloc
<1> QED
  BY <1>1, <1>2

(* The places of P name the blocks of S, each once; 0 is no block. *)
Owns(N, P, S) ==
  /\ S = {N[x] : x \in P} \ {0}
  /\ \A x, y \in P : N[x] = N[y] /\ N[x] # 0 => x = y

(* A free place is given a free block, or stays as it is. *)
LEMMA AddName ==
  ASSUME NEW P, NEW V, NEW N \in [P -> V], NEW S, Owns(N, P, S),
         NEW x \in P, NEW b,
         b = N[x] \/ (N[x] = 0 /\ (b = 0 \/ b \notin S))
  PROVE  Owns([N EXCEPT ![x] = b], P, S \cup ({b} \ {0}))
<1> DEFINE M == [N EXCEPT ![x] = b]
<1>1. M[x] = b /\ \A y \in P : y # x => M[y] = N[y]
  OBVIOUS
<1>2. CASE b = N[x]
  <2>1. M = N
    BY <1>2
  <2>2. S \cup ({b} \ {0}) = S
    BY <1>2 DEF Owns
  <2> QED
    BY <2>1, <2>2, ZenonT(40)
<1>3. CASE N[x] = 0 /\ (b = 0 \/ b \notin S)
  <2> HIDE DEF M
  <2>1. \A y \in P : N[y] # 0 => N[y] \in S
    BY Zenon DEF Owns
  <2>2. ASSUME NEW y \in P, NEW z \in P, M[y] = M[z], M[y] # 0
        PROVE  y = z
    <3>1. CASE y # x /\ z # x
      BY <1>1, <2>2, <3>1, Zenon DEF Owns
    <3>2. CASE y = x /\ z # x
      BY <1>1, <1>3, <2>1, <2>2, <3>2, Zenon
    <3>3. CASE y # x /\ z = x
      BY <1>1, <1>3, <2>1, <2>2, <3>3, Zenon
    <3> QED
      BY <3>1, <3>2, <3>3
  <2>3. S \cup ({b} \ {0}) = {M[y] : y \in P} \ {0}
    <3>1. ASSUME NEW c \in S \cup ({b} \ {0})
          PROVE  c \in {M[y] : y \in P} \ {0}
      <4>1. CASE c = b /\ b # 0
        BY <1>1, <4>1, Zenon
      <4>2. CASE c \in S
        <5>1. PICK y \in P : c = N[y] /\ c # 0
          BY <4>2, Zenon DEF Owns
        <5>2. y # x
          BY <1>3, <5>1
        <5> QED
          BY <1>1, <5>1, <5>2, Zenon
      <4> QED
        BY <3>1, <4>1, <4>2, Zenon
    <3>2. ASSUME NEW y \in P, M[y] # 0
          PROVE  M[y] \in S \cup ({b} \ {0})
      BY <1>1, <2>1, <3>2, Zenon
    <3> QED
      BY <3>1, <3>2, Zenon
  <2> QED
    BY <2>2, <2>3, Zenon DEF Owns, M
<1> QED
  BY <1>2, <1>3

(* The places of Q are cleared. *)
Dropped(N, P, Q) == [x \in P |-> IF x \in Q THEN 0 ELSE N[x]]

(* Places that lose their names give back exactly the blocks they named. *)
LEMMA DropNames ==
  ASSUME NEW P, NEW N, NEW S, Owns(N, P, S), NEW Q, Q \subseteq P
  PROVE  Owns(Dropped(N, P, Q), P, S \ {N[x] : x \in Q})
<1> DEFINE M == Dropped(N, P, Q)
<1>1. \A x \in P : M[x] = IF x \in Q THEN 0 ELSE N[x]
  BY Zenon DEF Dropped
<1> HIDE DEF M
<1>2. \A x, y \in P : M[x] = M[y] /\ M[x] # 0 => x = y
  BY <1>1, Zenon DEF Owns
<1>3. ASSUME NEW c \in S \ {N[x] : x \in Q}
      PROVE  c \in {M[x] : x \in P} \ {0}
  <2>1. PICK x \in P : c = N[x] /\ c # 0
    BY <1>3, Zenon DEF Owns
  <2>2. x \notin Q
    BY <1>3, <2>1, Zenon
  <2> QED
    BY <1>1, <2>1, <2>2, Zenon
<1>4. ASSUME NEW x \in P, M[x] # 0
      PROVE  M[x] \in S \ {N[y] : y \in Q}
  <2>1. x \notin Q /\ M[x] = N[x] /\ N[x] # 0
    BY <1>1, <1>4, Zenon
  <2>2. M[x] \in S
    BY <2>1, Zenon DEF Owns
  <2>3. \A y \in Q : N[y] # N[x]
    BY <2>1, Zenon DEF Owns
  <2> QED
    BY <2>1, <2>2, <2>3, Zenon
<1>5. S \ {N[x] : x \in Q} = {M[x] : x \in P} \ {0}
  BY <1>3, <1>4, Zenon
<1> QED
  BY <1>2, <1>5, Zenon DEF Owns, M

(* BlocksOwned in terms of Owns *)
NP == Inums \X Places
NamesOf(as, in) == [x \in NP |-> IF x[2] = MAXFILE THEN in[x[1]] ELSE as[x[1]][x[2]]]

OwnedIn(bm, as, in) ==
  LET E(i, s) == IF s = MAXFILE THEN in[i] ELSE as[i][s]
  IN  /\ \A b \in Blocks : b \in bm <=> \E i \in Inums, s \in Places : E(i, s) = b
      /\ \A i, j \in Inums, s, t \in Places :
           E(i, s) = E(j, t) /\ E(i, s) # 0 => i = j /\ s = t

(* BlocksOwned says that the places of all inodes own the bits of the      *)
(* bitmap.                                                                 *)
LEMMA OwnedIff ==
  ASSUME NEW bm \in SUBSET Blocks,
         NEW as \in [Inums -> [0 .. MAXFILE - 1 -> 0 .. NBLOCKS]],
         NEW in \in [Inums -> 0 .. NBLOCKS]
  PROVE  /\ NamesOf(as, in) \in [NP -> 0 .. NBLOCKS]
         /\ OwnedIn(bm, as, in) <=> Owns(NamesOf(as, in), NP, bm)
<1> DEFINE N == NamesOf(as, in)
           E(i, s) == IF s = MAXFILE THEN in[i] ELSE as[i][s]
<1>1. \A i \in Inums, s \in Places : <<i, s>> \in NP /\ N[<<i, s>>] = E(i, s)
  BY ZenonT(40) DEF NamesOf, NP
<1>2. \A x \in NP : \E i \in Inums, s \in Places : x = <<i, s>>
  BY DEF NP
<1>3. N \in [NP -> 0 .. NBLOCKS]
  <2>1. \A i \in Inums, s \in Places : E(i, s) \in 0 .. NBLOCKS
    <3> TAKE i \in Inums, s \in Places
    <3>1. in[i] \in 0 .. NBLOCKS /\ as[i] \in [0 .. MAXFILE - 1 -> 0 .. NBLOCKS]
      BY ZenonT(40)
    <3>2. s # MAXFILE => s \in 0 .. MAXFILE - 1
      BY FileBlocksAssumption DEF Places, MAXFILE
    <3> QED
      BY <3>1, <3>2, ZenonT(40)
  <2> QED
    BY <2>1, ZenonT(40) DEF NamesOf, NP
<1>4. \A c : c \in Blocks <=> c \in 0 .. NBLOCKS /\ c # 0
  BY FileBlocksAssumption DEF Blocks
<1>5. (\A b \in Blocks : b \in bm <=> \E i \in Inums, s \in Places : E(i, s) = b)
      <=> bm = {N[x] : x \in NP} \ {0}
  <2> HIDE DEF E, N
  <2>1. \A b : (\E i \in Inums, s \in Places : E(i, s) = b) <=> b \in {N[x] : x \in NP}
    <3> TAKE b
    <3>1. ASSUME NEW i \in Inums, NEW s \in Places, E(i, s) = b
          PROVE  b \in {N[x] : x \in NP}
      BY <1>1, <3>1, Zenon
    <3>2. ASSUME NEW x \in NP, b = N[x]
          PROVE  \E i \in Inums, s \in Places : E(i, s) = b
      <4>1. PICK i \in Inums, s \in Places : x = <<i, s>>
        BY <1>2, Zenon
      <4> QED
        BY <1>1, <3>2, <4>1, Zenon
    <3> QED
      BY <3>1, <3>2, Zenon
  <2>2. \A b \in {N[x] : x \in NP} \ {0} : b \in Blocks
    BY <1>3, <1>4
  <2>3. \A b \in Blocks : b # 0
    BY <1>4
  <2> QED
    BY <2>1, <2>2, <2>3, Zenon
<1>6. (\A x, y \in NP : N[x] = N[y] /\ N[x] # 0 => x = y)
      <=> (\A i, j \in Inums, s, t \in Places :
             E(i, s) = E(j, t) /\ E(i, s) # 0 => i = j /\ s = t)
  <2> HIDE DEF E, N
  <2>1. ASSUME \A x, y \in NP : N[x] = N[y] /\ N[x] # 0 => x = y,
               NEW i \in Inums, NEW j \in Inums, NEW s \in Places, NEW t \in Places,
               E(i, s) = E(j, t), E(i, s) # 0
        PROVE  i = j /\ s = t
    <3>1. <<i, s>> = <<j, t>>
      BY <1>1, <2>1, Zenon
    <3> QED
      BY <3>1
  <2>2. ASSUME \A i, j \in Inums, s, t \in Places :
                 E(i, s) = E(j, t) /\ E(i, s) # 0 => i = j /\ s = t,
               NEW x \in NP, NEW y \in NP, N[x] = N[y], N[x] # 0
        PROVE  x = y
    <3>1. PICK i \in Inums, s \in Places : x = <<i, s>>
      BY <1>2
    <3>2. PICK j \in Inums, t \in Places : y = <<j, t>>
      BY <1>2
    <3>3. E(i, s) = E(j, t) /\ E(i, s) # 0
      BY <1>1, <2>2, <3>1, <3>2, ZenonT(30)
    <3>4. i = j /\ s = t
      BY <2>2, <3>3
    <3> QED
      BY <3>1, <3>2, <3>4
  <2> QED
    BY <2>1, <2>2
<1> HIDE DEF N, E
<1> QED
  BY <1>5, <1>6, <1>3, Zenon DEF OwnedIn, Owns, N, E

-----------------------------------------------------------------------------
(* Constants, and the initial states *)

(* The bytes of a chunk in filewrite() are a natural number. *)
LEMMA ChunkType == MaxChunk \in Nat
  BY FileBlocksAssumption DEF MaxChunk

(* The sizes of the file system are positive. *)
LEMMA MaxType == MAXFILE \in Nat \ {0} /\ NDIRECT \in Nat \ {0} /\ BSIZE \in Nat \ {0}
                 /\ NBLOCKS \in Nat \ {0}
  BY FileBlocksAssumption DEF MAXFILE

(* The invariant holds for an empty file system. *)
LEMMA InitInv == Init => IInv
<1> SUFFICES ASSUME Init PROVE IInv
  OBVIOUS
<1>1. TypeInv
  BY MaxType DEF Init, TypeInv, Idle, Local
<1>2. \A p \in Procs : Writer(p)
  BY DEF Init, Writer, Busy, Idle
<1>3. BlocksOwned
  <2>1. \A i \in Inums, s \in Places : Named(i, s) = 0
    BY MaxType DEF Init, Named, Places
  <2>2. \A b \in Blocks : b # 0
    BY MaxType DEF Blocks
  <2> QED
    BY <2>1, <2>2, Zenon DEF BlocksOwned, Init
<1>4. Mapped
  BY MaxType DEF Init, Mapped
<1> QED
  BY <1>1, <1>2, <1>3, <1>4 DEF IInv, Init

-----------------------------------------------------------------------------
(* A process whose file nobody touches goes on as it was. *)
LEMMA WriterFrame ==
  ASSUME NEW p \in Procs, Writer(p), pc'[p] = pc[p], loc'[p] = loc[p],
         Busy(p) => LET i == Ino[loc[p].f]
                    IN  /\ lock'[i] = lock[i] /\ off'[loc[p].f] = off[loc[p].f]
                        /\ size'[i] = size[i] /\ addrs'[i] = addrs[i]
                        /\ ind'[i] = ind[i]
  PROVE  Writer(p)'
  BY DEF Writer, Busy, Extent, Filled, Logged

(* A lock that is free, or that another process holds, is not p's. *)
LEMMA NotMine ==
  ASSUME IInv, NEW p \in Procs, Busy(p)
  PROVE  /\ lock[Ino[loc[p].f]] = p /\ lock[Ino[loc[p].f]] # NoProc
         /\ loc[p].f \in Files /\ Ino[loc[p].f] \in Inums
         /\ \A q \in Procs : Busy(q) /\ q # p => Ino[loc[q].f] # Ino[loc[p].f]
  BY FileBlocksAssumption DEF IInv, Writer, Busy

(* A step that leaves the blocks and sizes alone *)
LEMMA BlocksFrame ==
  ASSUME BlocksOwned, Mapped, UNCHANGED <<bitmap, addrs, ind, size>>
  PROVE  BlocksOwned' /\ Mapped'
  BY DEF BlocksOwned, Mapped, Named

(* sys_open() keeps the invariant. *)
LEMMA OpenInv ==
  ASSUME IInv, NEW f \in Files, Open(f)
  PROVE  IInv'
<1>1. TypeInv'
  BY DEF IInv, TypeInv, Open
<1>2. ASSUME NEW p \in Procs
      PROVE  Writer(p)'
  <2>1. Busy(p) => loc[p].f # f
    BY DEF Open, InUse, Busy
  <2>2. off \in [Files -> Nat] /\ (Busy(p) => loc[p].f \in Files)
    BY NotMine DEF IInv, TypeInv
  <2> QED
    BY <2>1, <2>2, WriterFrame DEF Open, IInv
<1> QED
  BY <1>1, <1>2, BlocksFrame DEF IInv, Open

(* fileread() keeps the invariant: only f->off moves. *)
LEMMA ReadInv ==
  ASSUME IInv, NEW f \in Files, NEW n \in ReadSizes, Read(f, n)
  PROVE  IInv'
<1> DEFINE i == Ino[f]
           r == readi(i, off[f], n)
<1>1. i \in Inums /\ off[f] \in Nat /\ size[i] \in Nat /\ n \in Nat
  BY FileBlocksAssumption DEF IInv, TypeInv
<1>2. r \in Nat
  <2>1. CASE off[f] > size[i]
    BY <1>1, <2>1 DEF readi
  <2>2. CASE ~(off[f] > size[i])
    <3>1. n \in Int /\ size[i] - off[f] \in Int /\ size[i] - off[f] >= 0
      BY <1>1, <2>2
    <3>2. Min({n, size[i] - off[f]}) \in Nat
      BY <1>1, <3>1, Min2
    <3> QED
      BY <2>2, <3>2 DEF readi
  <2> QED
    BY <2>1, <2>2
<1> HIDE DEF r
<1>3. lock[i] = NoProc /\ off' = [off EXCEPT ![f] = @ + r]
      /\ UNCHANGED <<bitmap, addrs, ind, size, lock, pc, loc, panic>>
  BY DEF Read, r
<1>4. TypeInv'
  BY <1>1, <1>2, <1>3 DEF IInv, TypeInv
<1>5. ASSUME NEW p \in Procs
      PROVE  Writer(p)'
  <2>1. Busy(p) => loc[p].f # f
    BY <1>3, NotMine
  <2>2. off \in [Files -> Nat] /\ (Busy(p) => loc[p].f \in Files)
    BY NotMine DEF IInv, TypeInv
  <2> QED
    BY <1>3, <2>1, <2>2, WriterFrame DEF IInv
<1> QED
  BY <1>3, <1>4, <1>5, BlocksFrame DEF IInv

(* filewrite() keeps the invariant when it is called. *)
LEMMA WriteInv ==
  ASSUME IInv, NEW p \in Procs, NEW f \in Files, NEW n \in WriteSizes, Write(p, f, n)
  PROVE  IInv'
<1>1. n \in Nat
  BY FileBlocksAssumption
<1>2. [Idle EXCEPT !.f = f, !.n = n] \in Local
  BY <1>1, ZenonT(40) DEF Idle, Local
<1>3. TypeInv'
  BY <1>2 DEF IInv, TypeInv, Write
<1>4. ASSUME NEW q \in Procs
      PROVE  Writer(q)'
  <2>1. CASE q = p
    <3>1. pc'[p] = "chunk" /\ loc'[p].f = f /\ loc'[p].tx = {}
      BY DEF Write, IInv, TypeInv, Idle
    <3> QED
      BY <2>1, <3>1 DEF Writer, Busy
  <2>2. CASE q # p
    BY <2>2, WriterFrame DEF Write, IInv, TypeInv
  <2> QED
    BY <2>1, <2>2
<1> QED
  BY <1>3, <1>4, BlocksFrame DEF IInv, Write

(* BlocksOwned, now and in the next state, in terms of Owns *)
LEMMA OwnedNow ==
  ASSUME TypeInv
  PROVE  /\ NamesOf(addrs, ind) \in [NP -> 0 .. NBLOCKS]
         /\ BlocksOwned <=> Owns(NamesOf(addrs, ind), NP, bitmap)
<1>1. BlocksOwned <=> OwnedIn(bitmap, addrs, ind)
  BY ZenonT(30) DEF BlocksOwned, OwnedIn, Named
<1> QED
  BY <1>1, OwnedIff, ZenonT(40) DEF TypeInv

(* BlocksOwned in the next state says the same of the new values. *)
LEMMA OwnedNext ==
  ASSUME TypeInv'
  PROVE  BlocksOwned' <=> Owns(NamesOf(addrs', ind'), NP, bitmap')
<1>1. BlocksOwned' <=> OwnedIn(bitmap', addrs', ind')
  BY ZenonT(30) DEF BlocksOwned, OwnedIn, Named
<1> QED
  BY <1>1, OwnedIff, ZenonT(40) DEF TypeInv

(* itrunc() keeps the invariant: it frees what the inode names and finds   *)
(* none of it free.                                                        *)
LEMMA TruncateInv ==
  ASSUME IInv, NEW i \in Inums, Truncate(i)
  PROVE  IInv'
<1> DEFINE zero == [bn \in 0 .. MAXFILE - 1 |-> 0]
           N == NamesOf(addrs, ind)
           Q == {x \in NP : x[1] = i}
<1>1. TypeInv'
  <2>1. zero \in [0 .. MAXFILE - 1 -> 0 .. NBLOCKS] /\ 0 \in 0 .. NBLOCKS
    BY MaxType
  <2>2. addrs' = [addrs EXCEPT ![i] = zero] /\ ind' = [ind EXCEPT ![i] = 0]
        /\ size' = [size EXCEPT ![i] = 0]
    BY DEF Truncate, itrunc
  <2>3. bitmap' \subseteq bitmap
    BY ZenonT(40) DEF Truncate, itrunc, bfree
  <2> HIDE DEF zero
  <2> QED
    BY <2>1, <2>2, <2>3 DEF IInv, TypeInv, Truncate
<1>2. ASSUME NEW p \in Procs
      PROVE  Writer(p)'
  <2>1. Busy(p) => Ino[loc[p].f] \in Inums /\ Ino[loc[p].f] # i
    BY NotMine DEF Truncate
  <2> QED
    BY <2>1, WriterFrame, ZenonT(40) DEF Truncate, itrunc, IInv, TypeInv
<1>3. N \in [NP -> 0 .. NBLOCKS] /\ Owns(N, NP, bitmap)
  BY OwnedNow DEF IInv
<1>4. {N[x] : x \in Q} = {addrs[i][bn] : bn \in 0 .. MAXFILE - 1} \cup {ind[i]}
  <2>1. \A s \in Places : <<i, s>> \in Q
                          /\ N[<<i, s>>] = IF s = MAXFILE THEN ind[i] ELSE addrs[i][s]
    BY DEF NamesOf, NP
  <2>2. \A x \in Q : \E s \in Places : x = <<i, s>>
    BY DEF NP
  <2>3. MAXFILE \in Places /\ (\A s : s \in 0 .. MAXFILE - 1 <=> s \in Places /\ s # MAXFILE)
    BY MaxType DEF Places
  <2> HIDE DEF N, Q
  <2>4. ASSUME NEW x \in Q
        PROVE  N[x] \in {addrs[i][bn] : bn \in 0 .. MAXFILE - 1} \cup {ind[i]}
    BY <2>1, <2>2, <2>3, Zenon
  <2>5. ASSUME NEW s \in 0 .. MAXFILE - 1
        PROVE  addrs[i][s] \in {N[x] : x \in Q}
    BY <2>1, <2>3, Zenon
  <2>6. ind[i] \in {N[x] : x \in Q}
    BY <2>1, <2>3, Zenon
  <2> QED
    BY <2>4, <2>5, <2>6, Zenon
<1>5. 0 \notin bitmap /\ BlocksOf(i) \subseteq bitmap
  <2>1. {N[x] : x \in Q} \subseteq {N[x] : x \in NP}
    BY Zenon
  <2> QED
    BY <1>3, <1>4, <2>1, Zenon DEF Owns, BlocksOf
<1>6. bitmap' = bitmap \ {N[x] : x \in Q} /\ panic' = "no"
  <2>1. bitmap \ BlocksOf(i) = bitmap \ {N[x] : x \in Q}
    BY <1>4, <1>5, Zenon DEF BlocksOf
  <2> QED
    BY <1>5, <2>1 DEF Truncate, itrunc, bfree, IInv
<1>7. NamesOf(addrs', ind') = Dropped(N, NP, Q)
  <2>1. \A j \in Inums, s \in Places :
          (IF s = MAXFILE THEN ind'[j] ELSE addrs'[j][s])
          = IF j = i THEN 0 ELSE IF s = MAXFILE THEN ind[j] ELSE addrs[j][s]
    <3> TAKE j \in Inums, s \in Places
    <3>1. addrs'[j] = (IF j = i THEN zero ELSE addrs[j])
          /\ ind'[j] = (IF j = i THEN 0 ELSE ind[j])
      BY DEF Truncate, itrunc, IInv, TypeInv
    <3>2. s # MAXFILE => s \in 0 .. MAXFILE - 1
      BY MaxType DEF Places
    <3> QED
      BY <3>1, <3>2
  <2> QED
    BY <2>1 DEF NamesOf, NP, Dropped
<1>8. BlocksOwned'
  <2> HIDE DEF N, Q
  <2>1. Q \subseteq NP
    BY DEF Q
  <2>2. Owns(Dropped(N, NP, Q), NP, bitmap \ {N[x] : x \in Q})
    BY <1>3, <2>1, DropNames, Zenon
  <2> QED
    BY <1>1, <1>6, <1>7, <2>2, OwnedNext
<1>9. Mapped'
  <2> SUFFICES ASSUME NEW j \in Inums, NEW bn \in 0 .. MAXFILE - 1
               PROVE  /\ bn * BSIZE < size'[j] => addrs'[j][bn] # 0
                      /\ bn >= NDIRECT /\ addrs'[j][bn] # 0 => ind'[j] # 0
    BY DEF Mapped
  <2>1. CASE j = i
    <3>1. size'[i] = 0 /\ addrs'[i][bn] = 0
      BY DEF Truncate, itrunc, IInv, TypeInv
    <3>2. ~(bn * BSIZE < 0)
      BY MaxType
    <3> QED
      BY <2>1, <3>1, <3>2
  <2>2. CASE j # i
    BY <2>2 DEF Truncate, itrunc, IInv, TypeInv, Mapped
  <2> QED
    BY <2>1, <2>2
<1> QED
  BY <1>1, <1>2, <1>6, <1>8, <1>9 DEF IInv

(* The process is back in user mode. *)
LEMMA ReturnWriter ==
  ASSUME TypeInv, NEW p \in Procs, Return(p)
  PROVE  /\ pc' \in [Procs -> {"user", "chunk", "writei", "short"}]
         /\ loc' \in [Procs -> Local]
         /\ Writer(p)'
         /\ \A q \in Procs : q # p => pc'[q] = pc[q] /\ loc'[q] = loc[q]
<1>1. Idle \in Local
  BY DEF Idle, Local
<1>2. pc'[p] = "user" /\ loc'[p].tx = {}
  BY DEF Return, TypeInv, Idle
<1> QED
  BY <1>1, <1>2 DEF Return, TypeInv, Writer, Busy

(* A chunk of filewrite() that begins keeps the invariant: its bytes fit   *)
(* into the file and the transaction.                                      *)
LEMMA ChunkInv ==
  ASSUME IInv, NEW p \in Procs, Chunk(p)
  PROVE  IInv'
<1> DEFINE l == loc[p]
           i == Ino[l.f]
           n1 == Min({l.n, MaxChunk})
           o == off[l.f]
           m == [l EXCEPT !.start = o, !.off = o, !.n1 = n1, !.tx = {INODE}]
<1>1. pc[p] = "chunk" /\ lock[i] = NoProc
      /\ UNCHANGED <<bitmap, addrs, ind, size, off, panic>>
  BY DEF Chunk
<1>2. l \in Local /\ l.f \in Files /\ i \in Inums /\ o \in Nat /\ size[i] \in Nat
  BY <1>1, FileBlocksAssumption DEF IInv, TypeInv, Writer
<1>3. n1 \in Nat /\ n1 <= l.n /\ n1 <= MaxChunk
  <2>1. l.n \in Nat /\ MaxChunk \in Nat
    BY <1>2, ChunkType DEF Local
  <2>2. n1 = IF l.n <= MaxChunk THEN l.n ELSE MaxChunk
    BY <2>1, Min2
  <2> HIDE DEF n1
  <2> QED
    BY <2>1, <2>2
<1> HIDE DEF n1
<1>4. \A q \in Procs : Busy(q) => Ino[loc[q].f] # i /\ Ino[loc[q].f] \in Inums
  BY <1>1, NotMine
<1>5. BlocksOwned' /\ Mapped'
  BY <1>1, BlocksFrame DEF IInv
<1>6. CASE Refused(i, o, n1)
  <2>1. Return(p) /\ UNCHANGED lock
    BY <1>6 DEF Chunk, n1
  <2>2. ASSUME NEW q \in Procs
        PROVE  Writer(q)'
    BY <1>1, <2>1, ReturnWriter, WriterFrame DEF IInv
  <2>3. TypeInv'
    BY <1>1, <2>1, ReturnWriter DEF IInv, TypeInv
  <2> QED
    BY <1>1, <1>5, <2>2, <2>3 DEF IInv
<1>7. CASE ~Refused(i, o, n1)
  <2>1. lock' = [lock EXCEPT ![i] = p] /\ pc' = [pc EXCEPT ![p] = "writei"]
        /\ loc' = [loc EXCEPT ![p] = m]
    <3>1. loc' = [loc EXCEPT ![p].start = o, ![p].off = o, ![p].n1 = n1, ![p].tx = {INODE}]
      BY <1>7 DEF Chunk, n1
    <3>2. loc' = [loc EXCEPT ![p] = m]
      BY <1>2, <3>1, ZenonT(40) DEF IInv, TypeInv, Local
    <3> QED
      BY <1>7, <3>2 DEF Chunk, Locked, n1
  <2>2. m \in Local
    <3>1. {INODE} \in SUBSET Int
      BY DEF INODE
    <3> HIDE DEF o, l
    <3> QED
      BY <1>2, <1>3, <3>1, ZenonT(40) DEF Local
  <2>3. TypeInv'
    BY <1>1, <2>1, <2>2, ZenonT(40) DEF IInv, TypeInv
  <2>4. pc'[p] = "writei" /\ loc'[p] = m /\ lock'[i] = p
    BY <1>2, <2>1 DEF IInv, TypeInv
  <2>5. m.f = l.f /\ m.start = o /\ m.off = o /\ m.n1 = n1 /\ m.n = l.n /\ m.tx = {INODE}
    BY <1>2 DEF Local
  <2> HIDE DEF m, o, i, l
  <2>6. Extent(m, size[i])
    BY <1>2, <1>3, <1>7, <2>5, MaxType DEF Refused, Extent
  <2>7. Filled(m, addrs[i])
    <3> SUFFICES ASSUME NEW bn \in 0 .. MAXFILE - 1, bn * BSIZE < m.off
                 PROVE  addrs[i][bn] # 0
      BY DEF Filled
    <3>1. bn * BSIZE < size[i]
      BY <1>2, <1>3, <1>7, <2>5, MaxType DEF Refused
    <3> QED
      BY <1>2, <3>1 DEF IInv, Mapped
  <2>8. Logged(m, addrs[i], ind[i])
    BY <2>5, Zenon DEF Logged
  <2>9. Writer(p)'
    <3>1. i = Ino[loc'[p].f] /\ off'[loc'[p].f] = m.start
      BY <1>1, <2>4, <2>5 DEF i, o
    <3>2. loc'[p].f \in Files
      BY <1>2, <2>4, <2>5
    <3> QED
      BY <1>1, <2>4, <2>6, <2>7, <2>8, <3>1, <3>2 DEF Writer, Busy
  <2>10. ASSUME NEW q \in Procs, q # p
         PROVE  Writer(q)'
    <3>1. pc'[q] = pc[q] /\ loc'[q] = loc[q]
      BY <2>1, <2>10 DEF IInv, TypeInv
    <3>2. Busy(q) => lock'[Ino[loc[q].f]] = lock[Ino[loc[q].f]]
      BY <1>4, <2>1 DEF IInv, TypeInv
    <3> QED
      BY <1>1, <3>1, <3>2, WriterFrame DEF IInv
  <2> QED
    BY <1>1, <1>5, <2>3, <2>9, <2>10 DEF IInv
<1> QED
  BY <1>6, <1>7

-----------------------------------------------------------------------------
(* One turn of the loop of writei() *)

(* What bmap() returns: the block that is there, a free one, or none; and  *)
(* the same for the indirect block, without which a block of the indirect  *)
(* part is not allocated.                                                  *)
LEMMA BmapLemma ==
  ASSUME TypeInv, BlocksOwned, Mapped, NEW i \in Inums, NEW bn \in 0 .. MAXFILE - 1
  PROVE  LET b == NewBlock(i, bn)
             ni == NewInd(i, bn)
         IN  /\ b \in 0 .. NBLOCKS /\ ni \in 0 .. NBLOCKS
             /\ ni = ind[i] \/ (ind[i] = 0 /\ (ni = 0 \/ ni \notin bitmap))
             /\ b = addrs[i][bn]
                \/ (addrs[i][bn] = 0 /\ (b = 0 \/ b \notin bitmap \cup {ni}))
             /\ bn >= NDIRECT /\ ni = 0 => b = 0
             /\ BmapWrites(i, bn) \subseteq {BITMAP} \cup ({b, ni} \ {0})
<1> DEFINE b == NewBlock(i, bn)
           ni == NewInd(i, bn)
<1>1. ind[i] \in 0 .. NBLOCKS /\ addrs[i][bn] \in 0 .. NBLOCKS
  BY ZenonT(40) DEF TypeInv
<1>2. \A u : balloc(u) \in 0 .. NBLOCKS /\ (balloc(u) = 0 \/ balloc(u) \notin u)
  BY BallocLemma, MaxType DEF Blocks
<1>3. ni = ind[i] \/ (ind[i] = 0 /\ ni = balloc(bitmap))
  BY DEF NewInd
<1>4. ni \in 0 .. NBLOCKS /\ (ni = ind[i] \/ (ind[i] = 0 /\ (ni = 0 \/ ni \notin bitmap)))
  BY <1>1, <1>2, <1>3
<1>5. \/ b = addrs[i][bn] /\ addrs[i][bn] # 0
      \/ addrs[i][bn] = 0 /\ b = 0
      \/ addrs[i][bn] = 0 /\ b = balloc(bitmap \cup {ni}) /\ ~(bn >= NDIRECT /\ ni = 0)
  BY MaxType DEF NewBlock
<1>6. bn >= NDIRECT /\ addrs[i][bn] # 0 => ind[i] # 0
  BY DEF Mapped
<1> HIDE DEF b, ni
<1>7. b \in 0 .. NBLOCKS
  BY <1>1, <1>2, <1>5
<1>8. b = addrs[i][bn] \/ (addrs[i][bn] = 0 /\ (b = 0 \/ b \notin bitmap \cup {ni}))
  BY <1>2, <1>5, Zenon
<1>9. bn >= NDIRECT /\ ni = 0 => b = 0
  BY <1>3, <1>5, <1>6, Zenon
<1>10. BmapWrites(i, bn) \subseteq {BITMAP} \cup ({b, ni} \ {0})
  <2> DEFINE new == ({b, ni} \ {0}) \ bitmap
  <2>1. CASE new = {}
    BY <2>1, Zenon DEF BmapWrites, b, ni
  <2>2. CASE new # {}
    <3>1. BmapWrites(i, bn) = new \cup {BITMAP} \cup (IF bn >= NDIRECT THEN {ni} ELSE {})
      BY <2>2, Zenon DEF BmapWrites, b, ni
    <3>2. bn >= NDIRECT => ni # 0
      BY <1>9, <2>2, Zenon
    <3>3. CASE bn >= NDIRECT
      BY <3>1, <3>2, <3>3, Zenon
    <3>4. CASE ~(bn >= NDIRECT)
      BY <3>1, <3>4, Zenon
    <3> QED
      BY <3>3, <3>4
  <2> QED
    BY <2>1, <2>2
<1> QED
  BY <1>4, <1>7, <1>8, <1>9, <1>10 DEF b, ni

(* The blocks and the bitmap after bmap() *)
LEMMA BmapOwned ==
  ASSUME TypeInv, BlocksOwned, Mapped, NEW i \in Inums, NEW bn \in 0 .. MAXFILE - 1,
         addrs' = [addrs EXCEPT ![i][bn] = NewBlock(i, bn)],
         ind' = [ind EXCEPT ![i] = NewInd(i, bn)],
         bitmap' = bitmap \cup ({NewBlock(i, bn), NewInd(i, bn)} \ {0}),
         TypeInv'
  PROVE  BlocksOwned'
<1> DEFINE b == NewBlock(i, bn)
           ni == NewInd(i, bn)
           N == NamesOf(addrs, ind)
           x == <<i, MAXFILE>>
           y == <<i, bn>>
           N1 == [N EXCEPT ![x] = ni]
           N2 == [N1 EXCEPT ![y] = b]
           S1 == bitmap \cup ({ni} \ {0})
<1>1. N \in [NP -> 0 .. NBLOCKS] /\ Owns(N, NP, bitmap)
  BY OwnedNow
<1>2. x \in NP /\ y \in NP /\ x # y /\ N[x] = ind[i] /\ N[y] = addrs[i][bn]
  BY MaxType DEF NP, Places, NamesOf
<1>3. /\ b \in 0 .. NBLOCKS /\ ni \in 0 .. NBLOCKS
      /\ ni = N[x] \/ (N[x] = 0 /\ (ni = 0 \/ ni \notin bitmap))
      /\ b = N[y] \/ (N[y] = 0 /\ (b = 0 \/ b \notin bitmap \cup {ni}))
  BY <1>2, BmapLemma
<1>4. NamesOf(addrs', ind') = N2
  <2>1. ASSUME NEW z \in NP
        PROVE  (IF z[2] = MAXFILE THEN ind'[z[1]] ELSE addrs'[z[1]][z[2]]) = N2[z]
    <3>1. PICK j \in Inums, s \in Places : z = <<j, s>>
      BY DEF NP
    <3>2. ind'[j] = IF j = i THEN ni ELSE ind[j]
      BY DEF TypeInv
    <3>3. s # MAXFILE => addrs'[j][s] = IF j = i /\ s = bn THEN b ELSE addrs[j][s]
      <4>1. addrs'[j] = IF j = i THEN [addrs[i] EXCEPT ![bn] = b] ELSE addrs[j]
        BY DEF TypeInv
      <4>2. s # MAXFILE => s \in 0 .. MAXFILE - 1
        BY MaxType DEF Places
      <4>3. addrs[i] \in [0 .. MAXFILE - 1 -> 0 .. NBLOCKS]
        BY DEF TypeInv
      <4>4. s \in 0 .. MAXFILE - 1
            => [addrs[i] EXCEPT ![bn] = b][s] = IF s = bn THEN b ELSE addrs[i][s]
        BY <4>3, ZenonT(40)
      <4>5. CASE j = i
        <5>1. addrs'[j] = [addrs[i] EXCEPT ![bn] = b]
          BY <4>1, <4>5
        <5>2. s # MAXFILE => addrs'[j][s] = IF s = bn THEN b ELSE addrs[j][s]
          BY <4>2, <4>4, <4>5, <5>1, Zenon
        <5> QED
          BY <4>5, <5>2, Zenon
      <4>6. CASE j # i
        <5>1. addrs'[j] = addrs[j]
          BY <4>1, <4>6
        <5> QED
          BY <4>6, <5>1
      <4> QED
        BY <4>5, <4>6
    <3>4. N2[z] = IF j = i /\ s = bn THEN b ELSE IF j = i /\ s = MAXFILE THEN ni ELSE N[z]
      BY <1>1, <3>1
    <3>5. N[z] = IF s = MAXFILE THEN ind[j] ELSE addrs[j][s]
      BY <3>1 DEF NamesOf
    <3>6. bn # MAXFILE
      BY MaxType
    <3> HIDE DEF N2, N, b, ni
    <3> QED
      BY <3>1, <3>2, <3>3, <3>4, <3>5, <3>6
  <2>2. N2 = [z \in NP |-> N2[z]]
    BY <1>1, ZenonT(40)
  <2> HIDE DEF N2
  <2> QED
    BY <2>1, <2>2 DEF NamesOf
<1> HIDE DEF N, b, ni
<1>5. Owns(N1, NP, S1)
  <2> HIDE DEF x
  <2> QED
    BY <1>1, <1>2, <1>3, AddName, ZenonT(40)
<1>6. N1 \in [NP -> 0 .. NBLOCKS] /\ N1[y] = N[y]
  BY <1>1, <1>2, <1>3
<1>7. b = N1[y] \/ (N1[y] = 0 /\ (b = 0 \/ b \notin S1))
  BY <1>3, <1>6, Zenon
<1>8. Owns(N2, NP, S1 \cup ({b} \ {0}))
  <2> HIDE DEF N1, y, S1
  <2> QED
    BY <1>2, <1>5, <1>6, <1>7, AddName, ZenonT(40)
<1>9. bitmap' = S1 \cup ({b} \ {0})
  <2>1. bitmap' = bitmap \cup ({b, ni} \ {0})
    BY DEF b, ni
  <2> QED
    BY <2>1, Zenon
<1> QED
  BY <1>4, <1>8, <1>9, OwnedNext, ZenonT(40)

(* A turn of the loop of writei(), with bmap() and balloc(), keeps the     *)
(* invariant, also when the disk is full at either of its two allocations. *)
LEMMA WriteBlockInv ==
  ASSUME IInv, NEW p \in Procs, WriteBlock(p)
  PROVE  IInv'
<1> DEFINE l == loc[p]
           i == Ino[l.f]
           bn == l.off \div BSIZE
           b == NewBlock(i, bn)
           ni == NewInd(i, bn)
           m == Min({l.start + l.n1 - l.off, BSIZE - (l.off % BSIZE)})
           W == BmapWrites(i, bn)
<1>1. /\ pc[p] = "writei" /\ l.off < l.start + l.n1
      /\ addrs' = [addrs EXCEPT ![i][bn] = b]
      /\ ind' = [ind EXCEPT ![i] = ni]
      /\ bitmap' = bitmap \cup ({b, ni} \ {0})
      /\ UNCHANGED <<size, lock, off>>
  BY ZenonT(40) DEF WriteBlock
<1>2. Busy(p) /\ l \in Local
  BY <1>1 DEF Busy, IInv, TypeInv
<1>3. /\ l.f \in Files /\ i \in Inums /\ size[i] \in Nat
      /\ l.start \in Nat /\ l.off \in Nat /\ l.n1 \in Nat /\ l.n \in Nat
      /\ l.tx \in SUBSET Int
  BY <1>2, NotMine, ZenonT(40) DEF Local, IInv, TypeInv
<1>4. Extent(l, size[i]) /\ Filled(l, addrs[i]) /\ Logged(l, addrs[i], ind[i])
      /\ lock[i] = p /\ off[l.f] = l.start
  BY <1>2 DEF IInv, Writer
<1> HIDE DEF l
<1>5. bn \in 0 .. MAXFILE - 1
  <2>1. l.off < MAXFILE * BSIZE
    BY <1>1, <1>3, <1>4, MaxType DEF Extent
  <2> QED
    BY <1>3, <2>1, MaxType, DivBound
<1>6. panic' = "no"
  <2>1. panic' = IF bn >= MAXFILE THEN "bmap: out of range" ELSE panic
    BY ZenonT(40) DEF WriteBlock, l
  <2>2. ~(bn >= MAXFILE)
    <3> HIDE DEF bn
    <3> QED
      BY <1>5, MaxType
  <2> QED
    BY <2>1, <2>2, ZenonT(40) DEF IInv
<1>7. /\ b \in 0 .. NBLOCKS /\ ni \in 0 .. NBLOCKS
      /\ ni = ind[i] \/ (ind[i] = 0 /\ (ni = 0 \/ ni \notin bitmap))
      /\ b = addrs[i][bn] \/ (addrs[i][bn] = 0 /\ (b = 0 \/ b \notin bitmap \cup {ni}))
      /\ bn >= NDIRECT /\ ni = 0 => b = 0
      /\ W \subseteq {BITMAP} \cup ({b, ni} \ {0})
  BY <1>3, <1>5, BmapLemma, ZenonT(40) DEF IInv
<1>8. /\ m \in Nat /\ m <= l.start + l.n1 - l.off /\ m <= BSIZE - (l.off % BSIZE)
  <2>1. (l.off % BSIZE) \in 0 .. BSIZE - 1
    BY <1>3, MaxType, DivMod
  <2>2. l.start + l.n1 - l.off \in Int /\ BSIZE - (l.off % BSIZE) \in Int
        /\ l.start + l.n1 - l.off >= 0 /\ BSIZE - (l.off % BSIZE) >= 0
    BY <1>1, <1>3, <2>1, MaxType
  <2> DEFINE u == l.start + l.n1 - l.off
             v == BSIZE - (l.off % BSIZE)
  <2> HIDE DEF u, v
  <2>3. u \in Int /\ v \in Int /\ u >= 0 /\ v >= 0
    BY <2>2 DEF u, v
  <2>4. Min({u, v}) \in Nat /\ Min({u, v}) <= u /\ Min({u, v}) <= v
    BY <2>3, Min2
  <2> QED
    BY <2>4 DEF u, v
<1> HIDE DEF m, W, bn, b, ni
<1>9. /\ loc'[p] \in Local /\ loc' \in [Procs -> Local]
      /\ loc'[p].f = l.f /\ loc'[p].n = l.n /\ loc'[p].start = l.start /\ loc'[p].n1 = l.n1
      /\ loc'[p].off = l.off \/ (loc'[p].off = l.off + m /\ b # 0)
      /\ loc'[p].tx \subseteq l.tx \cup W \cup ({b} \ {0})
      /\ pc'[p] \in {"writei", "short"}
      /\ pc' \in [Procs -> {"user", "chunk", "writei", "short"}]
      /\ \A q \in Procs : q # p => pc'[q] = pc[q] /\ loc'[q] = loc[q]
  <2>1. W \cup {b} \in SUBSET Int
    <3>1. b \in Int /\ ni \in Int /\ BITMAP \in Int
      BY <1>7, MaxType DEF BITMAP
    <3> QED
      BY <1>7, <3>1, Zenon
  <2>2. loc \in [Procs -> Local] /\ pc \in [Procs -> {"user", "chunk", "writei", "short"}]
        /\ l = loc[p]
    BY DEF IInv, TypeInv, l
  <2>3. CASE b # 0 /\ loc' = [loc EXCEPT ![p].off = @ + m, ![p].tx = @ \cup W \cup {b}]
             /\ UNCHANGED pc
    <3> DEFINE k == l.off + m
               X == (l.tx \cup W) \cup {b}
               l2 == [l EXCEPT !.off = k, !.tx = X]
    <3>1. loc' = [loc EXCEPT ![p] = l2]
      BY <1>2, <2>2, <2>3, ZenonT(40) DEF Local
    <3>2. k \in Nat
      BY <1>3, <1>8
    <3>3. X \in SUBSET Int
      BY <1>3, <2>1, Zenon
    <3> HIDE DEF k, X
    <3>4. l2 \in Local /\ l2.f = l.f /\ l2.n = l.n /\ l2.start = l.start /\ l2.n1 = l.n1
          /\ l2.off = k /\ l2.tx = X
      BY <1>2, <3>3, <3>2, ZenonT(40) DEF Local
    <3> HIDE DEF l2
    <3>5. loc'[p] = l2 /\ loc' \in [Procs -> Local]
      BY <2>2, <3>1, <3>4
    <3>6. \A q \in Procs : q # p => pc'[q] = pc[q] /\ loc'[q] = loc[q]
      BY <2>2, <2>3, <3>1
    <3>7. X \subseteq l.tx \cup W \cup ({b} \ {0})
      BY <2>3, Zenon DEF X
    <3> QED
      BY <1>1, <2>2, <2>3, <3>4, <3>5, <3>6, <3>7 DEF k
  <2>4. CASE loc' = [loc EXCEPT ![p].tx = @ \cup W] /\ pc' = [pc EXCEPT ![p] = "short"]
    <3> DEFINE l2 == [l EXCEPT !.tx = l.tx \cup W]
    <3>1. loc' = [loc EXCEPT ![p] = l2]
      BY <1>2, <2>2, <2>4 DEF Local
    <3>2. l.tx \cup W \in SUBSET Int
      BY <1>3, <2>1, Zenon
    <3>3. l2 \in Local /\ l2.f = l.f /\ l2.n = l.n /\ l2.start = l.start /\ l2.n1 = l.n1
          /\ l2.off = l.off /\ l2.tx = l.tx \cup W
      BY <1>2, <1>3, <3>2 DEF Local
    <3> HIDE DEF l2
    <3>4. loc'[p] = l2 /\ loc' \in [Procs -> Local]
      BY <2>2, <3>1, <3>3
    <3>5. \A q \in Procs : q # p => pc'[q] = pc[q] /\ loc'[q] = loc[q]
      BY <2>2, <2>4, <3>1
    <3>6. l.tx \cup W \subseteq l.tx \cup W \cup ({b} \ {0})
      BY Zenon
    <3> QED
      BY <2>2, <2>4, <3>3, <3>4, <3>5, <3>6
  <2> QED
    BY <2>3, <2>4, ZenonT(40) DEF WriteBlock, l, m, W, bn, b
<1>10. TypeInv'
  <2>1. bitmap' \subseteq Blocks
    <3>1. b # 0 => b \in Blocks
      BY <1>7, MaxType DEF Blocks
    <3>2. ni # 0 => ni \in Blocks
      BY <1>7, MaxType DEF Blocks
    <3> QED
      BY <1>1, <3>1, <3>2, Zenon DEF IInv, TypeInv
  <2>2. [addrs[i] EXCEPT ![bn] = b] \in [0 .. MAXFILE - 1 -> 0 .. NBLOCKS]
    BY <1>3, <1>7, ZenonT(40) DEF IInv, TypeInv
  <2>3. addrs' = [addrs EXCEPT ![i] = [addrs[i] EXCEPT ![bn] = b]]
    BY <1>1
  <2>4. addrs' \in [Inums -> [0 .. MAXFILE - 1 -> 0 .. NBLOCKS]]
    BY <1>3, <2>2, <2>3 DEF IInv, TypeInv
  <2>5. ind' \in [Inums -> 0 .. NBLOCKS]
    BY <1>1, <1>7, ZenonT(40) DEF IInv, TypeInv
  <2> QED
    BY <1>1, <1>9, <2>1, <2>4, <2>5 DEF IInv, TypeInv
<1>11. BlocksOwned'
  BY <1>1, <1>3, <1>5, <1>10, BmapOwned, ZenonT(40) DEF IInv, b, ni
(* What bmap() leaves of the inodes *)
<1>12. \A j \in Inums : j # i => addrs'[j] = addrs[j] /\ ind'[j] = ind[j]
  BY <1>1 DEF IInv, TypeInv
<1>13. addrs'[i] = [addrs[i] EXCEPT ![bn] = b] /\ ind'[i] = ni
  BY <1>1, <1>3, ZenonT(40) DEF IInv, TypeInv
<1>14. addrs'[i][bn] = b
       /\ \A s \in 0 .. MAXFILE - 1 : s # bn => addrs'[i][s] = addrs[i][s]
  <2>1. addrs[i] \in [0 .. MAXFILE - 1 -> 0 .. NBLOCKS]
    BY <1>3 DEF IInv, TypeInv
  <2> QED
    BY <1>5, <1>13, <2>1, ZenonT(40)
<1>15. /\ \A s \in 0 .. MAXFILE - 1 : addrs[i][s] # 0 => addrs'[i][s] = addrs[i][s]
       /\ ind[i] # 0 => ind'[i] = ind[i]
  BY <1>5, <1>7, <1>13, <1>14, Zenon
<1>16. Mapped'
  <2> SUFFICES ASSUME NEW j \in Inums, NEW s \in 0 .. MAXFILE - 1
               PROVE  /\ s * BSIZE < size'[j] => addrs'[j][s] # 0
                      /\ s >= NDIRECT /\ addrs'[j][s] # 0 => ind'[j] # 0
    BY DEF Mapped
  <2>1. /\ s * BSIZE < size[j] => addrs[j][s] # 0
        /\ s >= NDIRECT /\ addrs[j][s] # 0 => ind[j] # 0
    BY DEF Mapped, IInv
  <2>2. size'[j] = size[j]
    BY <1>1
  <2>3. CASE j # i
    BY <1>12, <2>1, <2>2, <2>3
  <2>4. CASE j = i
    <3>1. s * BSIZE < size'[j] => addrs'[j][s] # 0
      BY <1>15, <2>1, <2>2, <2>4
    <3>2. s >= NDIRECT /\ addrs'[j][s] # 0 => ind'[j] # 0
      BY <1>7, <1>13, <1>14, <1>15, <2>1, <2>4, Zenon
    <3> QED
      BY <3>1, <3>2
  <2> QED
    BY <2>3, <2>4
(* The process at work *)
<1>17. Extent(loc'[p], size'[i])
  BY <1>1, <1>3, <1>4, <1>8, <1>9 DEF Extent
<1>18. Filled(loc'[p], addrs'[i])
  <2> SUFFICES ASSUME NEW s \in 0 .. MAXFILE - 1, s * BSIZE < loc'[p].off
               PROVE  addrs'[i][s] # 0
    BY DEF Filled
  <2>1. CASE s * BSIZE < l.off
    BY <1>4, <1>15, <2>1 DEF Filled
  <2>2. CASE ~(s * BSIZE < l.off)
    <3>1. b # 0 /\ s * BSIZE < l.off + m
      BY <1>9, <2>2
    <3>2. s = bn
      <4>1. s \in Nat
        BY MaxType
      <4> QED
        BY <1>3, <1>8, <2>2, <3>1, <4>1, MaxType, WithinBlock DEF bn
    <3> QED
      BY <1>14, <3>1, <3>2
  <2> QED
    BY <2>1, <2>2
<1>19. Logged(loc'[p], addrs'[i], ind'[i])
  <2>1. Touched(loc'[p]) = Touched(l)
    BY <1>9 DEF Touched
  <2>2. bn \in Touched(l)
    <3>1. l.start + l.n1 \in Nat /\ l.start <= l.off /\ l.off <= l.start + l.n1
      BY <1>1, <1>3, <1>4 DEF Extent
    <3>2. (l.start \div BSIZE) <= bn /\ bn <= ((l.start + l.n1) \div BSIZE)
      BY <1>3, <3>1, MaxType, DivMono DEF bn
    <3> QED
      BY <1>5, <3>2 DEF Touched
  <2> DEFINE D == {addrs[i][s] : s \in Touched(l)}
             D2 == {addrs'[i][s] : s \in Touched(l)}
  <2>3. D \ {0} \subseteq D2
    <3>1. Touched(l) \subseteq 0 .. MAXFILE - 1
      BY DEF Touched
    <3> QED
      BY <1>15, <3>1, Zenon
  <2>4. b \in D2
    BY <1>14, <2>2, Zenon
  <2>5. l.tx \subseteq {INODE, BITMAP} \cup (({ind[i]} \cup D) \ {0})
    BY <1>4 DEF Logged
  <2>6. loc'[p].tx \subseteq {INODE, BITMAP} \cup (({ind'[i]} \cup D2) \ {0})
    <3> HIDE DEF D, D2
    <3>1. l.tx \subseteq {INODE, BITMAP} \cup (({ind'[i]} \cup D2) \ {0})
      BY <1>15, <2>3, <2>5, ZenonT(30)
    <3>2. W \subseteq {INODE, BITMAP} \cup (({ind'[i]} \cup D2) \ {0})
      BY <1>7, <1>13, <2>4, ZenonT(30)
    <3> QED
      BY <1>9, <2>4, <3>1, <3>2, ZenonT(30)
  <2> QED
    BY <2>1, <2>6 DEF Logged
<1>20. Writer(p)'
  <2>1. /\ Ino[loc'[p].f] = i /\ loc'[p].f \in Files
        /\ lock'[i] = p /\ off'[loc'[p].f] = loc'[p].start
    BY <1>1, <1>3, <1>4, <1>9, ZenonT(40)
  <2> HIDE DEF i
  <2> QED
    BY <1>9, <1>17, <1>18, <1>19, <2>1, ZenonT(40) DEF Writer, Busy
<1>21. ASSUME NEW q \in Procs, q # p
       PROVE  Writer(q)'
  <2>1. Busy(q) => Ino[loc[q].f] \in Inums /\ Ino[loc[q].f] # i
    BY <1>2, <1>21, NotMine, ZenonT(40) DEF l
  <2> QED
    BY <1>1, <1>9, <1>12, <1>21, <2>1, WriterFrame, ZenonT(40) DEF IInv
<1> QED
  BY <1>6, <1>10, <1>11, <1>16, <1>20, <1>21 DEF IInv

-----------------------------------------------------------------------------
(* The end of writei() keeps the invariant, and f->off moves from where    *)
(* the transaction began to where it ended.                                *)
LEMMA WriteDoneInv ==
  ASSUME IInv, NEW p \in Procs, WriteDone(p)
  PROVE  IInv' /\ off[loc[p].f] = loc[p].start /\ off'[loc[p].f] = loc[p].off
<1> DEFINE l == loc[p]
           i == Ino[l.f]
           done == l.off - l.start
<1>1. /\ Busy(p) /\ UNCHANGED <<bitmap, addrs, ind, panic>>
      /\ size' = [size EXCEPT ![i] = NewSize(l)]
      /\ off' = [off EXCEPT ![l.f] = @ + done]
      /\ lock' = [lock EXCEPT ![i] = NoProc]
  BY DEF WriteDone, Busy
<1>2. l \in Local
  BY DEF IInv, TypeInv
<1>3. /\ l.f \in Files /\ i \in Inums /\ size[i] \in Nat
      /\ l.start \in Nat /\ l.off \in Nat /\ l.n1 \in Nat /\ l.n \in Nat
  BY <1>1, <1>2, NotMine DEF Local, IInv, TypeInv
<1>4. Extent(l, size[i]) /\ Filled(l, addrs[i]) /\ off[l.f] = l.start
  BY <1>1, ZenonT(40) DEF IInv, Writer
<1>5. NewSize(l) = IF size[i] >= l.off THEN size[i] ELSE l.off
  BY <1>3, Max2 DEF NewSize
<1>6. done \in Nat /\ l.n - done \in Nat
  BY <1>3, <1>4 DEF Extent
<1> HIDE DEF l, done
<1>7. /\ pc' \in [Procs -> {"user", "chunk", "writei", "short"}]
      /\ loc' \in [Procs -> Local]
      /\ Writer(p)'
      /\ \A q \in Procs : q # p => pc'[q] = pc[q] /\ loc'[q] = loc[q]
  <2>1. CASE Return(p)
    BY <2>1, ReturnWriter DEF IInv
  <2>2. CASE /\ pc' = [pc EXCEPT ![p] = "chunk"]
             /\ loc' = [loc EXCEPT ![p] = [Idle EXCEPT !.f = l.f, !.n = l.n - done]]
    <3> DEFINE d == l.n - done
               l2 == [Idle EXCEPT !.f = l.f, !.n = d]
    <3> HIDE DEF d
    <3>1. d \in Nat
      BY <1>6 DEF d
    <3>2. l2 \in Local /\ l2.f = l.f /\ l2.tx = {}
      BY <1>3, <3>1, ZenonT(40) DEF Idle, Local
    <3>3. loc' = [loc EXCEPT ![p] = l2]
      BY <2>2 DEF d
    <3> HIDE DEF l2
    <3>4. pc'[p] = "chunk" /\ loc'[p] = l2
      BY <2>2, <3>3, ZenonT(40) DEF IInv, TypeInv
    <3>5. Writer(p)'
      BY <1>3, <3>2, <3>4, ZenonT(40) DEF Writer, Busy
    <3> QED
      BY <2>2, <3>2, <3>3, <3>5 DEF IInv, TypeInv
  <2> QED
    BY <2>1, <2>2 DEF WriteDone, l, done
<1>8. TypeInv'
  <2>1. size' \in [Inums -> Nat]
    BY <1>1, <1>3, <1>5 DEF IInv, TypeInv
  <2>2. off' \in [Files -> Nat]
    BY <1>1, <1>3, <1>6 DEF IInv, TypeInv
  <2>3. lock' \in [Inums -> Procs \cup {NoProc}]
    BY <1>1, <1>3 DEF IInv, TypeInv
  <2> QED
    BY <1>1, <1>7, <2>1, <2>2, <2>3, ZenonT(40) DEF IInv, TypeInv
<1>9. ASSUME NEW q \in Procs, q # p
      PROVE  Writer(q)'
  <2>1. Busy(q) => Ino[loc[q].f] \in Inums /\ Ino[loc[q].f] # i /\ loc[q].f \in Files
                   /\ loc[q].f # l.f
    BY <1>1, <1>9, NotMine DEF l
  <2> QED
    BY <1>1, <1>7, <1>9, <2>1, WriterFrame, ZenonT(40) DEF IInv, TypeInv
<1>10. BlocksOwned'
  BY <1>1 DEF IInv, BlocksOwned, Named
<1>11. Mapped'
  <2> SUFFICES ASSUME NEW j \in Inums, NEW s \in 0 .. MAXFILE - 1
               PROVE  /\ s * BSIZE < size'[j] => addrs'[j][s] # 0
                      /\ s >= NDIRECT /\ addrs'[j][s] # 0 => ind'[j] # 0
    BY DEF Mapped
  <2>1. /\ s * BSIZE < size[j] => addrs[j][s] # 0
        /\ s >= NDIRECT /\ addrs[j][s] # 0 => ind[j] # 0
    BY DEF Mapped, IInv
  <2>2. CASE j # i
    BY <1>1, <2>1, <2>2 DEF IInv, TypeInv
  <2>3. CASE j = i
    <3>1. size'[i] = IF size[i] >= l.off THEN size[i] ELSE l.off
      BY <1>1, <1>3, <1>5 DEF IInv, TypeInv
    <3>2. s * BSIZE < l.off => addrs[i][s] # 0
      BY <1>4 DEF Filled
    <3> QED
      BY <1>1, <2>1, <2>3, <3>1, <3>2, ZenonT(40)
  <2> QED
    BY <2>2, <2>3
<1>12. off[l.f] = l.start /\ off'[l.f] = l.off
  <2>1. l.f \in DOMAIN off
    BY <1>3 DEF IInv, TypeInv
  <2>2. off'[l.f] = off[l.f] + done
    BY <1>1, <2>1, ZenonT(40)
  <2>3. l.start + done = l.off
    BY <1>3 DEF done
  <2> QED
    BY <1>4, <2>2, <2>3, ZenonT(40)
<1> QED
  BY <1>1, <1>7, <1>8, <1>9, <1>10, <1>11, <1>12 DEF IInv, l

-----------------------------------------------------------------------------
(* Every step *)

(* Every step keeps the invariant. *)
LEMMA NextInv ==
  ASSUME IInv, [Next]_vars
  PROVE  IInv'
<1>1. CASE Next
  BY <1>1, OpenInv, TruncateInv, ReadInv, WriteInv, ChunkInv, WriteBlockInv,
     WriteDoneInv, ZenonT(40)
     DEF Next
<1>2. CASE UNCHANGED vars
  <2>1. TypeInv' /\ panic' = "no"
    BY <1>2 DEF IInv, TypeInv, vars
  <2>2. \A p \in Procs : Writer(p)'
    BY <1>2, WriterFrame DEF IInv, vars
  <2>3. BlocksOwned' /\ Mapped'
    BY <1>2, BlocksFrame DEF IInv, vars
  <2> QED
    BY <2>1, <2>2, <2>3 DEF IInv
<1> QED
  BY <1>1, <1>2

(* The invariant of the file system's blocks holds in every state. *)
THEOREM Invariant == Spec => []IInv
<1>1. Init => IInv
  BY InitInv
<1>2. IInv /\ [Next]_vars => IInv'
  BY NextInv
<1> QED
  BY <1>1, <1>2, PTL DEF Spec

-----------------------------------------------------------------------------
(* The size of a transaction *)

(* The blocks that a transaction may touch, the indirect block, the inode  *)
(* and the bitmap are no more than MAXOPBLOCKS.                            *)
LEMMA TxFitsLemma ==
  ASSUME IInv
  PROVE  TxFits
<1> SUFFICES ASSUME NEW p \in Procs
             PROVE  Cardinality(loc[p].tx) <= MAXOPBLOCKS
  BY DEF TxFits
<1>1. CASE ~Busy(p)
  <2>1. loc[p].tx = {}
    BY <1>1 DEF IInv, Writer
  <2> QED
    BY <2>1, FS_EmptySet, FileBlocksAssumption
<1>2. CASE Busy(p)
  <2> DEFINE l == loc[p]
             i == Ino[l.f]
             K == (MAXOPBLOCKS - 4) \div 2
             a == l.start \div BSIZE
             z == (l.start + l.n1) \div BSIZE
             A == {INODE, BITMAP, ind[i]}
             D == {addrs[i][bn] : bn \in Touched(l)}
  <2>1. l.start \in Nat /\ l.n1 \in Nat
    BY DEF IInv, TypeInv, Local
  <2>2. Extent(l, size[i]) /\ Logged(l, addrs[i], ind[i])
    BY <1>2 DEF IInv, Writer
  <2>3. K \in Nat /\ K + 4 <= MAXOPBLOCKS /\ MaxChunk = K * BSIZE
    BY FileBlocksAssumption DEF MaxChunk
  <2> HIDE DEF l, K
  <2>4. a \in Nat /\ z \in Nat /\ z <= a + K
    <3>1. l.n1 <= K * BSIZE
      BY <2>2, <2>3 DEF Extent
    <3>2. l.start + l.n1 \in Nat
      BY <2>1
    <3> QED
      BY <2>1, <2>3, <3>1, <3>2, MaxType, Span, DivMod, ZenonT(40)
  <2> HIDE DEF a, z
  <2>5. IsFiniteSet(Touched(l)) /\ Cardinality(Touched(l)) <= K + 1
    <3>1. IsFiniteSet(a .. z) /\ Cardinality(a .. z) = IF a > z THEN 0 ELSE z - a + 1
      BY <2>4, FS_Interval
    <3>2. Touched(l) \subseteq a .. z
      BY <2>4, MaxType DEF Touched, a, z
    <3>3. IsFiniteSet(Touched(l)) /\ Cardinality(Touched(l)) <= Cardinality(a .. z)
      BY <3>1, <3>2, FS_Subset, ZenonT(40)
    <3>4. Cardinality(Touched(l)) \in Nat
      BY <3>3, FS_CardinalityType
    <3> QED
      BY <2>3, <2>4, <3>1, <3>3, <3>4
  <2>6. IsFiniteSet(D) /\ Cardinality(D) <= K + 1
    <3> DEFINE g == [bn \in Touched(l) |-> addrs[i][bn]]
    <3>1. g \in Surjection(Touched(l), D)
      <4>1. g \in [Touched(l) -> D]
        BY Zenon
      <4>2. \A d \in D : \E bn \in Touched(l) : g[bn] = d
        BY Zenon
      <4> QED
        BY <4>1, <4>2, Zenon DEF Surjection
    <3> HIDE DEF g, D
    <3>2. IsFiniteSet(D) /\ Cardinality(D) <= Cardinality(Touched(l))
      BY <2>5, <3>1, FS_Surjection
    <3>3. Cardinality(D) \in Nat /\ Cardinality(Touched(l)) \in Nat
      BY <2>5, <3>2, FS_CardinalityType
    <3> QED
      BY <2>3, <2>5, <3>2, <3>3
  <2>7. IsFiniteSet(A) /\ Cardinality(A) <= 3
    <3>1. A = ({INODE} \cup {BITMAP}) \cup {ind[i]}
      BY Zenon
    <3>2. IsFiniteSet({INODE}) /\ Cardinality({INODE}) = 1
      BY FS_Singleton, ZenonT(40)
    <3> DEFINE P == {INODE} \cup {BITMAP}
    <3>3. IsFiniteSet(P) /\ Cardinality(P) <= 2
      BY <3>2, FS_AddElement
    <3>4. Cardinality(P) \in Nat
      BY <3>3, FS_CardinalityType
    <3> HIDE DEF P
    <3>5. IsFiniteSet(P \cup {ind[i]})
          /\ (\/ Cardinality(P \cup {ind[i]}) = Cardinality(P)
              \/ Cardinality(P \cup {ind[i]}) = Cardinality(P) + 1)
      BY <3>3, FS_AddElement
    <3>6. Cardinality(P \cup {ind[i]}) <= 3
      BY <3>3, <3>4, <3>5
    <3> QED
      BY <3>1, <3>5, <3>6 DEF P
  <2> HIDE DEF A, D
  <2>8. IsFiniteSet(A \cup D) /\ Cardinality(A \cup D) <= K + 4
    <3>1. IsFiniteSet(A \cap D)
      BY <2>7, FS_Subset
    <3>2. /\ Cardinality(A) \in Nat /\ Cardinality(D) \in Nat
          /\ Cardinality(A \cap D) \in Nat
      BY <2>6, <2>7, <3>1, FS_CardinalityType
    <3>3. /\ IsFiniteSet(A \cup D)
          /\ Cardinality(A \cup D) = Cardinality(A) + Cardinality(D) - Cardinality(A \cap D)
      BY <2>6, <2>7, FS_Union
    <3> QED
      BY <2>3, <2>6, <2>7, <3>2, <3>3
  <2>9. l.tx \subseteq A \cup D
    BY <2>2, Zenon DEF Logged, A, D
  <2>10. Cardinality(l.tx) <= Cardinality(A \cup D) /\ IsFiniteSet(l.tx)
    BY <2>8, <2>9, FS_Subset
  <2>11. Cardinality(l.tx) \in Nat /\ Cardinality(A \cup D) \in Nat
    BY <2>8, <2>10, FS_CardinalityType
  <2>12. Cardinality(l.tx) <= MAXOPBLOCKS
    BY <2>3, <2>8, <2>10, <2>11, FileBlocksAssumption
  <2> QED
    BY <2>12 DEF l
<1> QED
  BY <1>1, <1>2

-----------------------------------------------------------------------------
(* The theorems *)

(* A block of the disk is marked in use exactly if one inode names it, at  *)
(* one place: balloc(), bmap() and itrunc() neither share nor lose a       *)
(* block, for any number of processes, files and blocks.                   *)
THEOREM BlocksNeverShared == Spec => []BlocksOwned
<1>1. IInv => BlocksOwned
  BY DEF IInv
<1> QED
  BY <1>1, Invariant, PTL

(* Every byte below ip->size has its block, and a block of the indirect    *)
(* part its indirect block, whatever writei() could not finish.            *)
THEOREM SizeIsMapped == Spec => []Mapped
<1>1. IInv => Mapped
  BY DEF IInv
<1> QED
  BY <1>1, Invariant, PTL

(* A transaction of filewrite() stays within the MAXOPBLOCKS blocks that   *)
(* begin_op() reserves, for every MAXOPBLOCKS from 6 on, every block size  *)
(* and every alignment.                                                    *)
THEOREM WriteFitsLog == Spec => []TxFits
<1>1. IInv => TxFits
  BY TxFitsLemma
<1> QED
  BY <1>1, Invariant, PTL

(* bfree() never frees a free block, and bmap() is never asked for a block *)
(* past the largest file: the two panics of this code cannot happen.       *)
THEOREM BlocksNeverPanic == Spec => [](panic = "no")
<1>1. IInv => panic = "no"
  BY DEF IInv
<1> QED
  BY <1>1, Invariant, PTL

(* The bytes of one transaction of filewrite() begin where f->off was, and *)
(* f->off moves over exactly these, although processes share the file.     *)
THEOREM WritesFollow == Spec => WritesAppend
<1> DEFINE A == \A p \in Procs :
                  pc[p] \in {"writei", "short"} /\ pc'[p] \in {"user", "chunk"}
                    => off[loc[p].f] = loc[p].start /\ off'[loc[p].f] = loc[p].off
<1>1. IInv /\ [Next]_vars => [A]_vars
  <2> SUFFICES ASSUME IInv, Next, NEW p \in Procs,
                      pc[p] \in {"writei", "short"}, pc'[p] \in {"user", "chunk"}
               PROVE  off[loc[p].f] = loc[p].start /\ off'[loc[p].f] = loc[p].off
    OBVIOUS
  <2>1. pc'[p] # pc[p]
    OBVIOUS
  <2>2. \A q \in Procs : q # p /\ (pc' = [pc EXCEPT ![q] = "user"]
                                   \/ pc' = [pc EXCEPT ![q] = "chunk"]
                                   \/ pc' = [pc EXCEPT ![q] = "writei"]
                                   \/ pc' = [pc EXCEPT ![q] = "short"])
                         => pc'[p] = pc[p]
    BY DEF IInv, TypeInv
  <2>3. CASE \E f \in Files : Open(f)
    BY <2>1, <2>3 DEF Open
  <2>4. CASE \E i \in Inums : Truncate(i)
    BY <2>1, <2>4 DEF Truncate
  <2>5. CASE \E f \in Files, n \in ReadSizes : Read(f, n)
    BY <2>1, <2>5 DEF Read
  <2>6. ASSUME NEW q \in Procs, NEW f \in Files, NEW n \in WriteSizes, Write(q, f, n)
        PROVE  FALSE
    <3>1. pc[q] = "user" /\ pc' = [pc EXCEPT ![q] = "chunk"]
      BY <2>6 DEF Write
    <3>2. q # p
      BY <3>1
    <3> QED
      BY <2>1, <2>2, <3>1, <3>2
  <2>7. ASSUME NEW q \in Procs, Chunk(q)
        PROVE  FALSE
    <3>1. pc[q] = "chunk"
          /\ (pc' = [pc EXCEPT ![q] = "user"] \/ pc' = [pc EXCEPT ![q] = "writei"])
      BY <2>7 DEF Chunk, Return
    <3>2. q # p
      BY <3>1
    <3> QED
      BY <2>1, <2>2, <3>1, <3>2
  <2>8. ASSUME NEW q \in Procs, WriteBlock(q)
        PROVE  FALSE
    <3>1. pc' = pc \/ pc' = [pc EXCEPT ![q] = "short"]
      BY <2>8, ZenonT(40) DEF WriteBlock
    <3>2. q = p => pc'[p] \in {"writei", "short"}
      BY <3>1 DEF IInv, TypeInv
    <3> QED
      BY <2>1, <2>2, <3>1, <3>2
  <2>9. ASSUME NEW q \in Procs, WriteDone(q), q # p
        PROVE  FALSE
    <3>1. pc' = [pc EXCEPT ![q] = "user"] \/ pc' = [pc EXCEPT ![q] = "chunk"]
      BY <2>9 DEF WriteDone, Return
    <3> QED
      BY <2>1, <2>2, <2>9, <3>1
  <2>10. CASE WriteDone(p)
    BY <2>10, WriteDoneInv
  <2> QED
    BY <2>3, <2>4, <2>5, <2>6, <2>7, <2>8, <2>9, <2>10, ZenonT(40) DEF Next
<1>2. Spec => [][A]_vars
  BY <1>1, Invariant, PTL DEF Spec
<1> QED
  BY <1>2 DEF WritesAppend
=============================================================================
