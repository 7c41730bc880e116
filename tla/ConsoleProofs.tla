---------------------------- MODULE ConsoleProofs ----------------------------
(***************************************************************************)
(* The console, for any size of its buffers and every range of the indices *)
(* that is a multiple of the size. Line is the invariant of the input      *)
(* buffer, from which its refinement of Tty follows; Port is that of the   *)
(* transmitter, for the refinement of Fifo; Awaited is what a sleeping     *)
(* reader knows. The input buffer is treated as two adjoining windows on a *)
(* ring (Win, Layout), so that each index arithmetic is done once.         *)
(***************************************************************************)
EXTENDS Console, WellFoundedInduction, TLAPS

B == INPUT_BUF_SIZE
U == UINT32
Idx == 0 .. UINT32 - 1

-----------------------------------------------------------------------------
(* Arithmetic modulo the sizes *)

(* The sizes of the buffer and of the range of the indices. *)
LEMMA Sizes == B \in Nat \ {0} /\ U \in Nat \ {0} /\ U > B /\ U % B = 0
  BY ConsoleAssumption DEF B, U

(* Quotient and remainder. *)
LEMMA DivMod ==
  ASSUME NEW x \in Int, NEW m \in Nat \ {0}
  PROVE  /\ x \div m \in Int /\ x % m \in 0 .. m - 1
         /\ x = m * (x \div m) + (x % m)
  BY Z3

(* The remainder is the only number in 0 .. m - 1 that differs from x by a *)
(* multiple of m.                                                          *)
LEMMA ModUnique ==
  ASSUME NEW x \in Int, NEW m \in Nat \ {0}, NEW q \in Int, NEW s \in 0 .. m - 1,
         x = m * q + s
  PROVE  x % m = s
  BY Z3

(* A sum may be reduced before the end. *)
LEMMA ModIdem ==
  ASSUME NEW x \in Int, NEW y \in Int, NEW m \in Nat \ {0}
  PROVE  ((x % m) + y) % m = (x + y) % m
<1> DEFINE p == x \div m
           z == (x + y) \div m
           s == x % m
           v == (x + y) % m
<1>1. p \in Int /\ s \in 0 .. m - 1 /\ x = m * p + s
  BY DivMod
<1>2. z \in Int /\ v \in 0 .. m - 1 /\ x + y = m * z + v
  <2>1. x + y \in Int
    OBVIOUS
  <2> QED
    BY <2>1, DivMod
<1> HIDE DEF p, z, s, v
<1>3. s + y = m * (z - p) + v
  BY <1>1, <1>2, Z3
<1>4. s + y \in Int /\ z - p \in Int
  BY <1>1, <1>2
<1>5. (s + y) % m = v
  BY <1>2, <1>3, <1>4, ModUnique, ZenonT(40)
<1> QED
  BY <1>5 DEF s, v

(* A small number is its own remainder. *)
LEMMA SmallMod ==
  ASSUME NEW m \in Nat \ {0}, NEW x \in 0 .. m - 1
  PROVE  x % m = x
<1>1. x = m * 0 + x
  OBVIOUS
<1> QED
  BY <1>1, ModUnique

(* Indices stay in their range. *)
LEMMA PlusType ==
  ASSUME NEW x \in Int, NEW a \in Int
  PROVE  Plus(x, a) \in Idx /\ Minus(x, a) \in Idx
<1>1. x + a \in Int /\ x - a \in Int /\ UINT32 \in Nat \ {0}
  BY Sizes DEF U
<1>2. (x + a) % UINT32 \in 0 .. UINT32 - 1 /\ (x - a) % UINT32 \in 0 .. UINT32 - 1
  BY <1>1, DivMod
<1> QED
  BY <1>2 DEF Plus, Minus, Idx

(* Two movements of an index are one. *)
LEMMA PlusPlus ==
  ASSUME NEW x \in Int, NEW a \in Int, NEW b \in Int
  PROVE  Plus(Plus(x, a), b) = Plus(x, a + b) /\ Minus(Plus(x, a), b) = Plus(x, a - b)
<1>0. UINT32 \in Nat \ {0}
  BY Sizes DEF U
<1>1. x + a \in Int /\ -b \in Int
  OBVIOUS
<1>2. (((x + a) % UINT32) + b) % UINT32 = ((x + a) + b) % UINT32
  BY <1>0, <1>1, ModIdem, ZenonT(40)
<1>3. (((x + a) % UINT32) + (-b)) % UINT32 = ((x + a) + (-b)) % UINT32
  BY <1>0, <1>1, ModIdem, ZenonT(40)
<1>4. (x + a) % UINT32 \in Int
  BY <1>0, <1>1, DivMod
<1>5. /\ (x + a) + b = x + (a + b) /\ (x + a) + (-b) = x + (a - b)
      /\ ((x + a) % UINT32) + (-b) = ((x + a) % UINT32) - b
  BY <1>4
<1> QED
  BY <1>2, <1>3, <1>5 DEF Plus, Minus

(* The distance between an index and where it moves to, *)
LEMMA MinusPlus ==
  ASSUME NEW x \in Idx, NEW a \in Idx
  PROVE  Minus(Plus(x, a), x) = a
<1>0. UINT32 \in Nat \ {0} /\ x \in Int /\ a \in Int
  BY Sizes DEF U, Idx
<1>1. Minus(Plus(x, a), x) = Plus(x, a - x)
  BY <1>0, PlusPlus
<1>2. Plus(x, a - x) = a % UINT32
  <2>1. x + (a - x) = a
    BY <1>0
  <2> QED
    BY <2>1 DEF Plus
<1>3. a % UINT32 = a
  BY <1>0, SmallMod DEF Idx
<1> QED
  BY <1>1, <1>2, <1>3

(* and the movement over the distance of two indices. *)
LEMMA PlusMinus ==
  ASSUME NEW x \in Idx, NEW y \in Idx
  PROVE  Plus(x, Minus(y, x)) = y
<1>0. UINT32 \in Nat \ {0} /\ x \in Int /\ y \in Int /\ y - x \in Int
  BY Sizes DEF U, Idx
<1>1. (((y - x) % UINT32) + x) % UINT32 = ((y - x) + x) % UINT32
  BY <1>0, ModIdem, ZenonT(40)
<1>2. (y - x) % UINT32 \in Int
  BY <1>0, DivMod
<1>3. (y - x) + x = y /\ ((y - x) % UINT32) + x = x + ((y - x) % UINT32)
  BY <1>0, <1>2
<1>4. y % UINT32 = y
  BY <1>0, SmallMod DEF Idx
<1> QED
  BY <1>1, <1>3, <1>4 DEF Plus, Minus

(* A reduction modulo a multiple does not change the remainder: an index   *)
(* that wraps around names the same cell.                                  *)
LEMMA ModMod ==
  ASSUME NEW x \in Int, NEW c \in Nat \ {0}, NEW m \in Nat \ {0}, c % m = 0
  PROVE  (x % c) % m = x % m
<1>1. PICK g \in Int, s \in Int : s = x % c /\ x = c * g + s
  <2>1. x \div c \in Int /\ x % c \in Int /\ x = c * (x \div c) + (x % c)
    BY DivMod
  <2> QED
    BY <2>1, Zenon
<1>2. PICK z \in Int : c = m * z
  <2>1. c \div m \in Int /\ c = m * (c \div m) + (c % m)
    BY DivMod
  <2> QED
    BY <2>1
<1>3. PICK p \in Int, v \in 0 .. m - 1 : v = s % m /\ s = m * p + v
  <2>1. s \div m \in Int /\ s % m \in 0 .. m - 1 /\ s = m * (s \div m) + (s % m)
    BY DivMod
  <2> QED
    BY <2>1, Zenon
<1>4. PICK d \in Int : d = (z * g) + p
  OBVIOUS
<1>5. x = m * d + v
  <2>1. x = (m * z) * g + (m * p + v)
    BY <1>1, <1>2, <1>3
  <2>2. \A k \in Nat, i, j, l, y \in Int : (k * i) * j + (k * l + y) = k * ((i * j) + l) + y
    BY Z3
  <2>3. m \in Nat /\ v \in Int
    OBVIOUS
  <2> QED
    BY <1>4, <2>1, <2>2, <2>3
<1>6. x % m = v
  BY <1>5, ModUnique
<1> QED
  BY <1>1, <1>3, <1>6

(* The wrap-around of the indices does not move their slots. *)
LEMMA SlotPlus ==
  ASSUME NEW x \in Int, NEW a \in Int
  PROVE  Slot(Plus(x, a)) = (x + a) % B /\ (x + a) % B \in 0 .. B - 1
<1>1. x + a \in Int /\ B \in Nat \ {0} /\ U \in Nat \ {0} /\ U % B = 0
  BY Sizes
<1>2. ((x + a) % U) % B = (x + a) % B
  BY <1>1, ModMod, ZenonT(40)
<1>3. (x + a) % B \in 0 .. B - 1
  BY <1>1, DivMod
<1> QED
  BY <1>2, <1>3 DEF Slot, Plus, U, B

(* Numbers less than the size apart have different remainders. *)
LEMMA SlotsDiffer ==
  ASSUME NEW x \in Int, NEW y \in Int, x < y, y - x < B
  PROVE  x % B # y % B
<1> SUFFICES ASSUME x % B = y % B PROVE FALSE
  OBVIOUS
<1> DEFINE p == x \div B
           q == y \div B
<1>1. B \in Nat \ {0} /\ p \in Int /\ q \in Int /\ x % B \in Int
      /\ x = B * p + (x % B) /\ y = B * q + (y % B)
  BY Sizes, DivMod
<1> HIDE DEF p, q
<1>2. y - x = B * (q - p) /\ q - p \in Int
  BY <1>1, Z3
<1>3. B * (q - p) > 0 /\ B * (q - p) < B
  BY <1>1, <1>2
<1> HIDE DEF B
<1>4. ASSUME NEW d \in Int, B * d > 0, B * d < B PROVE FALSE
  BY <1>1, <1>4, Z3
<1> QED
  BY <1>2, <1>3, <1>4

-----------------------------------------------------------------------------
(* The m characters of a ring from place i on *)

Glyphs == Keys \cup {Empty}
Rings == [0 .. B - 1 -> Glyphs]
Cell(i) == i % B
Win(f, i, m) == [k \in 1 .. m |-> f[Cell(i + (k - 1))]]

(* A cell is a cell of the buffer. *)
LEMMA CellType ==
  ASSUME NEW i \in Int
  PROVE  Cell(i) \in 0 .. B - 1
  BY Sizes, DivMod DEF Cell

(* Indices less than the size apart name different cells. *)
LEMMA CellsDiffer ==
  ASSUME NEW x \in Int, NEW y \in Int, x # y, x - y < B, y - x < B
  PROVE  Cell(x) # Cell(y)
<1>1. CASE x < y
  BY <1>1, SlotsDiffer DEF Cell
<1>2. CASE y < x
  BY <1>2, SlotsDiffer DEF Cell
<1> QED
  BY <1>1, <1>2

(* A window of the buffer, from an index on, is a sequence. *)
LEMMA WinSeq ==
  ASSUME NEW f \in Rings, NEW i \in Int, NEW m \in Nat
  PROVE  /\ Win(f, i, m) \in Seq(Glyphs) /\ Len(Win(f, i, m)) = m
         /\ \A k \in 1 .. m : Win(f, i, m)[k] = f[Cell(i + (k - 1))]
<1>1. \A k \in 1 .. m : f[Cell(i + (k - 1))] \in Glyphs
  <2> TAKE k \in 1 .. m
  <2>1. i + (k - 1) \in Int
    OBVIOUS
  <2>2. Cell(i + (k - 1)) \in 0 .. B - 1
    BY <2>1, CellType
  <2> QED
    BY <2>2 DEF Rings
<1>2. Win(f, i, m) \in [1 .. m -> Glyphs]
  BY <1>1, ZenonT(40) DEF Win
<1>3. \A k \in 1 .. m : Win(f, i, m)[k] = f[Cell(i + (k - 1))]
  BY DEF Win
<1> QED
  BY <1>2, <1>3

(* Sequences of the same length with the same elements are equal. *)
LEMMA SeqEq ==
  ASSUME NEW S, NEW s \in Seq(S), NEW u \in Seq(S), Len(s) = Len(u),
         \A k \in 1 .. Len(s) : s[k] = u[k]
  PROVE  s = u
<1>1. s \in [1 .. Len(s) -> S] /\ u \in [1 .. Len(s) -> S]
  OBVIOUS
<1> QED
  BY <1>1

(* Windows on buffers with the same cells are the same. *)
LEMMA WinSame ==
  ASSUME NEW f \in Rings, NEW g \in Rings, NEW i \in Int, NEW m \in Nat,
         \A k \in 0 .. m - 1 : f[Cell(i + k)] = g[Cell(i + k)]
  PROVE  Win(f, i, m) = Win(g, i, m)
<1>1. \A k \in 1 .. m : f[Cell(i + (k - 1))] = g[Cell(i + (k - 1))]
  <2> TAKE k \in 1 .. m
  <2>1. k - 1 \in 0 .. m - 1
    OBVIOUS
  <2> QED
    BY <2>1, Zenon
<1> QED
  BY <1>1 DEF Win

(* A shorter window is the front of a longer one, *)
LEMMA WinFront ==
  ASSUME NEW f \in Rings, NEW i \in Int, NEW m \in Nat, NEW k \in 0 .. m
  PROVE  Win(f, i, m - k) = SubSeq(Win(f, i, m), 1, m - k)
<1> DEFINE s == Win(f, i, m)
           u == Win(f, i, m - k)
<1>0. m - k \in Nat
  OBVIOUS
<1>1. s \in Seq(Glyphs) /\ Len(s) = m /\ \A j \in 1 .. m : s[j] = f[Cell(i + (j - 1))]
  BY WinSeq
<1>2. u \in Seq(Glyphs) /\ Len(u) = m - k
      /\ \A j \in 1 .. m - k : u[j] = f[Cell(i + (j - 1))]
  BY <1>0, WinSeq
<1> HIDE DEF s, u
<1>3. /\ SubSeq(s, 1, m - k) \in Seq(Glyphs) /\ Len(SubSeq(s, 1, m - k)) = m - k
      /\ \A j \in 1 .. m - k : SubSeq(s, 1, m - k)[j] = s[j]
  BY <1>1
<1>4. \A j \in 1 .. m - k : u[j] = SubSeq(s, 1, m - k)[j]
  BY <1>1, <1>2, <1>3
<1>5. u = SubSeq(s, 1, m - k)
  BY <1>2, <1>3, <1>4, SeqEq
<1> QED
  BY <1>5 DEF s, u

(* and one that begins later is its back. *)
LEMMA WinBack ==
  ASSUME NEW f \in Rings, NEW i \in Int, NEW m \in Nat, NEW k \in 0 .. m
  PROVE  Win(f, i + k, m - k) = SubSeq(Win(f, i, m), k + 1, m)
<1> DEFINE s == Win(f, i, m)
           u == Win(f, i + k, m - k)
           v == SubSeq(s, k + 1, m)
<1>0. m - k \in Nat /\ i + k \in Int
  OBVIOUS
<1>1. s \in Seq(Glyphs) /\ Len(s) = m /\ \A j \in 1 .. m : s[j] = f[Cell(i + (j - 1))]
  BY WinSeq
<1>2. u \in Seq(Glyphs) /\ Len(u) = m - k
      /\ \A j \in 1 .. m - k : u[j] = f[Cell((i + k) + (j - 1))]
  BY <1>0, WinSeq
<1> HIDE DEF s, u
<1>3. /\ v \in Seq(Glyphs) /\ Len(v) = m - k
      /\ \A j \in 1 .. m - k : v[j] = s[j + k]
  BY <1>1
<1> HIDE DEF v
<1>4. \A j \in 1 .. m - k : u[j] = v[j]
  <2> TAKE j \in 1 .. m - k
  <2>1. j + k \in 1 .. m /\ (i + k) + (j - 1) = i + ((j + k) - 1)
    OBVIOUS
  <2>2. s[j + k] = f[Cell(i + ((j + k) - 1))]
    BY <1>1, <2>1
  <2> QED
    BY <1>2, <1>3, <2>1, <2>2
<1>5. u = v
  BY <1>2, <1>3, <1>4, SeqEq
<1> QED
  BY <1>5 DEF s, u, v

(* Writing the cell after a window appends to it. *)
LEMMA WinAppend ==
  ASSUME NEW f \in Rings, NEW g \in Rings, NEW i \in Int, NEW m \in Nat, NEW c \in Glyphs,
         \A k \in 0 .. m - 1 : f[Cell(i + k)] = g[Cell(i + k)], g[Cell(i + m)] = c
  PROVE  Win(g, i, m + 1) = Append(Win(f, i, m), c)
<1> DEFINE s == Win(f, i, m)
           u == Win(g, i, m + 1)
           v == Append(s, c)
<1>1. s \in Seq(Glyphs) /\ Len(s) = m /\ \A j \in 1 .. m : s[j] = f[Cell(i + (j - 1))]
  BY WinSeq
<1>2. u \in Seq(Glyphs) /\ Len(u) = m + 1
      /\ \A j \in 1 .. m + 1 : u[j] = g[Cell(i + (j - 1))]
  BY WinSeq
<1> HIDE DEF s, u
<1>3. /\ v \in Seq(Glyphs) /\ Len(v) = m + 1 /\ v[m + 1] = c
      /\ \A j \in 1 .. m : v[j] = s[j]
  BY <1>1
<1> HIDE DEF v
<1>4. \A j \in 1 .. m + 1 : u[j] = v[j]
  <2> TAKE j \in 1 .. m + 1
  <2>1. CASE j = m + 1
    <3>1. j - 1 = m
      BY <2>1
    <3> QED
      BY <1>2, <1>3, <2>1, <3>1
  <2>2. CASE j \in 1 .. m
    <3>1. j - 1 \in 0 .. m - 1
      BY <2>2
    <3> QED
      BY <1>1, <1>2, <1>3, <2>2, <3>1, ZenonT(40)
  <2> QED
    BY <2>1, <2>2
<1>5. u = v
  BY <1>2, <1>3, <1>4, SeqEq
<1> QED
  BY <1>5 DEF s, u, v

(* Two adjoining windows are one. *)
LEMMA WinConcat ==
  ASSUME NEW f \in Rings, NEW i \in Int, NEW m \in Nat, NEW q \in Nat
  PROVE  Win(f, i, m + q) = Win(f, i, m) \o Win(f, i + m, q)
<1> DEFINE s == Win(f, i, m)
           t == Win(f, i + m, q)
           u == Win(f, i, m + q)
           v == s \o t
<1>1. s \in Seq(Glyphs) /\ Len(s) = m /\ \A j \in 1 .. m : s[j] = f[Cell(i + (j - 1))]
  BY WinSeq
<1>2. t \in Seq(Glyphs) /\ Len(t) = q
      /\ \A j \in 1 .. q : t[j] = f[Cell((i + m) + (j - 1))]
  BY WinSeq
<1>3. u \in Seq(Glyphs) /\ Len(u) = m + q
      /\ \A j \in 1 .. m + q : u[j] = f[Cell(i + (j - 1))]
  BY WinSeq
<1> HIDE DEF s, t, u
<1>4. /\ v \in Seq(Glyphs) /\ Len(v) = m + q
      /\ \A j \in 1 .. m : v[j] = s[j]
      /\ \A j \in m + 1 .. m + q : v[j] = t[j - m]
  BY <1>1, <1>2
<1> HIDE DEF v
<1>5. \A j \in 1 .. m + q : u[j] = v[j]
  <2> TAKE j \in 1 .. m + q
  <2>1. CASE j \in 1 .. m
    BY <1>1, <1>3, <1>4, <2>1, ZenonT(40)
  <2>2. CASE j \in m + 1 .. m + q
    <3>1. j - m \in 1 .. q /\ (i + m) + ((j - m) - 1) = i + (j - 1)
      BY <2>2
    <3>2. t[j - m] = f[Cell((i + m) + ((j - m) - 1))]
      BY <1>2, <3>1
    <3> QED
      BY <1>3, <1>4, <2>2, <3>1, <3>2, ZenonT(40)
  <2> QED
    BY <2>1, <2>2
<1>6. u = v
  BY <1>3, <1>4, <1>5, SeqEq
<1> QED
  BY <1>6 DEF s, t, u, v

(* What Between returns, for a ring that need not be the buffer *)
Segment(f, i, j) == [k \in 1 .. Minus(j, i) |-> f[Slot(Plus(i, k - 1))]]

(* The cell of a moved index does not depend on whether it wrapped around. *)
LEMMA CellPlus ==
  ASSUME NEW x \in Int, NEW a \in Int, NEW k \in Int
  PROVE  Cell(Plus(x, a) + k) = Cell((x + a) + k)
<1>1. Plus(x, a) \in Int
  BY PlusType, Sizes DEF Idx, U
<1>2. Slot(Plus(Plus(x, a), k)) = Cell(Plus(x, a) + k)
  BY <1>1, SlotPlus DEF Cell
<1>3. Slot(Plus(x, a + k)) = Cell(x + (a + k))
  BY SlotPlus DEF Cell
<1>4. Plus(Plus(x, a), k) = Plus(x, a + k)
  BY PlusPlus
<1>5. x + (a + k) = (x + a) + k
  OBVIOUS
<1> QED
  BY <1>2, <1>3, <1>4, <1>5

(* Two segments that follow each other in the ring *)
LEMMA Segments ==
  ASSUME NEW f, NEW x \in Idx, NEW m \in Nat, NEW q \in Nat, m + q <= B,
         NEW y, y = Plus(x, m), NEW z, z = Plus(y, q)
  PROVE  /\ y \in Idx /\ z \in Idx /\ z = Plus(x, m + q)
         /\ Minus(y, x) = m /\ Minus(z, y) = q /\ Minus(z, x) = m + q
         /\ Segment(f, x, y) = Win(f, x, m)
         /\ Segment(f, y, z) = Win(f, x + m, q)
<1>1. x \in Int /\ m \in Int /\ q \in Int /\ m \in Idx /\ q \in Idx /\ m + q \in Idx
  BY Sizes DEF Idx, U
<1>2. y \in Idx
  BY <1>1, PlusType
<1>3. y \in Int
  BY <1>2, Sizes DEF Idx, U
<1>4. z \in Idx /\ z = Plus(x, m + q)
  BY <1>1, <1>3, PlusType, PlusPlus, ZenonT(40)
<1>5. Minus(y, x) = m /\ Minus(z, y) = q /\ Minus(z, x) = m + q
  <2>1. Minus(Plus(x, m), x) = m /\ Minus(Plus(x, m + q), x) = m + q
    BY <1>1, MinusPlus, Zenon
  <2>2. Minus(Plus(y, q), y) = q
    BY <1>1, <1>2, MinusPlus, Zenon
  <2> QED
    BY <1>4, <2>1, <2>2, Zenon
<1>6. ASSUME NEW k \in 1 .. m
      PROVE  Slot(Plus(x, k - 1)) = Cell(x + (k - 1))
  <2>1. k - 1 \in Int
    OBVIOUS
  <2> QED
    BY <1>1, <2>1, SlotPlus DEF Cell
<1>7. Segment(f, x, y) = Win(f, x, m)
  BY <1>5, <1>6 DEF Segment, Win
<1>8. ASSUME NEW k \in 1 .. q
      PROVE  Slot(Plus(y, k - 1)) = Cell((x + m) + (k - 1))
  <2>1. k - 1 \in Int
    OBVIOUS
  <2>2. Slot(Plus(y, k - 1)) = Cell(y + (k - 1))
    BY <1>3, <2>1, SlotPlus DEF Cell
  <2>3. Cell(y + (k - 1)) = Cell((x + m) + (k - 1))
    BY <1>1, <2>1, CellPlus
  <2> QED
    BY <2>2, <2>3
<1>9. Segment(f, y, z) = Win(f, x + m, q)
  BY <1>5, <1>8 DEF Segment, Win
<1> QED
  BY <1>2, <1>4, <1>5, <1>7, <1>9

-----------------------------------------------------------------------------
(* The input buffer *)

Line ==
  /\ buf \in Rings /\ r \in Idx /\ w \in Idx /\ e \in Idx
  /\ Minus(w, r) + Minus(e, w) <= B
  /\ rhr \in Seq(Keys)

(* The lines that are ready and the one being edited are adjoining windows *)
(* on the buffer, from r to w and from w to e.                             *)
LEMMA Layout ==
  ASSUME Line
  PROVE  \E m, q \in Nat :
           /\ m + q <= B /\ m = Minus(w, r) /\ q = Minus(e, w) /\ m + q = Minus(e, r)
           /\ w = Plus(r, m) /\ e = Plus(w, q) /\ e = Plus(r, m + q)
           /\ Ready = Win(buf, r, m) /\ Edit = Win(buf, r + m, q)
           /\ Len(Ready) = m /\ Len(Edit) = q
           /\ Ready \in Seq(Glyphs) /\ Edit \in Seq(Glyphs)
<1>0. r \in Int /\ w \in Int /\ e \in Int
  BY Sizes DEF Line, Idx, U
<1>1. PICK m, q \in Nat : m = Minus(w, r) /\ q = Minus(e, w)
  <2>1. Minus(w, r) \in Idx /\ Minus(e, w) \in Idx
    BY <1>0, PlusType
  <2>2. Minus(w, r) \in Nat /\ Minus(e, w) \in Nat
    BY <2>1, Sizes DEF Idx, U
  <2> QED
    BY <2>2, Zenon
<1>2. w = Plus(r, m) /\ e = Plus(w, q) /\ m + q <= B
  BY <1>1, PlusMinus DEF Line
<1>3. /\ e = Plus(r, m + q) /\ Minus(e, r) = m + q
      /\ Segment(buf, r, w) = Win(buf, r, m) /\ Segment(buf, w, e) = Win(buf, r + m, q)
  BY <1>2, Segments DEF Line
<1>4. Ready = Win(buf, r, m) /\ Edit = Win(buf, r + m, q)
  BY <1>3 DEF Ready, Edit, Between, Segment
<1>5. r + m \in Int /\ buf \in Rings
  BY <1>0 DEF Line
<1>6. /\ Len(Ready) = m /\ Len(Edit) = q
      /\ Ready \in Seq(Glyphs) /\ Edit \in Seq(Glyphs)
  BY <1>0, <1>4, <1>5, WinSeq
<1> QED
  BY <1>1, <1>2, <1>3, <1>4, <1>6, ZenonT(40)

(* A reader takes k characters. *)
LEMMA ConsumeStep ==
  ASSUME Line, NEW k \in 0 .. Len(Ready), Consume(k), UNCHANGED <<w, e, rhr>>
  PROVE  /\ Line'
         /\ Ready' = SubSeq(Ready, k + 1, Len(Ready)) /\ Edit' = Edit
         /\ k = Len(Ready) => r' = w
<1>1. PICK m, q \in Nat :
           /\ m + q <= B /\ m = Minus(w, r) /\ q = Minus(e, w) /\ m + q = Minus(e, r)
           /\ w = Plus(r, m) /\ e = Plus(w, q) /\ e = Plus(r, m + q)
           /\ Ready = Win(buf, r, m) /\ Edit = Win(buf, r + m, q)
           /\ Len(Ready) = m /\ Len(Edit) = q
           /\ Ready \in Seq(Glyphs) /\ Edit \in Seq(Glyphs)
  BY Layout
<1>2. /\ r \in Int /\ r \in Idx /\ buf \in Rings /\ k \in Nat /\ k <= m /\ m - k \in Nat
      /\ k \in Int /\ m - k \in Int /\ k + (m - k) = m /\ (m - k) + q <= B
  <2>1. r \in Int /\ r \in Idx /\ buf \in Rings /\ B \in Nat
    BY Sizes DEF Line, Idx, U
  <2>2. k \in 0 .. m
    BY <1>1, Zenon
  <2> QED
    BY <1>1, <2>1, <2>2
<1>3. r' = Plus(r, k) /\ r' \in Idx
  BY <1>2, PlusType DEF Consume
<1>4. w = Plus(r', m - k)
  BY <1>1, <1>2, <1>3, PlusPlus
<1>5. buf' \in Rings
  <2>1. buf \in [0 .. B - 1 -> Glyphs] /\ Empty \in Glyphs
    BY <1>2 DEF Rings, Glyphs
  <2> QED
    BY <2>1 DEF Consume, Rings
<1>6. ASSUME NEW x \in k .. m + q - 1
      PROVE  buf'[Cell(r + x)] = buf[Cell(r + x)]
  <2>1. r + x \in Int /\ x \in Int
    BY <1>2
  <2>2. ASSUME NEW j \in 0 .. k - 1 PROVE Cell(r + x) # Slot(Plus(r, j))
    <3>1. r + j \in Int /\ j \in Int /\ r + x # r + j /\ (r + x) - (r + j) < B
          /\ (r + j) - (r + x) < B
      <4>1. B \in Int /\ m \in Int /\ q \in Int /\ m + q <= B
        BY <1>1, Sizes
      <4>2. x \in Int /\ j \in Int /\ k \in Int /\ r \in Int /\ 0 <= j /\ j <= k - 1
            /\ k <= x /\ x <= m + q - 1
        BY <1>2, <2>1, <4>1
      <4> QED
        BY <4>1, <4>2
    <3>2. Cell(r + x) # Cell(r + j)
      BY <2>1, <3>1, CellsDiffer
    <3>3. Slot(Plus(r, j)) = Cell(r + j)
      BY <1>2, <3>1, SlotPlus DEF Cell
    <3> QED
      BY <3>2, <3>3
  <2>3. Cell(r + x) \in DOMAIN buf
    BY <1>2, <2>1, CellType, ZenonT(40) DEF Rings
  <2> QED
    BY <2>2, <2>3 DEF Consume
<1>7. /\ Minus(w, r') = m - k /\ Minus(e, w) = q
      /\ Segment(buf', r', w) = Win(buf', r', m - k)
  <2>1. PICK d \in Nat : d = m - k /\ d + q <= B /\ w = Plus(r', d)
    BY <1>2, <1>4
  <2>2. q \in Nat /\ e = Plus(w, q)
    BY <1>1
  <2>3. PICK x, f, y, z : x = r' /\ f = buf' /\ y = w /\ z = e
    OBVIOUS
  <2>4. x \in Idx /\ y = Plus(x, d) /\ z = Plus(y, q) /\ d + q <= B
    BY <1>3, <2>1, <2>2, <2>3
  <2>5. /\ Minus(y, x) = d /\ Minus(z, y) = q /\ Segment(f, x, y) = Win(f, x, d)
        /\ Segment(f, y, z) = Win(f, x + d, q)
    BY <2>4, Segments
  <2> QED
    BY <2>1, <2>3, <2>5, Zenon
<1>8. Line'
  BY <1>1, <1>2, <1>3, <1>5, <1>7, ZenonT(40) DEF Line
<1>9. Segment(buf', w, e) = Win(buf', r + m, q)
  BY <1>1, <1>2, Segments
<1>10. Win(buf', r + m, q) = Win(buf, r + m, q)
  <2>1. r + m \in Int
    BY <1>2
  <2>2. \A x \in 0 .. q - 1 : buf'[Cell((r + m) + x)] = buf[Cell((r + m) + x)]
    <3> TAKE x \in 0 .. q - 1
    <3>1. m + x \in k .. m + q - 1 /\ (r + m) + x = r + (m + x)
      BY <1>2
    <3> QED
      BY <1>6, <3>1
  <2> QED
    BY <1>2, <1>5, <2>1, <2>2, WinSame, ZenonT(40)
<1>11. Edit' = Edit
  BY <1>1, <1>9, <1>10 DEF Edit, Between, Segment
<1>12. Win(buf', r', m - k) = Win(buf', r + k, m - k)
  <2>1. ASSUME NEW x \in 1 .. m - k
        PROVE  Cell(r' + (x - 1)) = Cell((r + k) + (x - 1))
    <3>1. x - 1 \in Int
      BY <1>2
    <3> QED
      BY <1>2, <1>3, <3>1, CellPlus
  <2> QED
    BY <2>1 DEF Win
<1>13. Win(buf', r + k, m - k) = Win(buf, r + k, m - k)
  <2>1. r + k \in Int
    BY <1>2
  <2>2. \A x \in 0 .. m - k - 1 : buf'[Cell((r + k) + x)] = buf[Cell((r + k) + x)]
    <3> TAKE x \in 0 .. m - k - 1
    <3>1. k + x \in k .. m + q - 1 /\ (r + k) + x = r + (k + x)
      BY <1>2
    <3> QED
      BY <1>6, <3>1
  <2> QED
    BY <1>2, <1>5, <2>1, <2>2, WinSame, ZenonT(40)
<1>14. Win(buf, r + k, m - k) = SubSeq(Ready, k + 1, Len(Ready))
  <2>1. k \in 0 .. m /\ Len(Ready) = m /\ Ready = Win(buf, r, m)
    BY <1>1, Zenon
  <2>2. Win(buf, r + k, m - k) = SubSeq(Win(buf, r, m), k + 1, m)
    BY <1>2, <2>1, WinBack
  <2> QED
    BY <2>1, <2>2, Zenon
<1>15. Ready' = SubSeq(Ready, k + 1, Len(Ready))
  <2>1. Ready' = Segment(buf', r', w)
    BY DEF Ready, Between, Segment
  <2> QED
    BY <1>7, <1>12, <1>13, <1>14, <2>1
<1>16. k = Len(Ready) => r' = w
  BY <1>1, <1>3
<1> QED
  BY <1>8, <1>11, <1>15, <1>16

(* ^U and backspace erase the last k characters of the line. *)
LEMMA EraseStep ==
  ASSUME Line, NEW k \in 0 .. Len(Edit), EraseLast(k), rhr' \in Seq(Keys)
  PROVE  Line' /\ Ready' = Ready /\ Edit' = SubSeq(Edit, 1, Len(Edit) - k)
<1>1. PICK m, q \in Nat :
           /\ m + q <= B /\ m = Minus(w, r) /\ q = Minus(e, w) /\ m + q = Minus(e, r)
           /\ w = Plus(r, m) /\ e = Plus(w, q) /\ e = Plus(r, m + q)
           /\ Ready = Win(buf, r, m) /\ Edit = Win(buf, r + m, q)
           /\ Len(Ready) = m /\ Len(Edit) = q
           /\ Ready \in Seq(Glyphs) /\ Edit \in Seq(Glyphs)
  BY Layout
<1>2. /\ r \in Int /\ r \in Idx /\ buf \in Rings /\ k \in Nat /\ k <= q /\ q - k \in Nat
      /\ k \in Int /\ q - k \in Int /\ m + (q - k) <= B /\ w \in Int /\ r + m \in Int
  <2>1. r \in Int /\ w \in Int /\ r \in Idx /\ buf \in Rings /\ B \in Nat
    BY Sizes DEF Line, Idx, U
  <2>2. k \in 0 .. q /\ m \in Nat /\ q \in Nat /\ m + q <= B
    BY <1>1, Zenon
  <2> QED
    BY <2>1, <2>2
<1>3. r' = r /\ w' = w /\ e' = Plus(w, q - k)
  <2>1. e' = Minus(Plus(w, q), k)
    BY <1>1 DEF EraseLast
  <2>2. q \in Int
    OBVIOUS
  <2> QED
    BY <1>2, <2>1, <2>2, PlusPlus DEF EraseLast
<1>4. buf' \in Rings
  <2>1. buf \in [0 .. B - 1 -> Glyphs] /\ Empty \in Glyphs
    BY <1>2 DEF Rings, Glyphs
  <2> QED
    BY <2>1 DEF EraseLast, Rings
<1>5. ASSUME NEW x \in 0 .. m + (q - k) - 1
      PROVE  buf'[Cell(r + x)] = buf[Cell(r + x)]
  <2>1. r + x \in Int /\ x \in Int
    BY <1>2
  <2>2. ASSUME NEW j \in 1 .. k PROVE Cell(r + x) # Slot(Minus(e, j))
    <3> DEFINE y == (m + q) - j
    <3>1. /\ j \in Int /\ y \in Int /\ m + q \in Int /\ r + y \in Int /\ r + x # r + y
          /\ (r + x) - (r + y) < B /\ (r + y) - (r + x) < B
      <4>1. B \in Int /\ m \in Int /\ q \in Int /\ m + q <= B /\ k \in Int
        BY <1>1, <1>2, Sizes
      <4>2. x \in Int /\ j \in Int /\ r \in Int /\ 1 <= j /\ j <= k /\ 0 <= x
            /\ x <= m + (q - k) - 1
        BY <1>2, <2>1, <4>1
      <4> QED
        BY <4>1, <4>2
    <3>2. Minus(e, j) = Plus(r, y)
      <4>1. PICK a \in Int : a = m + q
        BY <3>1
      <4>2. Plus(Plus(r, a), j) = Plus(r, a + j) /\ Minus(Plus(r, a), j) = Plus(r, a - j)
        <5>1. r \in Int /\ j \in Int
          BY <1>2
        <5> QED
          BY <5>1, PlusPlus, ZenonT(40)
      <4> QED
        BY <1>1, <4>1, <4>2, ZenonT(40)
    <3> HIDE DEF y
    <3>3. Cell(r + x) # Cell(r + y)
      BY <2>1, <3>1, CellsDiffer
    <3>4. Slot(Plus(r, y)) = Cell(r + y)
      BY <1>2, <3>1, SlotPlus DEF Cell
    <3> QED
      BY <3>2, <3>3, <3>4
  <2>3. Cell(r + x) \in DOMAIN buf
    BY <1>2, <2>1, CellType, ZenonT(40) DEF Rings
  <2> QED
    BY <2>2, <2>3 DEF EraseLast
<1>6. PICK d \in Nat : d = q - k /\ m + d <= B /\ e' = Plus(w, d)
  BY <1>2, <1>3
<1>7. /\ e' \in Idx /\ Minus(w, r) = m /\ Minus(e', w) = d
      /\ Segment(buf', r, w) = Win(buf', r, m)
      /\ Segment(buf', w, e') = Win(buf', r + m, d)
  <2>1. PICK f, y, z : f = buf' /\ y = w /\ z = e'
    OBVIOUS
  <2>2. y = Plus(r, m) /\ z = Plus(y, d) /\ m + d <= B
    BY <1>1, <1>6, <2>1
  <2>3. /\ z \in Idx /\ Minus(y, r) = m /\ Minus(z, y) = d /\ Segment(f, r, y) = Win(f, r, m)
        /\ Segment(f, y, z) = Win(f, r + m, d)
    BY <1>2, <2>2, Segments
  <2> QED
    BY <2>1, <2>3, Zenon
<1>8. Line'
  BY <1>2, <1>3, <1>4, <1>6, <1>7 DEF Line
<1>9. Win(buf', r, m) = Win(buf, r, m)
  <2>1. \A x \in 0 .. m - 1 : buf'[Cell(r + x)] = buf[Cell(r + x)]
    <3> TAKE x \in 0 .. m - 1
    <3>1. x \in 0 .. m + (q - k) - 1
      BY <1>2
    <3> QED
      BY <1>5, <3>1
  <2> QED
    BY <1>2, <1>4, <2>1, WinSame, ZenonT(40)
<1>10. Win(buf', r + m, q - k) = Win(buf, r + m, q - k)
  <2>1. \A x \in 0 .. (q - k) - 1 : buf'[Cell((r + m) + x)] = buf[Cell((r + m) + x)]
    <3> TAKE x \in 0 .. (q - k) - 1
    <3>1. m + x \in 0 .. m + (q - k) - 1 /\ (r + m) + x = r + (m + x)
      BY <1>2
    <3> QED
      BY <1>5, <3>1
  <2> QED
    BY <1>2, <1>4, <2>1, WinSame, ZenonT(40)
<1>11. Win(buf, r + m, q - k) = SubSeq(Edit, 1, Len(Edit) - k)
  <2>1. k \in 0 .. q /\ Len(Edit) = q /\ Edit = Win(buf, r + m, q)
    BY <1>1, Zenon
  <2>2. Win(buf, r + m, q - k) = SubSeq(Win(buf, r + m, q), 1, q - k)
    BY <1>2, <2>1, WinFront, ZenonT(40)
  <2> QED
    BY <2>1, <2>2, Zenon
<1>12. Ready' = Segment(buf', r, w) /\ Edit' = Segment(buf', w, e')
  BY <1>3 DEF Ready, Edit, Between, Segment
<1> QED
  BY <1>1, <1>6, <1>7, <1>8, <1>9, <1>10, <1>11, <1>12, ZenonT(40)

(* A character is stored, and may finish the line. *)
LEMMA StoreStep ==
  ASSUME Line, NEW c \in Keys, HasRoom, Store(c), rhr' \in Seq(Keys)
  PROVE  /\ Line' /\ Len(Ready) + Len(Edit) < B
         /\ Commits(c) <=> c \in {Newline, EndOfFile} \/ Len(Ready) + Len(Edit) + 1 = B
         /\ ~Commits(c) => Ready' = Ready /\ Edit' = Append(Edit, c)
         /\ Commits(c) => Ready' = Ready \o Append(Edit, c) /\ Edit' = <<>>
<1>1. PICK m, q \in Nat :
           /\ m + q <= B /\ m = Minus(w, r) /\ q = Minus(e, w) /\ m + q = Minus(e, r)
           /\ w = Plus(r, m) /\ e = Plus(w, q) /\ e = Plus(r, m + q)
           /\ Ready = Win(buf, r, m) /\ Edit = Win(buf, r + m, q)
           /\ Len(Ready) = m /\ Len(Edit) = q
           /\ Ready \in Seq(Glyphs) /\ Edit \in Seq(Glyphs)
  BY Layout
<1>2. /\ r \in Int /\ r \in Idx /\ buf \in Rings /\ w \in Int /\ e \in Int /\ r + m \in Int
      /\ B \in Nat
  <2>1. r \in Int /\ w \in Int /\ e \in Int /\ r \in Idx /\ buf \in Rings /\ B \in Nat
    BY Sizes DEF Line, Idx, U
  <2> QED
    BY <2>1
<1>3. m + q < B
  BY <1>1 DEF HasRoom, B
<1>4. m + q + 1 \in Idx /\ m + q \in Int /\ m \in Int /\ q \in Int
  BY <1>2, <1>3, Sizes DEF Idx, U
<1>5. Plus(e, 1) = Plus(w, q + 1) /\ Plus(e, 1) = Plus(r, m + q + 1)
  <2>1. PICK a \in Int : a = m + q
    BY <1>4
  <2>2. r \in Int /\ w \in Int /\ q \in Int /\ 1 \in Int
    BY <1>2
  <2>3. Plus(Plus(w, q), 1) = Plus(w, q + 1)
    BY <2>2, PlusPlus, ZenonT(40)
  <2>4. Plus(Plus(r, a), 1) = Plus(r, a + 1)
    BY <2>1, <2>2, PlusPlus, ZenonT(40)
  <2> QED
    BY <1>1, <2>1, <2>3, <2>4, ZenonT(40)
<1>6. Minus(Plus(e, 1), r) = m + q + 1
  <2>1. PICK a \in Idx : a = m + q + 1
    BY <1>4
  <2>2. Minus(Plus(r, a), r) = a
    BY <1>2, MinusPlus
  <2> QED
    BY <1>5, <2>1, <2>2
<1>7. Commits(c) <=> c \in {Newline, EndOfFile} \/ Len(Ready) + Len(Edit) + 1 = B
  BY <1>1, <1>6, ZenonT(40) DEF Commits, B
<1>8. Slot(e) = Cell(r + (m + q)) /\ Cell(r + (m + q)) \in 0 .. B - 1
  BY <1>1, <1>2, <1>4, SlotPlus, ZenonT(40) DEF Cell
<1>9. c \in Glyphs
  BY DEF Glyphs
<1>10. /\ buf' \in Rings /\ buf'[Cell(r + (m + q))] = c
       /\ \A i \in 0 .. B - 1 : i # Cell(r + (m + q)) => buf'[i] = buf[i]
  <2>1. buf' = [buf EXCEPT ![Cell(r + (m + q))] = c]
    BY <1>8 DEF Store
  <2> QED
    BY <1>2, <1>8, <1>9, <2>1 DEF Rings
<1>11. ASSUME NEW x \in 0 .. m + q - 1
       PROVE  buf[Cell(r + x)] = buf'[Cell(r + x)]
  <2>1. r + x \in Int /\ r + (m + q) \in Int /\ r + x # r + (m + q)
        /\ (r + x) - (r + (m + q)) < B /\ (r + (m + q)) - (r + x) < B
    <3>1. x \in Int /\ 0 <= x /\ x <= m + q - 1
      BY <1>4
    <3> QED
      BY <1>2, <1>3, <1>4, <3>1
  <2>2. Cell(r + x) # Cell(r + (m + q)) /\ Cell(r + x) \in 0 .. B - 1
    BY <2>1, CellsDiffer, CellType
  <2> QED
    BY <1>10, <2>2
<1>12. Win(buf', r, m) = Win(buf, r, m)
  <2>1. \A x \in 0 .. m - 1 : buf'[Cell(r + x)] = buf[Cell(r + x)]
    <3> TAKE x \in 0 .. m - 1
    <3>1. x \in 0 .. m + q - 1
      BY <1>4
    <3> QED
      BY <1>11, <3>1
  <2> QED
    BY <1>2, <1>10, <2>1, WinSame
<1>13. Win(buf', r + m, q + 1) = Append(Win(buf, r + m, q), c)
  <2>1. \A x \in 0 .. q - 1 : buf[Cell((r + m) + x)] = buf'[Cell((r + m) + x)]
    <3> TAKE x \in 0 .. q - 1
    <3>1. m + x \in 0 .. m + q - 1 /\ (r + m) + x = r + (m + x)
      BY <1>2, <1>4
    <3> QED
      BY <1>11, <3>1
  <2>2. buf'[Cell((r + m) + q)] = c
    <3>1. (r + m) + q = r + (m + q)
      BY <1>2, <1>4
    <3> QED
      BY <1>10, <3>1
  <2>3. PICK f \in Rings, i \in Int : f = buf' /\ i = r + m
    BY <1>2, <1>10, Zenon
  <2>4. (\A x \in 0 .. q - 1 : buf[Cell(i + x)] = f[Cell(i + x)]) /\ f[Cell(i + q)] = c
    BY <2>1, <2>2, <2>3, Zenon
  <2>5. Win(f, i, q + 1) = Append(Win(buf, i, q), c)
    BY <1>2, <1>9, <2>4, WinAppend, ZenonT(40)
  <2> QED
    BY <2>3, <2>5, Zenon

<1>14. r' = r /\ e' = Plus(e, 1) /\ w' = IF Commits(c) THEN Plus(e, 1) ELSE w
  BY DEF Store
<1>15. Ready' = Segment(buf', r, w') /\ Edit' = Segment(buf', w', e')
  BY <1>14 DEF Ready, Edit, Between, Segment
<1>16. CASE ~Commits(c)
  <2>1. PICK f, d, z : f = buf' /\ d = q + 1 /\ z = e'
    OBVIOUS
  <2>2. w' = w /\ w = Plus(r, m) /\ z = Plus(w, d) /\ d \in Nat /\ m + d <= B
    <3>1. m + d <= B /\ d \in Nat
      BY <1>2, <1>3, <2>1
    <3> QED
      BY <1>1, <1>5, <1>14, <1>16, <2>1, <3>1, ZenonT(40)
  <2>3. r \in Idx
    BY <1>2
  <2>4. /\ w \in Idx /\ z \in Idx /\ Minus(w, r) = m /\ Minus(z, w) = d
        /\ Segment(f, r, w) = Win(f, r, m) /\ Segment(f, w, z) = Win(f, r + m, d)
    BY <2>2, <2>3, Segments
  <2>5. Line'
    <3>1. buf' \in Rings /\ r' \in Idx /\ w' \in Idx /\ e' \in Idx
      BY <1>10, <1>14, <2>1, <2>2, <2>3, <2>4
    <3>2. Minus(w', r') + Minus(e', w') <= B
      BY <1>14, <2>1, <2>2, <2>4
    <3> QED
      BY <3>1, <3>2 DEF Line
  <2>6. Ready' = Ready
    BY <1>1, <1>12, <1>15, <2>1, <2>2, <2>4, Zenon
  <2>7. Edit' = Append(Edit, c)
    BY <1>1, <1>13, <1>15, <2>1, <2>2, <2>4, Zenon
  <2> QED
    BY <1>1, <1>3, <1>7, <1>16, <2>5, <2>6, <2>7, ZenonT(40)
<1>17. CASE Commits(c)
  <2>1. PICK f, d, z : f = buf' /\ d = m + q + 1 /\ z = e'
    OBVIOUS
  <2>2. d \in Nat /\ d + 0 <= B /\ d \in Int /\ 0 \in Nat /\ d + 0 = d
    BY <1>2, <1>3, <2>1
  <2>3. w' = z /\ z = Plus(r, d)
    BY <1>5, <1>14, <1>17, <2>1
  <2>4. z = Plus(z, 0)
    <3>1. r \in Int /\ 0 \in Int
      BY <1>2
    <3>2. Plus(Plus(r, d), 0) = Plus(r, d + 0)
      BY <2>2, <3>1, PlusPlus
    <3> QED
      BY <2>2, <2>3, <3>2
  <2>5. r \in Idx
    BY <1>2
  <2>6. /\ z \in Idx /\ Minus(z, r) = d /\ Minus(z, z) = 0
        /\ Segment(f, r, z) = Win(f, r, d) /\ Segment(f, z, z) = Win(f, r + d, 0)
    BY <2>2, <2>3, <2>4, <2>5, Segments
  <2>7. Line'
    <3>1. buf' \in Rings /\ r' \in Idx /\ w' \in Idx /\ e' \in Idx
      BY <1>10, <1>14, <2>1, <2>3, <2>5, <2>6
    <3>2. Minus(w', r') + Minus(e', w') <= B
      BY <1>14, <2>1, <2>2, <2>3, <2>6
    <3> QED
      BY <3>1, <3>2 DEF Line
  <2>8. Edit' = <<>>
    <3>1. f \in Rings /\ r + d \in Int /\ 0 \in Nat
      BY <1>2, <1>10, <2>1, <2>2
    <3>2. Win(f, r + d, 0) \in Seq(Glyphs) /\ Len(Win(f, r + d, 0)) = 0
      BY <3>1, WinSeq
    <3>3. Win(f, r + d, 0) = <<>>
      BY <3>2
    <3> QED
      BY <1>15, <2>1, <2>3, <2>6, <3>3
  <2>9. Ready' = Ready \o Append(Edit, c)
    <3>1. f \in Rings /\ r \in Int /\ q + 1 \in Nat /\ d = m + (q + 1)
      BY <1>2, <1>10, <2>1
    <3>2. Win(f, r, m + (q + 1)) = Win(f, r, m) \o Win(f, r + m, q + 1)
      BY <3>1, WinConcat, ZenonT(40)
    <3>3. Ready' = Win(f, r, d)
      BY <1>15, <2>1, <2>3, <2>6, Zenon
    <3>4. Win(f, r, m) = Ready /\ Win(f, r + m, q + 1) = Append(Edit, c)
      BY <1>1, <1>12, <1>13, <2>1, Zenon
    <3> QED
      BY <3>1, <3>2, <3>3, <3>4, ZenonT(40)
  <2> QED
    BY <1>1, <1>3, <1>7, <1>17, <2>7, <2>8, <2>9, ZenonT(40)
<1> QED
  BY <1>16, <1>17, ZenonT(40)

(* Min of a set of natural numbers is its smallest element. *)
LEMMA MinIs ==
  ASSUME NEW S \in SUBSET Nat, S # {}
  PROVE  Min(S) \in S /\ \A y \in S : Min(S) <= y
<1> DEFINE R == OpToRel(<, Nat)
<1>1. \A x, y \in Nat : <<x, y>> \in R <=> x < y
  BY DEF OpToRel
<1>2. IsWellFoundedOn(R, Nat)
  BY NatLessThanWellFounded, ZenonT(40)
<1> HIDE DEF R
<1>3. PICK x \in S : \A y \in S : ~ (<<y, x>> \in R)
  BY <1>2, WFMin, ZenonT(40)
<1>4. \A y \in S : x <= y
  <2> TAKE y \in S
  <2>1. x \in Nat /\ y \in Nat
    OBVIOUS
  <2>2. ~ (<<y, x>> \in R)
    BY <1>3
  <2>3. ~ (y < x)
    BY <1>1, <2>1, <2>2
  <2> QED
    BY <2>1, <2>3
<1> QED
  BY <1>3, <1>4, ZenonT(40) DEF Min

(* Max of a bounded set is one of its elements. *)
LEMMA MaxIn ==
  ASSUME NEW b \in Nat, NEW S \in SUBSET (0 .. b), S # {}
  PROVE  Max(S) \in S
<1> DEFINE D == {d \in Nat : b - d \in S}
<1>1. D \in SUBSET Nat /\ D # {}
  <2>1. PICK x \in S : TRUE
    BY ZenonT(40)
  <2>2. b - x \in Nat /\ b - (b - x) = x
    OBVIOUS
  <2> QED
    BY <2>1, <2>2, ZenonT(40)
<1>2. Min(D) \in D /\ \A y \in D : Min(D) <= y
  BY <1>1, MinIs
<1>3. PICK d \in Nat : b - d \in S /\ \A y \in Nat : b - y \in S => d <= y
  BY <1>2
<1>4. \A y \in S : b - d >= y
  <2> TAKE y \in S
  <2>1. y \in Nat /\ b - y \in Nat /\ b - (b - y) = y
    OBVIOUS
  <2>2. d <= b - y
    BY <1>3, <2>1
  <2> QED
    BY <2>1, <2>2
<1> QED
  BY <1>3, <1>4, ZenonT(40) DEF Max

(* What ^U erases is no more than the line being edited. *)
LEMMA KilledType ==
  ASSUME Line
  PROVE  Killed \in 0 .. Len(Edit)
<1>1. Len(Edit) \in Nat
  BY Layout
<1> DEFINE S == {0} \cup {k \in 1 .. Len(Edit) : Edit[k] = Newline}
<1>2. S \in SUBSET (0 .. Len(Edit)) /\ S # {}
  BY <1>1
<1> HIDE DEF S
<1>3. Max(S) \in S
  BY <1>1, <1>2, MaxIn, ZenonT(40)
<1>4. Max(S) \in 0 .. Len(Edit)
  BY <1>2, <1>3, ZenonT(40)
<1>5. Killed = Len(Edit) - Max(S)
  BY DEF Killed, S
<1> QED
  BY <1>1, <1>4, <1>5

-----------------------------------------------------------------------------
(* The line discipline *)

TtyStep == T!Next \/ (Ready' = Ready /\ Edit' = Edit)

(* Taking characters from the front, up to the end of a line, is a step of *)
(* Tty.                                                                    *)
LEMMA TakeStep ==
  ASSUME Line, NEW k \in 0 .. Len(Ready), Consume(k), UNCHANGED <<w, e, rhr>>,
         \A i \in 1 .. k - 1 : Ready[i] \notin {Newline, EndOfFile},
         k > 1 => Ready[k] # EndOfFile
  PROVE  Line' /\ TtyStep
<1>1. /\ Line' /\ Ready' = SubSeq(Ready, k + 1, Len(Ready)) /\ Edit' = Edit
  BY ConsumeStep
<1>2. Ready \in Seq(Glyphs) /\ Len(Ready) \in Nat /\ Len(Ready) <= B /\ B \in Nat
  BY Layout, Sizes
<1>3. CASE k = 0
  <2>1. SubSeq(Ready, 1, Len(Ready)) = Ready
    BY <1>2
  <2> QED
    BY <1>1, <1>3, <2>1 DEF TtyStep
<1>4. CASE k # 0
  <2>1. k \in 1 .. Len(Ready) /\ k \in 1 .. INPUT_BUF_SIZE
    BY <1>2, <1>4 DEF B
  <2>2. T!Read(k)
    BY <1>1, <2>1 DEF T!Read
  <2> QED
    BY <1>1, <2>1, <2>2 DEF TtyStep, T!Next
<1> QED
  BY <1>3, <1>4

(* consoleread() takes at most a line, and leaves an end-of-file behind    *)
(* other characters for the next call: a step of Tty.                      *)
LEMMA ReadLineStep ==
  ASSUME Line, NEW t \in Readers, ReadLine(t)
  PROVE  Line' /\ TtyStep
<1>1. Ready \in Seq(Glyphs) /\ Len(Ready) \in Nat
  BY Layout
<1>2. PICK k : k = Min(Stops(t))
  OBVIOUS
<1>3. /\ k \in 1 .. Len(Ready) /\ k \in Nat
      /\ \A i \in 1 .. k - 1 : Ready[i] \notin {Newline, EndOfFile}
  <2>1. Stops(t) \in SUBSET Nat /\ Stops(t) # {}
    BY <1>1 DEF Stops, ReadLine
  <2>2. k \in Stops(t) /\ \A y \in Stops(t) : k <= y
    BY <1>2, <2>1, MinIs
  <2>3. k \in 1 .. Len(Ready) /\ k \in Nat
    BY <2>2 DEF Stops
  <2>4. ASSUME NEW i \in 1 .. k - 1, Ready[i] \in {Newline, EndOfFile} PROVE FALSE
    <3>1. i \in 1 .. Len(Ready) /\ ~ (k <= i)
      BY <1>1, <2>3
    <3>2. i \in Stops(t)
      BY <2>4, <3>1 DEF Stops
    <3> QED
      BY <2>2, <3>1, <3>2
  <2> QED
    BY <2>3, <2>4, ZenonT(40)
<1>4. UNCHANGED <<w, e, rhr>>
  BY DEF ReadLine, deviceVars
<1>5. CASE KeepsEof(t, k)
  <2>1. Consume(k - 1)
    BY <1>2, <1>5 DEF ReadLine
  <2>2. PICK j \in 0 .. Len(Ready) : j = k - 1
    BY <1>1, <1>3
  <2>3. /\ \A i \in 1 .. j - 1 : Ready[i] \notin {Newline, EndOfFile}
        /\ j > 1 => Ready[j] # EndOfFile
    BY <1>3, <2>2
  <2> QED
    BY <1>4, <2>1, <2>2, <2>3, TakeStep
<1>6. CASE ~KeepsEof(t, k)
  <2>1. Consume(k)
    BY <1>2, <1>6 DEF ReadLine
  <2>2. k \in 0 .. Len(Ready) /\ (k > 1 => Ready[k] # EndOfFile)
    BY <1>1, <1>3, <1>6 DEF KeepsEof
  <2> QED
    BY <1>3, <1>4, <2>1, <2>2, TakeStep
<1> QED
  BY <1>5, <1>6

(* A consoleread() whose copy fails has taken one more character: a step   *)
(* of Tty.                                                                 *)
LEMMA ReadFaultsStep ==
  ASSUME Line, NEW t \in Readers, ReadFaults(t)
  PROVE  Line' /\ TtyStep
<1>1. Ready \in Seq(Glyphs) /\ Len(Ready) \in Nat
  BY Layout
<1>2. Consume(1) /\ UNCHANGED <<w, e, rhr>> /\ Ready # <<>>
  BY DEF ReadFaults, deviceVars
<1>3. 1 \in 0 .. Len(Ready)
  BY <1>1, <1>2
<1> QED
  BY <1>2, <1>3, TakeStep

(* A consoleread() that sleeps has taken everything: a step of Tty. *)
LEMMA ReadSleepsStep ==
  ASSUME Line, NEW t \in Readers, ReadSleeps(t)
  PROVE  Line' /\ TtyStep /\ r' = w
<1>1. Ready \in Seq(Glyphs) /\ Len(Ready) \in Nat
  BY Layout
<1>2. Consume(Len(Ready)) /\ UNCHANGED <<w, e, rhr>> /\ Stops(t) = {}
  BY DEF ReadSleeps, deviceVars
<1>3. \A i \in 1 .. Len(Ready) : Ready[i] \notin {Newline, EndOfFile}
  BY <1>2 DEF Stops
<1>4. PICK k \in 0 .. Len(Ready) : k = Len(Ready)
  BY <1>1
<1>5. /\ \A i \in 1 .. k - 1 : Ready[i] \notin {Newline, EndOfFile}
      /\ k > 1 => Ready[k] # EndOfFile
  BY <1>1, <1>3, <1>4
<1>6. Consume(k)
  BY <1>2, <1>4
<1>7. Line' /\ TtyStep
  BY <1>2, <1>5, <1>6, TakeStep
<1>8. r' = w
  BY <1>2, <1>4, <1>6, ConsumeStep
<1> QED
  BY <1>7, <1>8

(* Head and tail of a queue. *)
LEMMA HeadTail ==
  ASSUME NEW K, NEW q \in Seq(K), q # <<>>
  PROVE  Head(q) \in K /\ Tail(q) \in Seq(K)
  OBVIOUS

(* Backspace and ^U erase from the end of the line being edited: a step of *)
(* Tty.                                                                    *)
LEMMA ErasesStep ==
  ASSUME Line, NEW k \in 0 .. Len(Edit), EraseLast(k), rhr' \in Seq(Keys)
  PROVE  Line' /\ TtyStep
<1>1. Line' /\ Ready' = Ready /\ Edit' = SubSeq(Edit, 1, Len(Edit) - k)
  BY EraseStep
<1>2. Edit \in Seq(Glyphs) /\ Len(Edit) \in Nat /\ Len(Edit) <= B /\ B \in Nat
  BY Layout, Sizes
<1>3. CASE k = 0
  <2>1. SubSeq(Edit, 1, Len(Edit) - 0) = Edit
    BY <1>2
  <2> QED
    BY <1>1, <1>3, <2>1 DEF TtyStep
<1>4. CASE k # 0
  <2>1. k \in 1 .. Len(Edit) /\ k \in 1 .. INPUT_BUF_SIZE
    BY <1>2, <1>4 DEF B
  <2>2. T!Erase(k)
    BY <1>1, <2>1 DEF T!Erase
  <2> QED
    BY <1>1, <2>1, <2>2 DEF TtyStep, T!Next
<1> QED
  BY <1>3, <1>4

(* A character that fits is appended, and ends the line if it is the end   *)
(* of one or fills the buffer: a step of Tty.                              *)
LEMMA StoresStep ==
  ASSUME Line, NEW c \in Keys \ {KillLine, Backspace}, HasRoom, Store(c),
         rhr' \in Seq(Keys)
  PROVE  Line' /\ TtyStep
<1>1. c \in Keys
  OBVIOUS
<1>2. /\ Line' /\ Len(Ready) + Len(Edit) < B
      /\ Commits(c) <=> c \in {Newline, EndOfFile} \/ Len(Ready) + Len(Edit) + 1 = B
      /\ ~Commits(c) => Ready' = Ready /\ Edit' = Append(Edit, c)
      /\ Commits(c) => Ready' = Ready \o Append(Edit, c) /\ Edit' = <<>>
  BY <1>1, StoreStep
<1>3. T!Room
  BY <1>2 DEF T!Room, B
<1>4. CASE Commits(c)
  <2>1. T!EndLine(c)
    BY <1>2, <1>3, <1>4, ZenonT(40) DEF T!EndLine, B
  <2>2. c \in Chars \cup {Newline, EndOfFile}
    BY DEF Keys
  <2> QED
    BY <1>2, <2>1, <2>2 DEF TtyStep, T!Next
<1>5. CASE ~Commits(c)
  <2>1. c \in Chars
    BY <1>2, <1>5 DEF Keys
  <2>2. Len(Ready) + Len(Edit) + 1 < INPUT_BUF_SIZE
    <3>1. Len(Ready) \in Nat /\ Len(Edit) \in Nat /\ B \in Nat
      BY Layout, Sizes
    <3> QED
      BY <1>2, <1>5, <3>1 DEF B
  <2>3. T!Type(c)
    BY <1>2, <1>3, <1>5, <2>2 DEF T!Type
  <2> QED
    BY <1>2, <2>1, <2>3 DEF TtyStep, T!Next
<1> QED
  BY <1>4, <1>5

(* A step that leaves the input buffer alone changes nothing for Tty. *)
LEMMA SameLine ==
  ASSUME Line, UNCHANGED consVars, rhr' \in Seq(Keys)
  PROVE  Line' /\ TtyStep
  BY DEF Line, TtyStep, consVars, Ready, Edit, Between

(* consoleintr() does a step of Tty with each character. *)
LEMMA ConsoleintrStep ==
  ASSUME Line, Consoleintr
  PROVE  Line' /\ TtyStep
<1>1. uartgetc \in Keys /\ rhr' \in Seq(Keys)
  BY HeadTail DEF Line, Consoleintr, uartgetc
<1>2. PICK c \in Keys : c = uartgetc
  BY <1>1
<1>3. CASE c = KillLine
  <2>1. EraseLast(Killed)
    BY <1>2, <1>3, ConsoleAssumption DEF Consoleintr
  <2> QED
    BY <1>1, <2>1, KilledType, ErasesStep
<1>4. CASE c = Backspace /\ e # w
  <2>1. EraseLast(1)
    BY <1>2, <1>4, ConsoleAssumption DEF Consoleintr
  <2>2. 1 \in 0 .. Len(Edit)
    <3>1. Len(Edit) \in Nat /\ Len(Edit) = Minus(e, w)
      BY Layout
    <3>2. Minus(e, w) # 0
      <4>1. w \in Idx /\ e \in Idx /\ U \in Nat \ {0}
        BY Sizes DEF Line
      <4>2. CASE e > w
        <5>1. e - w \in 0 .. U - 1
          BY <4>1, <4>2 DEF Idx, U
        <5>2. (e - w) % U = e - w
          BY <4>1, <5>1, SmallMod
        <5> QED
          BY <4>1, <4>2, <5>2 DEF Minus, U, Idx
      <4>3. CASE e < w
        <5>1. e - w + U \in 0 .. U - 1 /\ e - w \in Int /\ e - w = U * (-1) + (e - w + U)
          BY <4>1, <4>3 DEF Idx, U
        <5>2. (e - w) % U = e - w + U
          BY <4>1, <5>1, ModUnique
        <5> QED
          BY <4>1, <4>3, <5>2 DEF Minus, U, Idx
      <4> QED
        BY <1>4, <4>1, <4>2, <4>3 DEF Idx
    <3> QED
      BY <3>1, <3>2
  <2> QED
    BY <1>1, <2>1, <2>2, ErasesStep
<1>5. CASE c \notin {KillLine, Backspace} /\ HasRoom
  <2>1. Store(c)
    BY <1>2, <1>5 DEF Consoleintr
  <2>2. c \in Keys \ {KillLine, Backspace}
    BY <1>5
  <2> QED
    BY <1>1, <1>5, <2>1, <2>2, StoresStep
<1>6. CASE /\ c # KillLine /\ ~(c = Backspace /\ e # w)
           /\ ~(c \notin {KillLine, Backspace} /\ HasRoom)
  <2>1. UNCHANGED <<consVars, pc, echo>>
    BY <1>2, <1>6 DEF Consoleintr
  <2>2. UNCHANGED consVars
    BY <2>1
  <2> QED
    BY <1>1, <2>2, SameLine
<1> QED
  BY <1>3, <1>4, <1>5, <1>6

(* Every step keeps the indices sound and is one that Tty allows. *)
LEMMA LineNext ==
  ASSUME Line, [Next]_vars
  PROVE  Line' /\ TtyStep
<1>1. ASSUME UNCHANGED consVars, UNCHANGED rhr
      PROVE  Line' /\ TtyStep
  <2>1. rhr' \in Seq(Keys)
    BY <1>1 DEF Line
  <2> QED
    BY <1>1, <2>1, SameLine
<1>2. ASSUME NEW t \in Readers, NEW len \in 1 .. MaxRead, ReadCall(t, len)
      PROVE  Line' /\ TtyStep
  BY <1>1, <1>2 DEF ReadCall, deviceVars
<1>3. ASSUME NEW t \in Writers, \/ WriteCall(t) \/ WriteReturns(t)
                                \/ \E c \in Chars : Uartputc(t, c)
      PROVE  Line' /\ TtyStep
  BY <1>1, <1>3 DEF WriteCall, WriteReturns, Uartputc, deviceVars
<1>4. ASSUME NEW a \in Writers \cup {intr}, Uartstart(a) \/ WriteThr(a)
      PROVE  Line' /\ TtyStep
  BY <1>1, <1>4 DEF Uartstart, WriteThr, deviceVars
<1>5. ASSUME IntrEnter \/ EchoPoll \/ EchoWrite \/ IntrOutput \/ DevSend
      PROVE  Line' /\ TtyStep
  BY <1>1, <1>5 DEF IntrEnter, EchoPoll, EchoWrite, IntrOutput, DevSend, deviceVars
<1>6. ASSUME NEW c \in Keys, DevReceive(c)
      PROVE  Line' /\ TtyStep
  <2>1. rhr' \in Seq(Keys)
    BY <1>6 DEF Line, DevReceive
  <2> QED
    BY <1>6, <2>1, SameLine DEF DevReceive
<1>7. ASSUME NEW t \in Threads, Kill(t)
      PROVE  Line' /\ TtyStep
  BY <1>1, <1>7 DEF Kill, deviceVars
<1>8. ASSUME UNCHANGED vars
      PROVE  Line' /\ TtyStep
  BY <1>1, <1>8 DEF vars, consVars, deviceVars
<1> QED
  BY <1>2, <1>3, <1>4, <1>5, <1>6, <1>7, <1>8, ReadLineStep, ReadFaultsStep,
     ReadSleepsStep, ConsoleintrStep DEF Next, Handler

(* At the start there is no line. *)
LEMMA LineInit ==
  ASSUME Init
  PROVE  Line /\ Ready = <<>> /\ Edit = <<>>
<1>1. U \in Nat \ {0} /\ B \in Nat
  BY Sizes
<1>2. 0 \in Idx /\ Minus(0, 0) = 0
  BY <1>1, SmallMod DEF Idx, U, Minus
<1>3. Line
  BY <1>1, <1>2 DEF Init, Line, Rings, Glyphs, B
<1>4. Ready = <<>> /\ Edit = <<>>
  BY <1>2 DEF Init, Ready, Edit, Between
<1> QED
  BY <1>3, <1>4

(* Whatever is typed, read and echoed, and however the indices wrap        *)
(* around, the console does what Tty promises.                             *)
THEOREM LinesKept == Spec => LineDiscipline
<1>1. Init => Line /\ T!Init
  BY LineInit DEF T!Init
<1>2. Line /\ [Next]_vars => Line' /\ [T!Next]_(T!vars)
  <2>1. TtyStep => [T!Next]_(T!vars)
    BY DEF TtyStep, T!vars
  <2> QED
    BY <2>1, LineNext
<1> QED
  BY <1>1, <1>2, PTL DEF Spec, LineDiscipline, T!Spec

-----------------------------------------------------------------------------
(* The transmit buffer *)

Actors == Threads \cup {intr}
Labels == {"user", "read", "read_asleep", "putc", "write_asleep", "uartstart",
           "thr", "uartgetc", "echo", "echo_thr"}

Sending(a) == pc[a] \in {"uartstart", "thr"}

Port ==
  /\ pc \in [Actors -> Labels]
  /\ tx \in Seq(Chars) /\ Len(tx) <= UART_TX_BUF_SIZE
  /\ \A a \in Actors : Sending(a) <=> txlock = a
  /\ \A a \in Actors : pc[a] = "thr" => tx # <<>>

Awaited == \A t \in Readers : pc[t] = "read_asleep" => r = w

Quiet == Labels \ {"uartstart", "thr"}

(* Nobody starts or stops sending. *)
LEMMA PortSame ==
  ASSUME Port, pc' \in [Actors -> Labels], UNCHANGED uartVars,
         \A a \in Actors : pc'[a] # pc[a] => ~Sending(a) /\ pc'[a] \in Quiet
  PROVE  Port' /\ tx' = tx
<1>1. tx' = tx /\ txlock' = txlock
  BY DEF uartVars
<1>2. ASSUME NEW a \in Actors
      PROVE  (Sending(a)' <=> Sending(a)) /\ (pc'[a] = "thr" => pc[a] = "thr")
  BY DEF Sending, Quiet
<1> QED
  BY <1>1, <1>2 DEF Port

(* An actor that is not sending, and does not begin to, leaves the queue   *)
(* alone.                                                                  *)
LEMMA PortMove ==
  ASSUME Port, NEW a \in Actors, NEW l \in Quiet, ~Sending(a), Goto(a, l),
         UNCHANGED uartVars
  PROVE  Port' /\ tx' = tx
<1>1. pc' \in [Actors -> Labels] /\ l \in Labels
  BY DEF Goto, Port, Quiet
<1>2. \A d \in Actors : pc'[d] # pc[d] => ~Sending(d) /\ pc'[d] \in Quiet
  BY DEF Goto, Port
<1> QED
  BY <1>1, <1>2, PortSame

(* consoleread() leaves the queue alone. *)
LEMMA PortRead ==
  ASSUME Port, NEW t \in Readers, \/ \E len \in 1 .. MaxRead : ReadCall(t, len)
                                  \/ ReadLine(t) \/ ReadFaults(t) \/ ReadSleeps(t)
  PROVE  Port' /\ tx' = tx
<1>1. t \in Actors /\ UNCHANGED uartVars
  BY DEF Actors, Threads, ReadCall, ReadLine, ReadFaults, ReadSleeps
<1>2. pc[t] \in {"user", "read"}
  BY DEF ReadCall, ReadLine, ReadFaults, ReadSleeps
<1>3. ~Sending(t)
  BY <1>2, ZenonT(40) DEF Sending
<1>4. PICK l \in {"user", "read", "read_asleep"} : Goto(t, l)
  BY DEF ReadCall, ReadLine, ReadFaults, ReadSleeps, ReadReturns
<1>5. l \in Quiet
  BY <1>4 DEF Quiet, Labels
<1> QED
  BY <1>1, <1>3, <1>4, <1>5, PortMove, ZenonT(40)

(* uartputc() appends a character when there is room, or sleeps. *)
LEMMA PortPutc ==
  ASSUME Port, NEW t \in Writers, NEW c \in Chars, Uartputc(t, c)
  PROVE  Port' /\ (F!Next \/ tx' = tx)
<1>1. t \in Actors /\ ~Sending(t)
  BY DEF Actors, Threads, Sending, Uartputc
<1>2. CASE TxFull
  <2>1. Goto(t, "write_asleep") /\ UNCHANGED uartVars
    BY <1>2 DEF Uartputc
  <2>2. "write_asleep" \in Quiet
    BY DEF Quiet, Labels
  <2> QED
    BY <1>1, <2>1, <2>2, PortMove
<1>3. CASE ~TxFull
  <2>1. tx' = Append(tx, c) /\ txlock' = t /\ pc' = [pc EXCEPT ![t] = "uartstart"]
    BY <1>3 DEF Uartputc, Goto
  <2>2. Len(tx) < UART_TX_BUF_SIZE
    BY <1>3, ConsoleAssumption DEF TxFull, Port
  <2>3. tx' \in Seq(Chars) /\ Len(tx') <= UART_TX_BUF_SIZE /\ tx' # <<>>
    <3>1. tx \in Seq(Chars) /\ UART_TX_BUF_SIZE \in Nat
      BY ConsoleAssumption DEF Port
    <3> QED
      BY <2>1, <2>2, <3>1
  <2>4. pc' \in [Actors -> Labels]
    BY <2>1, ZenonT(40) DEF Port, Labels
  <2>5. ASSUME NEW a \in Actors PROVE Sending(a)' <=> txlock' = a
    <3>1. ~Sending(a)
      <4>1. txlock # a
        BY ConsoleAssumption DEF Uartputc, Actors
      <4> QED
        BY <4>1 DEF Port
    <3>2. CASE a = t
      BY <1>1, <2>1, <3>2 DEF Port, Sending
    <3>3. CASE a # t
      BY <1>1, <2>1, <3>1, <3>3 DEF Port, Sending
    <3> QED
      BY <3>2, <3>3
  <2>6. Port'
    BY <2>3, <2>4, <2>5 DEF Port
  <2>7. F!Put(c)
    BY <2>1, <2>2 DEF F!Put
  <2> QED
    BY <2>6, <2>7 DEF F!Next
<1> QED
  BY <1>2, <1>3

(* uartstart() does not change the queue before it writes the register. *)
LEMMA PortStart ==
  ASSUME Port, NEW a \in Writers \cup {intr}, Uartstart(a)
  PROVE  Port' /\ tx' = tx
<1>1. a \in Actors /\ Sending(a) /\ txlock = a /\ tx' = tx
  BY DEF Actors, Threads, Sending, Uartstart, Port
<1>2. CASE tx = <<>> \/ ~TxIdle
  <2>1. PICK l \in {"user", "putc"} : pc' = [pc EXCEPT ![a] = l]
    BY <1>2 DEF Uartstart, Goto
  <2>2. txlock' = NoOne
    BY <1>2 DEF Uartstart
  <2>3. pc' \in [Actors -> Labels]
    BY <2>1, ZenonT(40) DEF Port, Labels
  <2>4. ASSUME NEW d \in Actors
        PROVE  (Sending(d)' <=> txlock' = d) /\ (pc'[d] = "thr" => tx' # <<>>)
    <3>1. NoOne # d
      BY ConsoleAssumption DEF Actors
    <3>2. ~Sending(d)'
      BY <1>1, <2>1 DEF Port, Sending
    <3> QED
      BY <2>2, <3>1, <3>2 DEF Sending
  <2> QED
    BY <1>1, <2>3, <2>4 DEF Port
<1>3. CASE ~(tx = <<>> \/ ~TxIdle)
  <2>1. pc' = [WakeWriters EXCEPT ![a] = "thr"] /\ txlock' = txlock
    BY <1>3 DEF Uartstart
  <2>2. WakeWriters \in [Actors -> Labels]
    BY DEF WakeWriters, Port, Labels
  <2>3. pc' \in [Actors -> Labels] /\ pc'[a] = "thr"
    BY <1>1, <2>1, <2>2 DEF Labels
  <2>4. ASSUME NEW d \in Actors, d # a PROVE ~Sending(d)'
    <3>1. ~Sending(d)
      BY <1>1, <2>4 DEF Port
    <3>2. pc'[d] = WakeWriters[d]
      BY <2>1, <2>2, <2>4
    <3>3. WakeWriters[d] \in {"putc", pc[d]}
      BY DEF WakeWriters, Port
    <3> QED
      BY <3>1, <3>2, <3>3 DEF Sending
  <2>5. Sending(a)'
    BY <2>3 DEF Sending
  <2> QED
    BY <1>1, <1>3, <2>1, <2>3, <2>4, <2>5 DEF Port
<1> QED
  BY <1>2, <1>3

(* Writing the transmit register takes the first character off the queue. *)
LEMMA PortThr ==
  ASSUME Port, NEW a \in Writers \cup {intr}, WriteThr(a)
  PROVE  Port' /\ F!Next
<1>1. a \in Actors /\ Sending(a) /\ txlock = a /\ tx # <<>> /\ tx' = Tail(tx)
  BY DEF Actors, Threads, Sending, WriteThr, Port
<1>2. pc' = [pc EXCEPT ![a] = "uartstart"] /\ txlock' = txlock
  BY DEF WriteThr, Goto
<1>3. tx' \in Seq(Chars) /\ Len(tx') <= UART_TX_BUF_SIZE
  <2>1. tx \in Seq(Chars) /\ Len(tx) <= UART_TX_BUF_SIZE /\ UART_TX_BUF_SIZE \in Nat
    BY ConsoleAssumption DEF Port
  <2> QED
    BY <1>1, <2>1
<1>4. pc' \in [Actors -> Labels] /\ pc'[a] = "uartstart"
  BY <1>1, <1>2 DEF Port, Labels
<1>5. ASSUME NEW d \in Actors, d # a PROVE ~Sending(d)'
  BY <1>1, <1>2, <1>5, ZenonT(40) DEF Port, Sending
<1>6. Port'
  BY <1>1, <1>2, <1>3, <1>4, <1>5 DEF Port, Sending
<1>7. F!Get
  BY <1>1 DEF F!Get
<1> QED
  BY <1>6, <1>7 DEF F!Next

(* consoleintr() leaves the queue alone and puts no reader to sleep. *)
LEMMA PortKeys ==
  ASSUME Port, Consoleintr
  PROVE  /\ Port' /\ tx' = tx
         /\ \A t \in Readers : pc'[t] = "read_asleep" => pc[t] = "read_asleep"
<1>1. intr \in Actors /\ ~Sending(intr) /\ UNCHANGED uartVars
  BY DEF Actors, Sending, Consoleintr
<1>2. WakeReaders \in [Actors -> Labels]
  BY DEF WakeReaders, Port, Labels
<1>3. \A a \in Actors : WakeReaders[a] = pc[a]
                          \/ (pc[a] = "read_asleep" /\ WakeReaders[a] = "read")
  BY DEF WakeReaders, Port
<1>4. ASSUME NEW f \in {pc, WakeReaders}, pc' = [f EXCEPT ![intr] = "echo"]
      PROVE  /\ Port' /\ tx' = tx
             /\ \A t \in Readers : pc'[t] = "read_asleep" => pc[t] = "read_asleep"
  <2>1. pc' \in [Actors -> Labels]
    BY <1>2, <1>4, ZenonT(40) DEF Port, Labels
  <2>2. ASSUME NEW a \in Actors
        PROVE  \/ pc'[a] = pc[a]
               \/ a = intr /\ pc'[a] = "echo"
               \/ pc[a] = "read_asleep" /\ pc'[a] = "read"
    BY <1>2, <1>3, <1>4 DEF Port
  <2>3. \A a \in Actors : pc'[a] # pc[a] => ~Sending(a) /\ pc'[a] \in Quiet
    BY <1>1, <2>2 DEF Sending, Quiet, Labels
  <2>4. Port' /\ tx' = tx
    BY <1>1, <2>1, <2>3, PortSame
  <2>5. \A t \in Readers : pc'[t] = "read_asleep" => pc[t] = "read_asleep"
    BY <2>2 DEF Actors, Threads
  <2> QED
    BY <2>4, <2>5
<1>5. PICK c : c = uartgetc
  OBVIOUS
<1>6. ASSUME NEW k, EraseLast(k)
      PROVE  pc' = [pc EXCEPT ![intr] = "echo"]
  BY <1>6, ZenonT(40) DEF EraseLast
<1>7. ASSUME Store(c)
      PROVE  \E f \in {pc, WakeReaders} : pc' = [f EXCEPT ![intr] = "echo"]
  BY <1>7 DEF Store
<1>8. \/ \E k : EraseLast(k)
      \/ Store(c)
      \/ UNCHANGED <<consVars, pc, echo>>
  <2>1. CASE c = KillLine
    BY <1>5, <2>1, ConsoleAssumption DEF Consoleintr
  <2>2. CASE c = Backspace /\ e # w
    BY <1>5, <2>2, ConsoleAssumption DEF Consoleintr
  <2>3. CASE c \notin {KillLine, Backspace} /\ HasRoom
    BY <1>5, <2>3 DEF Consoleintr
  <2>4. CASE /\ c # KillLine /\ ~(c = Backspace /\ e # w)
             /\ ~(c \notin {KillLine, Backspace} /\ HasRoom)
    BY <1>5, <2>4 DEF Consoleintr
  <2> QED
    BY <2>1, <2>2, <2>3, <2>4
<1>9. CASE UNCHANGED pc
  BY <1>1, <1>9, PortSame DEF Port
<1> QED
  BY <1>4, <1>6, <1>7, <1>8, <1>9

(* The echo of a character goes past the queue. *)
LEMMA PortHandler ==
  ASSUME Port, IntrEnter \/ EchoPoll \/ EchoWrite
  PROVE  Port' /\ tx' = tx
<1>1. intr \in Actors /\ ~Sending(intr) /\ UNCHANGED uartVars
  BY DEF Actors, Sending, IntrEnter, EchoPoll, EchoWrite
<1>2. PICK l \in {"uartgetc", "echo", "echo_thr"} : Goto(intr, l)
  BY DEF IntrEnter, EchoPoll, EchoWrite
<1>3. l \in Quiet
  BY <1>2 DEF Quiet, Labels
<1> QED
  BY <1>1, <1>2, <1>3, PortMove

(* uartintr() goes on to uartstart() and leaves the queue alone. *)
LEMMA PortOutput ==
  ASSUME Port, IntrOutput
  PROVE  Port' /\ tx' = tx
<1>1. /\ tx' = tx /\ txlock = NoOne /\ txlock' = intr
      /\ pc' = [pc EXCEPT ![intr] = "uartstart"] /\ intr \in Actors
  BY DEF IntrOutput, AfterInput, Goto, Actors
<1>2. pc' \in [Actors -> Labels]
  BY <1>1 DEF Port, Labels
<1>3. ASSUME NEW a \in Actors
      PROVE  (Sending(a)' <=> txlock' = a) /\ (pc'[a] = "thr" => tx' # <<>>)
  <2>1. ~Sending(a)
    <3>1. txlock # a
      BY <1>1, ConsoleAssumption DEF Actors
    <3> QED
      BY <3>1 DEF Port
  <2>2. CASE a = intr
    BY <1>1, <2>2 DEF Port, Sending
  <2>3. CASE a # intr
    BY <1>1, <2>1, <2>3 DEF Port, Sending
  <2> QED
    BY <2>2, <2>3
<1> QED
  BY <1>1, <1>2, <1>3 DEF Port

(* kill() leaves the queue alone and puts no reader to sleep. *)
LEMMA PortKill ==
  ASSUME Port, NEW t \in Threads, Kill(t)
  PROVE  /\ Port' /\ tx' = tx
         /\ \A d \in Readers : pc'[d] = "read_asleep" => pc[d] = "read_asleep"
<1>1. t \in Actors /\ UNCHANGED uartVars
  BY DEF Actors, Kill
<1>2. PICK l : /\ pc' = [pc EXCEPT ![t] = l]
               /\ \/ pc[t] = "read_asleep" /\ l = "read"
                  \/ pc[t] = "write_asleep" /\ l = "putc"
                  \/ l = pc[t] /\ l # "read_asleep"
  BY ZenonT(40) DEF Kill, Goto
<1>3. pc' \in [Actors -> Labels]
  BY <1>1, <1>2 DEF Port, Labels
<1>4. \A a \in Actors : pc'[a] # pc[a] => ~Sending(a) /\ pc'[a] \in Quiet
  BY <1>1, <1>2 DEF Port, Sending, Quiet, Labels
<1>5. \A d \in Readers : pc'[d] = "read_asleep" => pc[d] = "read_asleep"
  BY <1>1, <1>2 DEF Port, Actors, Threads
<1> QED
  BY <1>1, <1>3, <1>4, <1>5, PortSame

(* Every step keeps Port, and is a step of Fifo or leaves the queue alone. *)
LEMMA PortNext ==
  ASSUME Port, [Next]_vars
  PROVE  Port' /\ (F!Next \/ tx' = tx)
<1>1. ASSUME UNCHANGED <<uartVars, pc>>
      PROVE  Port' /\ tx' = tx
  BY <1>1, PortSame DEF Port
<1>2. ASSUME NEW t \in Writers, WriteCall(t) \/ WriteReturns(t)
      PROVE  Port' /\ tx' = tx
  <2>1. t \in Actors /\ ~Sending(t) /\ UNCHANGED uartVars
    BY <1>2 DEF Actors, Threads, Sending, WriteCall, WriteReturns
  <2>2. PICK l \in {"user", "putc"} : Goto(t, l)
    BY <1>2 DEF WriteCall, WriteReturns
  <2>3. l \in Quiet
    BY <2>2 DEF Quiet, Labels
  <2> QED
    BY <2>1, <2>2, <2>3, PortMove
<1>3. ASSUME DevSend \/ \E c \in Keys : DevReceive(c)
      PROVE  Port' /\ tx' = tx
  BY <1>1, <1>3 DEF DevSend, DevReceive
<1>4. ASSUME UNCHANGED vars
      PROVE  Port' /\ tx' = tx
  BY <1>1, <1>4 DEF vars
<1> QED
  BY <1>2, <1>3, <1>4, PortRead, PortPutc, PortStart, PortThr, PortKeys,
     PortHandler, PortOutput, PortKill, ZenonT(40)
     DEF Next, Handler

(* At the start nobody is sending and nobody sleeps. *)
LEMMA PortInit ==
  ASSUME Init
  PROVE  Port /\ Awaited /\ tx = <<>>
<1>1. pc \in [Actors -> Labels] /\ \A a \in Actors : pc[a] = "user"
  BY DEF Init, Actors, Labels
<1>2. tx = <<>> /\ txlock = NoOne /\ \A a \in Actors : NoOne # a
  BY ConsoleAssumption DEF Init, Actors
<1>3. tx \in Seq(Chars) /\ Len(tx) <= UART_TX_BUF_SIZE
  BY <1>2, ConsoleAssumption
<1> QED
  BY <1>1, <1>2, <1>3 DEF Port, Awaited, Sending, Actors, Threads

(* The bytes that consolewrite() hands over leave uart_tx_buf in order,    *)
(* none lost and none twice, whether uartputc() or uartintr() sends them.  *)
THEOREM BytesInOrder == Spec => TxIsFifo
<1>1. Init => Port /\ F!Init
  BY PortInit DEF F!Init
<1>2. Port /\ [Next]_vars => Port' /\ [F!Next]_(F!vars)
  <2>1. F!Next \/ tx' = tx => [F!Next]_(F!vars)
    BY DEF F!vars
  <2> QED
    BY <2>1, PortNext
<1> QED
  BY <1>1, <1>2, PTL DEF Spec, TxIsFifo, F!Spec

-----------------------------------------------------------------------------
(* Sleeping readers *)

(* A reader that takes characters finds nobody asleep: a reader sleeps     *)
(* only when the others have nothing to take either.                       *)
LEMMA NobodyAsleep ==
  ASSUME Line, Awaited, Ready # <<>>
  PROVE  \A t \in Readers : pc[t] # "read_asleep"
<1>1. r # w
  <2>1. ASSUME r = w PROVE FALSE
    <3>1. Len(Ready) = Minus(w, r) /\ Ready \in Seq(Glyphs)
      BY Layout
    <3>2. r \in Int /\ U \in Nat \ {0}
      BY Sizes DEF Line, Idx, U
    <3>3. Minus(w, r) = 0
      BY <2>1, <3>2, SmallMod DEF Minus, U
    <3> QED
      BY <3>1, <3>3
  <2> QED
    BY <2>1
<1> QED
  BY <1>1 DEF Awaited

(* Every step keeps Awaited: w moves only with a wakeup of all readers,    *)
(* and r only to w before a reader sleeps.                                 *)
LEMMA AwaitedNext ==
  ASSUME Line, Port, Awaited, [Next]_vars
  PROVE  Awaited'
<1>1. ASSUME UNCHANGED <<r, w>>,
             \A t \in Readers : pc'[t] = "read_asleep" => pc[t] = "read_asleep"
      PROVE  Awaited'
  BY <1>1 DEF Awaited
<1>2. ASSUME NEW a \in Actors, NEW l, Goto(a, l), l # "read_asleep"
      PROVE  \A t \in Readers : pc'[t] = "read_asleep" => pc[t] = "read_asleep"
  BY <1>2, ZenonT(40) DEF Goto, Port, Actors, Threads
<1>3. ASSUME NEW t \in Readers, NEW len \in 1 .. MaxRead, ReadCall(t, len)
      PROVE  Awaited'
  <2>1. t \in Actors /\ Goto(t, "read") /\ UNCHANGED <<r, w>>
    BY <1>3 DEF ReadCall, consVars, Actors, Threads
  <2> QED
    BY <1>1, <1>2, <2>1
<1>4. ASSUME NEW t \in Readers, ReadLine(t) \/ ReadFaults(t)
      PROVE  Awaited'
  <2>1. Ready # <<>>
    BY <1>4 DEF ReadLine, ReadFaults, Stops
  <2>2. t \in Actors /\ Goto(t, "user")
    BY <1>4, ZenonT(40) DEF ReadLine, ReadFaults, ReadReturns, Actors, Threads
  <2>3. \A d \in Readers : pc'[d] # "read_asleep"
    BY <1>2, <2>1, <2>2, NobodyAsleep, ZenonT(40)
  <2> QED
    BY <2>3, ZenonT(40) DEF Awaited
<1>5. ASSUME NEW t \in Readers, ReadSleeps(t)
      PROVE  Awaited'
  <2>1. r' = w /\ w' = w
    BY <1>5, ReadSleepsStep DEF ReadSleeps
  <2> QED
    BY <2>1 DEF Awaited
<1>6. ASSUME NEW t \in Writers, WriteCall(t) \/ WriteReturns(t)
                                \/ \E c \in Chars : Uartputc(t, c)
      PROVE  Awaited'
  <2>1. t \in Actors /\ UNCHANGED <<r, w>>
    BY <1>6 DEF WriteCall, WriteReturns, Uartputc, consVars, Actors, Threads
  <2>2. PICK l \in {"user", "putc", "write_asleep", "uartstart"} : Goto(t, l)
    BY <1>6 DEF WriteCall, WriteReturns, Uartputc
  <2> QED
    BY <1>1, <1>2, <2>1, <2>2, ZenonT(40)
<1>7. ASSUME NEW a \in Writers \cup {intr}, Uartstart(a)
      PROVE  Awaited'
  <2>1. a \in Actors /\ UNCHANGED <<r, w>>
    BY <1>7, ZenonT(40) DEF Uartstart, consVars, Actors, Threads
  <2>2. CASE tx = <<>> \/ ~TxIdle
    <3>1. PICK l \in {"user", "putc"} : Goto(a, l)
      BY <1>7, <2>2 DEF Uartstart
    <3> QED
      BY <1>1, <1>2, <2>1, <3>1
  <2>3. CASE ~(tx = <<>> \/ ~TxIdle)
    <3>1. pc' = [WakeWriters EXCEPT ![a] = "thr"]
      BY <1>7, <2>3 DEF Uartstart
    <3>2. \A t \in Readers : pc'[t] = "read_asleep" => pc[t] = "read_asleep"
      BY <3>1 DEF WakeWriters, Port, Actors, Threads
    <3> QED
      BY <1>1, <2>1, <3>2
  <2> QED
    BY <2>2, <2>3
<1>8. ASSUME NEW a \in Writers \cup {intr}, WriteThr(a)
      PROVE  Awaited'
  <2>1. a \in Actors /\ UNCHANGED <<r, w>> /\ Goto(a, "uartstart")
    BY <1>8 DEF WriteThr, consVars, Actors, Threads
  <2> QED
    BY <1>1, <1>2, <2>1
<1>9. ASSUME IntrEnter \/ EchoPoll \/ EchoWrite \/ IntrOutput
      PROVE  Awaited'
  <2>1. intr \in Actors /\ UNCHANGED <<r, w>>
    BY <1>9 DEF IntrEnter, EchoPoll, EchoWrite, IntrOutput, consVars, Actors
  <2>2. PICK l \in {"uartgetc", "echo", "echo_thr", "uartstart"} : Goto(intr, l)
    BY <1>9, ZenonT(40)
       DEF IntrEnter, EchoPoll, EchoWrite, IntrOutput, AfterInput
  <2> QED
    BY <1>1, <1>2, <2>1, <2>2, ZenonT(40)
<1>10. ASSUME DevSend \/ (\E c \in Keys : DevReceive(c)) \/ UNCHANGED vars
       PROVE  Awaited'
  BY <1>1, <1>10, ZenonT(40) DEF DevSend, DevReceive, vars, consVars
<1>11. ASSUME NEW t \in Threads, Kill(t)
       PROVE  Awaited'
  <2>1. UNCHANGED <<r, w>>
    BY <1>11 DEF Kill, consVars
  <2> QED
    BY <1>1, <1>11, <2>1, PortKill

<1>12. ASSUME Consoleintr
       PROVE  Awaited'
  <2>1. \A t \in Readers : pc'[t] = "read_asleep" => pc[t] = "read_asleep"
    BY <1>12, PortKeys
  <2>2. PICK c : c = uartgetc
    OBVIOUS
  <2>3. CASE UNCHANGED <<r, w>>
    BY <1>1, <2>1, <2>3, ZenonT(40)
  <2>4. CASE Store(c) /\ Commits(c)
    <3>1. pc' = [WakeReaders EXCEPT ![intr] = "echo"]
      BY <2>4 DEF Store
    <3>2. \A t \in Readers : pc'[t] # "read_asleep"
      BY <3>1 DEF WakeReaders, Port, Actors, Threads
    <3> QED
      BY <3>2 DEF Awaited
  <2>5. CASE Store(c) /\ ~Commits(c)
    BY <2>3, <2>5 DEF Store
  <2>6. \/ UNCHANGED <<r, w>>
        \/ Store(c)
    <3>1. CASE c = KillLine
      BY <1>12, <2>2, <3>1, ConsoleAssumption DEF Consoleintr, EraseLast
    <3>2. CASE c = Backspace /\ e # w
      BY <1>12, <2>2, <3>2, ConsoleAssumption DEF Consoleintr, EraseLast
    <3>3. CASE c \notin {KillLine, Backspace} /\ HasRoom
      BY <1>12, <2>2, <3>3 DEF Consoleintr
    <3>4. CASE /\ c # KillLine /\ ~(c = Backspace /\ e # w)
               /\ ~(c \notin {KillLine, Backspace} /\ HasRoom)
      BY <1>12, <2>2, <3>4 DEF Consoleintr, consVars
    <3> QED
      BY <3>1, <3>2, <3>3, <3>4
  <2> QED
    BY <2>3, <2>4, <2>5, <2>6, ZenonT(40)
<1> QED
  BY <1>3, <1>4, <1>5, <1>6, <1>7, <1>8, <1>9, <1>10, <1>11, <1>12, ZenonT(40)
     DEF Next, Handler

(* A reader in consoleread() sleeps only while cons.r = cons.w: whoever    *)
(* ends a line wakes all readers, and no reader leaves another asleep with *)
(* characters to read.                                                     *)
THEOREM ReadersAwaited == Spec => []ReaderAwaited
<1> DEFINE Inv == Line /\ Port /\ Awaited
<1>1. Init => Inv
  BY LineInit, PortInit
<1>2. Inv /\ [Next]_vars => Inv'
  BY LineNext, PortNext, AwaitedNext
<1>3. Inv => ReaderAwaited
  BY DEF Awaited, ReaderAwaited
<1> QED
  BY <1>1, <1>2, <1>3, PTL DEF Spec
=============================================================================
