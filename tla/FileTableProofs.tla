-------------------------- MODULE FileTableProofs ---------------------------
(* What the table of open files promises, for any number of processes,      *)
(* files, descriptors, pipes and inodes: the inductive invariant of          *)
(* FileTable, the steps that keep it, and the theorems that follow.          *)
EXTENDS FileTable, FiniteSetTheorems, TLAPS

Contents == {None} \cup {Inode(i, w) : i \in Inums, w \in BOOLEAN}
              \cup {End(q, w) : q \in Pipes, w \in BOOLEAN}
Pcs == {"unused", "embryo", "user", "open", "iput", "fileclose", "letgo", "pipe",
        "fork", "exit"}

Types ==
  /\ ref \in [Files -> Nat] /\ file \in [Files -> Contents]
  /\ ofile \in [FdPlaces -> FilePtr]
  /\ pipe \in [Pipes -> [readopen : BOOLEAN, writeopen : BOOLEAN]]
  /\ iref \in [Inums -> Nat]
  /\ panic = "no"
  /\ pc \in [Procs -> Pcs] /\ ret \in [Procs -> {"user", "iput", "exit"}]
  /\ tmp \in [Slots -> FilePtr]
  /\ ff \in [Procs -> Contents] /\ ip \in [Procs -> Inums \cup {0}]
  /\ child \in [Procs -> Procs] /\ fd \in [Procs -> 0 .. NOFILE]

(* How many places of A hold v. *)
Count(A, g, v) == Cardinality({a \in A : g[a] = v})

(* f->ref is the number of descriptors and locals that name the file. *)
Counted ==
  \A f \in Files : ref[f] = Count(FdPlaces, ofile, f) + Count(Slots, tmp, f)

(* The files fl and the copies cp of fileclose() that stand for v. *)
Owners(fl, cp, v) == Count(Files, fl, v) + Count(Procs, cp, v)

(* An end of a pipe has one owner while it is open and none afterwards. *)
Ends ==
  \A q \in Pipes, w \in BOOLEAN :
    Owners(file, ff, End(q, w)) = IF EndIsOpen(q, w) THEN 1 ELSE 0

(* An inode has a reference for every owner and for every call of open(). *)
Inodes ==
  \A i \in Inums :
    iref[i] = Count(Procs, ip, i)
              + Owners(file, ff, Inode(i, TRUE)) + Owners(file, ff, Inode(i, FALSE))

(* An entry without references stands for nothing. *)
FreeAreNone == \A f \in Files : ref[f] = 0 => file[f] = None

(* The first file of pipealloc() is not set up yet and has no other name. *)
Fresh(p) ==
  LET f == tmp[<<p, 0>>]
  IN  /\ f \in Files /\ file[f] = None
      /\ tmp[<<p, 1>>] = NoFile /\ ret[p] = "user"
      /\ \A s \in FdPlaces : ofile[s] # f
      /\ \A s \in Slots : tmp[s] = f => s = <<p, 0>>

(* The locals of a process in use are those of the call it is in. *)
InCall(p) ==
  /\ pc[p] \notin {"fileclose", "letgo", "pipe"} => \A k \in {0, 1} : tmp[<<p, k>>] = NoFile
  /\ ff[p] # None => pc[p] = "letgo"
  /\ ip[p] # 0 <=> \/ pc[p] \in {"open", "iput"}
                   \/ pc[p] \in {"fileclose", "letgo"} /\ ret[p] = "iput"

(* The descriptors at which the loops of fork() and exit() have not been,  *)
(* or have been, are free.                                                 *)
Unused(p) == pc[p] = "unused" => \A d \in Fds : ofile[<<p, d>>] = NoFile
Forking(p) ==
  pc[p] = "fork" =>
    /\ pc[child[p]] = "embryo"
    /\ \A q \in Procs : pc[q] = "fork" /\ child[q] = child[p] => q = p
    /\ \A d \in Fds : d >= fd[p] => ofile[<<child[p], d>>] = NoFile
Exiting(p) ==
  pc[p] = "exit" \/ (pc[p] \in {"fileclose", "letgo"} /\ ret[p] = "exit") =>
    \A d \in Fds : d < fd[p] => ofile[<<p, d>>] = NoFile

Calls == \A p \in Procs : /\ pc[p] = "pipe" => Fresh(p)
                          /\ InCall(p)
Loops == \A p \in Procs : Unused(p) /\ Forking(p) /\ Exiting(p)

IInv == Types /\ Counted /\ Ends /\ Inodes /\ FreeAreNone /\ Calls /\ Loops

-----------------------------------------------------------------------------
(* Counting *)

(* A place counts for the value it holds, *)
Unit(x, v) == IF x = v THEN 1 ELSE 0

(* once, and for no other. *)
LEMMA UnitValue == \A x, v : /\ Unit(x, v) \in Nat
                             /\ x = v => Unit(x, v) = 1
                             /\ x # v => Unit(x, v) = 0
BY DEF Unit

(* The places of finitely many are finitely many. *)
LEMMA CountType ==
  ASSUME NEW A, IsFiniteSet(A), NEW g, NEW v
  PROVE  /\ IsFiniteSet({a \in A : g[a] = v})
         /\ Count(A, g, v) \in Nat
<1>1. IsFiniteSet({a \in A : g[a] = v})
  BY FS_Subset, Zenon
<1> QED BY <1>1, FS_CardinalityType DEF Count

(* A value that nobody holds is not counted. *)
LEMMA CountZero ==
  ASSUME NEW A, NEW g, NEW v, \A a \in A : g[a] # v
  PROVE  Count(A, g, v) = 0
<1>1. {a \in A : g[a] = v} = {}
  OBVIOUS
<1> QED BY <1>1, FS_EmptySet DEF Count

(* A value that somebody holds is counted. *)
LEMMA CountSome ==
  ASSUME NEW A, IsFiniteSet(A), NEW g, NEW v, NEW a \in A, g[a] = v
  PROVE  Count(A, g, v) >= 1
<1> DEFINE S == {b \in A : g[b] = v}
<1>1. IsFiniteSet(S) /\ a \in S
  BY CountType
<1>2. Cardinality(S) \in Nat /\ Cardinality(S) # 0
  BY <1>1, FS_CardinalityType, FS_EmptySet
<1> QED BY <1>2 DEF Count

(* The place a gets the value x, and the others keep theirs. *)
Moves(A, g, h, a, x) == \A b \in A : h[b] = IF b = a THEN x ELSE g[b]

(* Then there is one more for x, and one less for what a held. *)
LEMMA CountMove ==
  ASSUME NEW A, IsFiniteSet(A), NEW g, NEW h, NEW a \in A, NEW x, NEW y, NEW v,
         Moves(A, g, h, a, x), g[a] = y
  PROVE  Count(A, h, v) = Count(A, g, v) + Unit(x, v) - Unit(y, v)
<1> DEFINE S == {b \in A : g[b] = v}
           T == {b \in A : h[b] = v}
<1>1. \A b \in A : h[b] = IF b = a THEN x ELSE g[b]
  BY DEF Moves
<1>2. IsFiniteSet(S) /\ IsFiniteSet(T) /\ Cardinality(S) \in Nat /\ Cardinality(T) \in Nat
  <2>1. S \subseteq A /\ T \subseteq A
    OBVIOUS
  <2>2. IsFiniteSet(S) /\ IsFiniteSet(T)
    BY <2>1, FS_Subset
  <2> QED BY <2>2, FS_CardinalityType
<1>3. CASE x = v /\ g[a] # v
  <2>1. T = S \cup {a} /\ a \notin S
    BY <1>1, <1>3
  <2>2. Cardinality(T) = Cardinality(S) + 1
    BY <1>2, <2>1, FS_AddElement
  <2> QED BY <1>2, <1>3, <2>2 DEF Count, Unit
<1>4. CASE x # v /\ g[a] = v
  <2>1. T = S \ {a} /\ a \in S
    BY <1>1, <1>4
  <2>2. Cardinality(T) = Cardinality(S) - 1
    BY <1>2, <2>1, FS_RemoveElement
  <2> QED BY <1>2, <1>4, <2>2 DEF Count, Unit
<1>5. CASE (x = v) <=> (g[a] = v)
  <2>1. T = S
    BY <1>1, <1>5
  <2>2. Unit(x, v) = Unit(y, v) /\ Unit(x, v) \in Nat
    BY ZenonT(40), <1>5, UnitValue
  <2>3. Count(A, h, v) = Count(A, g, v) /\ Count(A, g, v) \in Nat
    BY ZenonT(40), <1>2, <2>1 DEF Count
  <2> QED BY <2>2, <2>3
<1> QED BY <1>3, <1>4, <1>5

(* The tables are finite. *)
LEMMA Finite ==
  /\ IsFiniteSet(Procs) /\ IsFiniteSet(Files)
  /\ IsFiniteSet(FdPlaces) /\ IsFiniteSet(Slots)
<1>1. IsFiniteSet(Files) /\ IsFiniteSet(Fds)
  BY FileTableAssumption, FS_Interval DEF Files, Fds
<1>2. IsFiniteSet({0, 1})
  <2>1. IsFiniteSet({0} \cup {1})
    BY FS_Singleton, FS_AddElement, ZenonT(40)
  <2>2. {0, 1} = {0} \cup {1}
    OBVIOUS
  <2> QED BY <2>1, <2>2
<1> QED BY <1>1, <1>2, FileTableAssumption, FS_Product DEF FdPlaces, Slots

(* The contents of a file tell what it stands for. *)
LEMMA InodeNotEnd == \A i, q, w, u : Inode(i, w) # End(q, u) /\ End(q, u) # Inode(i, w)
BY DEF Inode, End, Content

(* An open file stands for something. *)
LEMMA NotNone == \A x, w : Inode(x, w) # None /\ End(x, w) # None
BY DEF Inode, End, None, Content

(* Files of the same content stand for the same inode, *)
LEMMA SameInode == \A i, j, w, u : Inode(i, w) = Inode(j, u) => i = j /\ w = u
BY DEF Inode, Content

(* or for the same end of the same pipe. *)
LEMMA SameEnd == \A q, r, w, u : End(q, w) = End(r, u) => q = r /\ w = u
BY DEF End, Content

(* What fileclose() reads of its copy. *)
LEMMA Fields ==
  /\ \A x, w : /\ Inode(x, w).type = "inode" /\ Inode(x, w).obj = x
               /\ End(x, w).type = "pipe" /\ End(x, w).obj = x /\ End(x, w).writable = w
  /\ None.type = "none"
BY DEF Inode, End, None, Content

-----------------------------------------------------------------------------
(* f->ref *)

(* The variables that count references are functions on their tables. *)
Tables ==
  /\ ref \in [Files -> Nat] /\ file \in [Files -> Contents]
  /\ ofile \in [FdPlaces -> FilePtr] /\ tmp \in [Slots -> FilePtr]
  /\ ff \in [Procs -> Contents] /\ ip \in [Procs -> Inums \cup {0}]
  /\ iref \in [Inums -> Nat]
  /\ pipe \in [Pipes -> [readopen : BOOLEAN, writeopen : BOOLEAN]]

(* They are part of the types of all variables. *)
LEMMA TypesTables == Types => Tables
BY ZenonT(40) DEF Types, Tables

(* The null pointer names no file. *)
LEMMA NotNull == \A f \in Files : NoFile # f
BY FileTableAssumption

(* A file that a descriptor or a local names is counted. *)
LEMMA Held ==
  ASSUME Types, Counted, NEW f \in Files,
         \/ \E s \in FdPlaces : ofile[s] = f
         \/ \E s \in Slots : tmp[s] = f
  PROVE  ref[f] \in Nat /\ ref[f] >= 1
<1>1. /\ ref[f] = Count(FdPlaces, ofile, f) + Count(Slots, tmp, f)
      /\ Count(FdPlaces, ofile, f) \in Nat /\ Count(Slots, tmp, f) \in Nat
  BY ZenonT(40), CountType, Finite DEF Counted
<1>2. \/ Count(FdPlaces, ofile, f) >= 1
      \/ Count(Slots, tmp, f) >= 1
  BY ZenonT(40), CountSome, Finite
<1> QED BY <1>1, <1>2

(* A free descriptor gets a file: open(), dup() and fork(). *)
LEMMA TakeFd ==
  ASSUME Types, Counted,
         NEW s \in FdPlaces, ofile[s] = NoFile, NEW g \in Files,
         ofile' = [ofile EXCEPT ![s] = g], tmp' = tmp,
         ref' = [ref EXCEPT ![g] = @ + 1]
  PROVE  Counted'
<1> SUFFICES ASSUME NEW f \in Files
             PROVE  ref'[f] = Count(FdPlaces, ofile', f) + Count(Slots, tmp', f)
  BY ZenonT(40) DEF Counted
<1>1. Tables
  BY ZenonT(40), TypesTables
<1>2. /\ ref[f] = Count(FdPlaces, ofile, f) + Count(Slots, tmp, f)
      /\ Count(FdPlaces, ofile, f) \in Nat /\ Count(Slots, tmp, f) \in Nat
      /\ Unit(NoFile, f) = 0
  BY ZenonT(40), CountType, Finite, NotNull, UnitValue DEF Counted
<1>3. Count(FdPlaces, ofile', f)
        = Count(FdPlaces, ofile, f) + Unit(g, f) - Unit(NoFile, f)
  <2>1. Moves(FdPlaces, ofile, ofile', s, g)
    BY ZenonT(40), <1>1 DEF Moves, Tables
  <2> QED BY <2>1, CountMove, Finite
<1>4. ref'[f] = ref[f] + Unit(g, f) /\ Unit(g, f) \in Nat
  <2>1. ref'[f] = IF f = g THEN ref[f] + 1 ELSE ref[f]
    BY ZenonT(40), <1>1 DEF Tables
  <2> QED BY <1>1, <2>1 DEF Unit, Tables
<1> QED BY <1>2, <1>3, <1>4

(* A local gets a file: filealloc() in open() and pipealloc(). *)
LEMMA TakeLocal ==
  ASSUME Types, Counted,
         NEW s \in Slots, tmp[s] = NoFile, NEW g \in Files,
         tmp' = [tmp EXCEPT ![s] = g], ofile' = ofile,
         ref' = [ref EXCEPT ![g] = @ + 1]
  PROVE  Counted'
<1> SUFFICES ASSUME NEW f \in Files
             PROVE  ref'[f] = Count(FdPlaces, ofile', f) + Count(Slots, tmp', f)
  BY ZenonT(40) DEF Counted
<1>1. Tables
  BY ZenonT(40), TypesTables
<1>2. /\ ref[f] = Count(FdPlaces, ofile, f) + Count(Slots, tmp, f)
      /\ Count(FdPlaces, ofile, f) \in Nat /\ Count(Slots, tmp, f) \in Nat
      /\ Unit(NoFile, f) = 0
  BY ZenonT(40), CountType, Finite, NotNull, UnitValue DEF Counted
<1>3. Count(Slots, tmp', f)
        = Count(Slots, tmp, f) + Unit(g, f) - Unit(NoFile, f)
  <2>1. Moves(Slots, tmp, tmp', s, g)
    BY ZenonT(40), <1>1 DEF Moves, Tables
  <2> QED BY <2>1, CountMove, Finite
<1>4. ref'[f] = ref[f] + Unit(g, f) /\ Unit(g, f) \in Nat
  <2>1. ref'[f] = IF f = g THEN ref[f] + 1 ELSE ref[f]
    BY ZenonT(40), <1>1 DEF Tables
  <2> QED BY <1>1, <2>1 DEF Unit, Tables
<1> QED BY <1>2, <1>3, <1>4

(* close() and exit() pass the reference of a descriptor to fileclose(). *)
LEMMA PassOn ==
  ASSUME Types, Counted,
         NEW s \in FdPlaces, NEW t \in Slots, tmp[t] = NoFile,
         ofile' = [ofile EXCEPT ![s] = NoFile],
         tmp' = [tmp EXCEPT ![t] = ofile[s]], ref' = ref
  PROVE  Counted'
<1> SUFFICES ASSUME NEW f \in Files
             PROVE  ref'[f] = Count(FdPlaces, ofile', f) + Count(Slots, tmp', f)
  BY ZenonT(40) DEF Counted
<1>1. Tables
  BY ZenonT(40), TypesTables
<1>2. /\ ref[f] = Count(FdPlaces, ofile, f) + Count(Slots, tmp, f)
      /\ Count(FdPlaces, ofile, f) \in Nat /\ Count(Slots, tmp, f) \in Nat
      /\ Unit(NoFile, f) = 0
  BY ZenonT(40), CountType, Finite, NotNull, UnitValue DEF Counted
<1>3. /\ Count(FdPlaces, ofile', f)
           = Count(FdPlaces, ofile, f) + Unit(NoFile, f) - Unit(ofile[s], f)
      /\ Count(Slots, tmp', f)
           = Count(Slots, tmp, f) + Unit(ofile[s], f) - Unit(NoFile, f)
      /\ Unit(ofile[s], f) \in Nat
  <2>1. /\ Moves(FdPlaces, ofile, ofile', s, NoFile)
        /\ Moves(Slots, tmp, tmp', t, ofile[s])
    BY ZenonT(40), <1>1 DEF Moves, Tables
  <2> QED BY <2>1, CountMove, Finite, UnitValue
<1> QED BY <1>2, <1>3

(* fileclose() gives a reference up. *)
LEMMA DropLocal ==
  ASSUME Types, Counted,
         NEW s \in Slots, NEW g \in Files, tmp[s] = g,
         tmp' = [tmp EXCEPT ![s] = NoFile], ofile' = ofile,
         ref' = [ref EXCEPT ![g] = @ - 1]
  PROVE  Counted'
<1> SUFFICES ASSUME NEW f \in Files
             PROVE  ref'[f] = Count(FdPlaces, ofile', f) + Count(Slots, tmp', f)
  BY ZenonT(40) DEF Counted
<1>1. Tables
  BY ZenonT(40), TypesTables
<1>2. /\ ref[f] = Count(FdPlaces, ofile, f) + Count(Slots, tmp, f)
      /\ Count(FdPlaces, ofile, f) \in Nat /\ Count(Slots, tmp, f) \in Nat
      /\ Unit(NoFile, f) = 0
  BY ZenonT(40), CountType, Finite, NotNull, UnitValue DEF Counted
<1>3. Count(Slots, tmp', f)
        = Count(Slots, tmp, f) + Unit(NoFile, f) - Unit(g, f)
  <2>1. Moves(Slots, tmp, tmp', s, NoFile)
    BY ZenonT(40), <1>1 DEF Moves, Tables
  <2> QED BY <2>1, CountMove, Finite
<1>4. ref'[f] = ref[f] - Unit(g, f) /\ Unit(g, f) \in Nat
  <2>1. ref'[f] = IF f = g THEN ref[f] - 1 ELSE ref[f]
    BY ZenonT(40), <1>1 DEF Tables
  <2> QED BY <1>1, <2>1 DEF Unit, Tables
<1> QED BY <1>2, <1>3, <1>4

(* sys_pipe() has two descriptors for its two files. *)
LEMMA TakeTwo ==
  ASSUME Types, Counted,
         NEW s \in FdPlaces, NEW t \in FdPlaces, NEW u \in Slots,
         s # t, ofile[s] = NoFile, ofile[t] = NoFile,
         NEW g \in Files, tmp[u] \in Files,
         ofile' = [ofile EXCEPT ![s] = tmp[u], ![t] = g],
         tmp' = [tmp EXCEPT ![u] = NoFile],
         ref' = [ref EXCEPT ![g] = @ + 1]
  PROVE  Counted'
<1> SUFFICES ASSUME NEW f \in Files
             PROVE  ref'[f] = Count(FdPlaces, ofile', f) + Count(Slots, tmp', f)
  BY ZenonT(40) DEF Counted
<1>1. Tables
  BY ZenonT(40), TypesTables
<1>2. /\ ref[f] = Count(FdPlaces, ofile, f) + Count(Slots, tmp, f)
      /\ Count(FdPlaces, ofile, f) \in Nat /\ Count(Slots, tmp, f) \in Nat
      /\ Unit(NoFile, f) = 0
  BY ZenonT(40), CountType, Finite, NotNull, UnitValue DEF Counted
<1> DEFINE of == [ofile EXCEPT ![s] = tmp[u]]
<1>3. of \in [FdPlaces -> FilePtr] /\ of[t] = NoFile /\ ofile' = [of EXCEPT ![t] = g]
  BY ZenonT(40), <1>1 DEF Tables, FilePtr
<1>4. Count(FdPlaces, of, f)
        = Count(FdPlaces, ofile, f) + Unit(tmp[u], f) - Unit(NoFile, f)
  <2>1. Moves(FdPlaces, ofile, of, s, tmp[u])
    BY ZenonT(40), <1>1 DEF Moves, Tables
  <2> QED BY <2>1, CountMove, Finite
<1> HIDE DEF of
<1>5. Count(FdPlaces, ofile', f)
        = Count(FdPlaces, of, f) + Unit(g, f) - Unit(NoFile, f)
  <2>1. Moves(FdPlaces, of, ofile', t, g)
    BY ZenonT(40), <1>3 DEF Moves
  <2> QED BY <1>3, <2>1, CountMove, Finite
<1>6. Count(Slots, tmp', f)
        = Count(Slots, tmp, f) + Unit(NoFile, f) - Unit(tmp[u], f)
  <2>1. Moves(Slots, tmp, tmp', u, NoFile)
    BY ZenonT(40), <1>1 DEF Moves, Tables
  <2> QED BY <2>1, CountMove, Finite
<1>7. ref'[f] = ref[f] + Unit(g, f) /\ Unit(g, f) \in Nat /\ Unit(tmp[u], f) \in Nat
  <2>1. ref'[f] = IF f = g THEN ref[f] + 1 ELSE ref[f]
    BY ZenonT(40), <1>1 DEF Tables
  <2> QED BY <1>1, <2>1 DEF Unit, Tables
<1>8. Count(FdPlaces, of, f) \in Nat
  BY ZenonT(40), CountType, Finite
<1> QED BY <1>2, <1>4, <1>5, <1>6, <1>7, <1>8

-----------------------------------------------------------------------------
(* The ends of pipes and the inodes *)

(* They can be counted. *)
LEMMA OwnersType == \A fl, cp, v : Owners(fl, cp, v) \in Nat
<1> SUFFICES ASSUME NEW fl, NEW cp, NEW v PROVE Owners(fl, cp, v) \in Nat
  OBVIOUS
<1>1. Count(Files, fl, v) \in Nat /\ Count(Procs, cp, v) \in Nat
  BY ZenonT(40), CountType, Finite
<1> QED BY <1>1 DEF Owners

(* A file changes what it stands for. *)
LEMMA FileMoves ==
  ASSUME Tables, NEW f \in Files, NEW c, file' = [file EXCEPT ![f] = c], ff' = ff, NEW v
  PROVE  Owners(file', ff', v) = Owners(file, ff, v) + Unit(c, v) - Unit(file[f], v)
<1>1. Moves(Files, file, file', f, c)
  BY ZenonT(40) DEF Moves, Tables
<1>2. Count(Files, file', v) = Count(Files, file, v) + Unit(c, v) - Unit(file[f], v)
  BY <1>1, CountMove, Finite
<1>3. /\ Count(Files, file, v) \in Nat /\ Count(Procs, ff, v) \in Nat
      /\ Unit(c, v) \in Nat /\ Unit(file[f], v) \in Nat
  BY ZenonT(40), CountType, Finite, UnitValue
<1> QED BY <1>2, <1>3 DEF Owners

(* The copy of fileclose() changes what it stands for. *)
LEMMA CopyMoves ==
  ASSUME Tables, NEW p \in Procs, NEW c, ff' = [ff EXCEPT ![p] = c], file' = file, NEW v
  PROVE  Owners(file', ff', v) = Owners(file, ff, v) + Unit(c, v) - Unit(ff[p], v)
<1>1. Moves(Procs, ff, ff', p, c)
  BY ZenonT(40) DEF Moves, Tables
<1>2. Count(Procs, ff', v) = Count(Procs, ff, v) + Unit(c, v) - Unit(ff[p], v)
  BY <1>1, CountMove, Finite
<1>3. /\ Count(Files, file, v) \in Nat /\ Count(Procs, ff, v) \in Nat
      /\ Unit(c, v) \in Nat /\ Unit(ff[p], v) \in Nat
  BY ZenonT(40), CountType, Finite, UnitValue
<1> QED BY <1>2, <1>3 DEF Owners

(* The last fileclose() takes over what the file stands for. *)
LEMMA CloseLedgers ==
  ASSUME Tables, Ends, Inodes, NEW f \in Files, NEW p \in Procs, ff[p] = None,
         file' = [file EXCEPT ![f] = None], ff' = [ff EXCEPT ![p] = file[f]],
         UNCHANGED <<pipe, iref, ip>>
  PROVE  Ends' /\ Inodes'
<1>1. ASSUME NEW v, v # None PROVE Owners(file', ff', v) = Owners(file, ff, v)
  <2>1. Moves(Files, file, file', f, None) /\ Moves(Procs, ff, ff', p, file[f])
    BY ZenonT(40) DEF Moves, Tables
  <2>2. /\ Count(Files, file', v) = Count(Files, file, v) + Unit(None, v) - Unit(file[f], v)
        /\ Count(Procs, ff', v) = Count(Procs, ff, v) + Unit(file[f], v) - Unit(None, v)
    BY <2>1, CountMove, Finite
  <2>3. /\ Count(Files, file, v) \in Nat /\ Count(Procs, ff, v) \in Nat
        /\ Unit(None, v) \in Nat /\ Unit(file[f], v) \in Nat
    BY ZenonT(40), CountType, Finite, UnitValue
  <2> QED BY <2>2, <2>3 DEF Owners
<1>2. /\ \A q, w : Owners(file', ff', End(q, w)) = Owners(file, ff, End(q, w))
      /\ \A i, w : Owners(file', ff', Inode(i, w)) = Owners(file, ff, Inode(i, w))
  <2>1. \A i, w : Inode(i, w) # None /\ End(i, w) # None
    BY ZenonT(40), NotNone
  <2> QED BY ZenonT(40), <1>1, <2>1
<1>3. \A q, w : EndIsOpen(q, w)' = EndIsOpen(q, w)
  BY DEF EndIsOpen
<1>4. Ends'
  BY <1>2, <1>3, ZenonT(40) DEF Ends
<1>5. Inodes'
  BY <1>2, ZenonT(40) DEF Inodes
<1> QED BY <1>4, <1>5

(* pipeclose() closes one end and no other. *)
LEMMA PipecloseEnds ==
  ASSUME Tables, NEW q \in Pipes, NEW w \in BOOLEAN, pipe' = pipeclose(q, w)
  PROVE  /\ pipe' \in [Pipes -> [readopen : BOOLEAN, writeopen : BOOLEAN]]
         /\ ~EndIsOpen(q, w)'
         /\ \A r \in Pipes, u \in BOOLEAN :
              <<r, u>> # <<q, w>> => (EndIsOpen(r, u)' <=> EndIsOpen(r, u))
<1>1. pipe \in [Pipes -> [readopen : BOOLEAN, writeopen : BOOLEAN]]
  BY ZenonT(40) DEF Tables
<1>2. CASE w
  BY <1>1, <1>2, ZenonT(40) DEF pipeclose, EndIsOpen
<1>3. CASE ~w
  BY <1>1, <1>3, ZenonT(40) DEF pipeclose, EndIsOpen
<1> QED BY <1>2, <1>3

(* A copy is let go of. *)
LEMMA CopyDropped ==
  ASSUME Tables, NEW p \in Procs, NEW c, c # None, ff[p] = c,
         ff' = [ff EXCEPT ![p] = None], file' = file
  PROVE  /\ \A v : v # None /\ v # c => Owners(file', ff', v) = Owners(file, ff, v)
         /\ Owners(file', ff', c) = Owners(file, ff, c) - 1
         /\ Owners(file, ff, c) >= 1
<1>1. ASSUME NEW v
      PROVE  /\ Owners(file', ff', v) = Owners(file, ff, v) + Unit(None, v) - Unit(c, v)
             /\ Owners(file, ff, v) \in Nat
  BY ZenonT(40), CopyMoves, OwnersType
<1>2. ASSUME NEW v, v # None, v # c PROVE Owners(file', ff', v) = Owners(file, ff, v)
  <2>1. Unit(None, v) = 0 /\ Unit(c, v) = 0
    BY ZenonT(40), <1>2, UnitValue
  <2>2. /\ Owners(file', ff', v) = Owners(file, ff, v) + Unit(None, v) - Unit(c, v)
        /\ Owners(file, ff, v) \in Nat
    BY ZenonT(40), <1>1
  <2> QED BY <2>1, <2>2
<1>3. Owners(file', ff', c) = Owners(file, ff, c) - 1
  <2>1. Unit(None, c) = 0 /\ Unit(c, c) = 1
    BY ZenonT(40), UnitValue
  <2>2. /\ Owners(file', ff', c) = Owners(file, ff, c) + Unit(None, c) - Unit(c, c)
        /\ Owners(file, ff, c) \in Nat
    BY ZenonT(40), <1>1
  <2> QED BY <2>1, <2>2
<1>4. Owners(file, ff, c) >= 1
  <2>1. Count(Procs, ff, c) >= 1
    BY ZenonT(40), CountSome, Finite
  <2>2. Count(Files, file, c) \in Nat /\ Count(Procs, ff, c) \in Nat
    BY ZenonT(40), CountType, Finite
  <2> QED BY <2>1, <2>2 DEF Owners
<1> QED BY ZenonT(40), <1>2, <1>3, <1>4

(* A file is set up. *)
LEMMA FileSetUp ==
  ASSUME Tables, NEW f \in Files, NEW c, c # None, file[f] = None,
         file' = [file EXCEPT ![f] = c], ff' = ff
  PROVE  /\ \A v : v # None /\ v # c => Owners(file', ff', v) = Owners(file, ff, v)
         /\ Owners(file', ff', c) = Owners(file, ff, c) + 1
<1>1. ASSUME NEW v
      PROVE  /\ Owners(file', ff', v) = Owners(file, ff, v) + Unit(c, v) - Unit(None, v)
             /\ Owners(file, ff, v) \in Nat
  BY ZenonT(40), FileMoves, OwnersType
<1>2. ASSUME NEW v, v # None, v # c PROVE Owners(file', ff', v) = Owners(file, ff, v)
  <2>1. Unit(None, v) = 0 /\ Unit(c, v) = 0
    BY ZenonT(40), <1>2, UnitValue
  <2>2. /\ Owners(file', ff', v) = Owners(file, ff, v) + Unit(c, v) - Unit(None, v)
        /\ Owners(file, ff, v) \in Nat
    BY ZenonT(40), <1>1
  <2> QED BY <2>1, <2>2
<1>3. Owners(file', ff', c) = Owners(file, ff, c) + 1
  <2>1. Unit(None, c) = 0 /\ Unit(c, c) = 1
    BY ZenonT(40), UnitValue
  <2>2. /\ Owners(file', ff', c) = Owners(file, ff, c) + Unit(c, c) - Unit(None, c)
        /\ Owners(file, ff, c) \in Nat
    BY ZenonT(40), <1>1
  <2> QED BY <2>1, <2>2
<1> QED BY ZenonT(40), <1>2, <1>3

(* The references of one inode: a calls of open(), b and c owners. *)
RefSum(x, a, b, c) == x \in Nat /\ x = a + b + c

(* They stay in balance when one of them comes, is gone, or changes hands. *)
LEMMA OneRef ==
  ASSUME NEW x, NEW y, NEW a \in Nat, NEW b \in Nat, NEW c \in Nat, NEW d,
         RefSum(x, a, b, c)
  PROVE  /\ y = x + 1 /\ d = a + 1 => RefSum(y, d, b, c)
         /\ y = x - 1 /\ a >= 1 /\ d = a - 1 => RefSum(y, d, b, c)
         /\ y = x - 1 /\ b >= 1 /\ d = b - 1 => RefSum(y, a, d, c)
         /\ y = x - 1 /\ c >= 1 /\ d = c - 1 => RefSum(y, a, b, d)
BY DEF RefSum

(* A file takes over the reference of a call of open(). *)
LEMMA RefMoved ==
  ASSUME NEW x, NEW a \in Nat, NEW b \in Nat, NEW c \in Nat, NEW d, NEW e,
         RefSum(x, a, b, c), a >= 1, d = a - 1
  PROVE  /\ e = b + 1 => RefSum(x, d, e, c)
         /\ e = c + 1 => RefSum(x, d, b, e)
BY DEF RefSum

(* The rest of fileclose() closes the end that its copy stands for. *)
LEMMA LetGoEnd ==
  ASSUME Tables, Ends, Inodes, NEW p \in Procs, NEW q \in Pipes, NEW w \in BOOLEAN,
         ff[p] = End(q, w), ff' = [ff EXCEPT ![p] = None], file' = file,
         pipe' = pipeclose(q, w), iref' = iref, ip' = ip
  PROVE  Ends' /\ Inodes'
<1> DEFINE c == End(q, w)
<1>1. /\ \A v : v # None /\ v # c => Owners(file', ff', v) = Owners(file, ff, v)
      /\ Owners(file', ff', c) = Owners(file, ff, c) - 1
      /\ Owners(file, ff, c) >= 1
  BY ZenonT(40), CopyDropped, NotNone
<1>2. Owners(file, ff, c) = IF EndIsOpen(q, w) THEN 1 ELSE 0
  BY ZenonT(40) DEF Ends
<1>3. \A r, u : <<r, u>> # <<q, w>> => End(r, u) # c
  BY ZenonT(40), SameEnd
<1>4. \A i, u : Inode(i, u) # c
  BY ZenonT(40), InodeNotEnd
<1> HIDE DEF c
<1>5. Owners(file', ff', c) = 0
  BY <1>1, <1>2
<1>6. ASSUME NEW r \in Pipes, NEW u \in BOOLEAN
      PROVE  Owners(file', ff', End(r, u)) = IF EndIsOpen(r, u)' THEN 1 ELSE 0
  <2>1. CASE <<r, u>> = <<q, w>>
    <3>1. r = q /\ u = w /\ End(q, w) = c
      BY <2>1 DEF c
    <3>2. ~EndIsOpen(q, w)'
      BY ZenonT(40), PipecloseEnds
    <3> QED BY ZenonT(40), <1>5, <3>1, <3>2
  <2>2. CASE <<r, u>> # <<q, w>>
    <3>1. End(r, u) # c /\ End(r, u) # None
      BY ZenonT(40), <1>3, <2>2, NotNone
    <3>2. EndIsOpen(r, u)' <=> EndIsOpen(r, u)
      BY ZenonT(40), <2>2, PipecloseEnds
    <3>3. Owners(file, ff, End(r, u)) = IF EndIsOpen(r, u) THEN 1 ELSE 0
      BY ZenonT(40) DEF Ends
    <3>4. Owners(file', ff', End(r, u)) = Owners(file, ff, End(r, u))
      BY ZenonT(40), <1>1, <3>1
    <3> QED BY ZenonT(40), <3>2, <3>3, <3>4
  <2> QED BY <2>1, <2>2
<1>7. \A i, u : Owners(file', ff', Inode(i, u)) = Owners(file, ff, Inode(i, u))
  BY ZenonT(40), <1>1, <1>4, NotNone
<1>8. Ends'
  BY <1>6, ZenonT(40) DEF Ends
<1>9. Inodes'
  BY ZenonT(40), <1>7 DEF Inodes
<1> QED BY <1>8, <1>9

Balanced(j) ==
  /\ RefSum(iref[j], Count(Procs, ip, j), Owners(file, ff, Inode(j, TRUE)),
            Owners(file, ff, Inode(j, FALSE)))
  /\ Count(Procs, ip, j) \in Nat
  /\ Owners(file, ff, Inode(j, TRUE)) \in Nat /\ Owners(file, ff, Inode(j, FALSE)) \in Nat

(* Every inode is in balance. *)
LEMMA InodesBalanced ==
  ASSUME Tables, Inodes, NEW j \in Inums
  PROVE  Balanced(j)
BY ZenonT(40), OwnersType, CountType, Finite DEF Inodes, Tables, RefSum, Balanced

(* It puts the inode that its copy stands for. *)
LEMMA LetGoInode ==
  ASSUME Tables, Ends, Inodes, NEW p \in Procs, NEW i \in Inums, NEW w \in BOOLEAN,
         ff[p] = Inode(i, w), ff' = [ff EXCEPT ![p] = None], file' = file,
         iref' = [iref EXCEPT ![i] = @ - 1], pipe' = pipe, ip' = ip
  PROVE  Ends' /\ Inodes' /\ iref' \in [Inums -> Nat]
<1> DEFINE c == Inode(i, w)
<1>1. /\ \A v : v # None /\ v # c => Owners(file', ff', v) = Owners(file, ff, v)
      /\ Owners(file', ff', c) = Owners(file, ff, c) - 1
      /\ Owners(file, ff, c) >= 1
  BY ZenonT(40), CopyDropped, NotNone
<1>2. \A j, u : Inode(j, u) # c => Owners(file', ff', Inode(j, u)) = Owners(file, ff, Inode(j, u))
  BY ZenonT(40), <1>1, NotNone
<1>3. Ends'
  <2>1. \A r, u : Owners(file', ff', End(r, u)) = Owners(file, ff, End(r, u))
    BY ZenonT(40), <1>1, InodeNotEnd, NotNone
  <2> QED BY ZenonT(40), <2>1 DEF Ends, EndIsOpen
<1>4. ASSUME NEW j \in Inums
      PROVE  RefSum(iref'[j], Count(Procs, ip', j), Owners(file', ff', Inode(j, TRUE)),
                    Owners(file', ff', Inode(j, FALSE)))
  <2>1. Balanced(j)
    BY ZenonT(40), InodesBalanced
  <2>2. /\ j = i => iref'[j] = iref[j] - 1
        /\ j # i => iref'[j] = iref[j]
    BY ZenonT(40) DEF Tables
  <2>3. CASE j = i /\ w
    <3>1. /\ Inode(j, FALSE) # c /\ Inode(j, TRUE) = c
      BY ZenonT(40), <2>3, SameInode
    <3>2. /\ Owners(file', ff', Inode(j, TRUE)) = Owners(file, ff, Inode(j, TRUE)) - 1
          /\ Owners(file', ff', Inode(j, FALSE)) = Owners(file, ff, Inode(j, FALSE))
          /\ Owners(file, ff, Inode(j, TRUE)) >= 1
          /\ ip' = ip /\ iref'[j] = iref[j] - 1
      BY ZenonT(40), <1>1, <1>2, <2>2, <2>3, <3>1
    <3> QED BY ZenonT(40), <2>1, <3>2, OneRef DEF Balanced
  <2>4. CASE j = i /\ ~w
    <3>1. /\ Inode(j, TRUE) # c /\ Inode(j, FALSE) = c
      BY ZenonT(40), <2>4, SameInode
    <3>2. /\ Owners(file', ff', Inode(j, FALSE)) = Owners(file, ff, Inode(j, FALSE)) - 1
          /\ Owners(file', ff', Inode(j, TRUE)) = Owners(file, ff, Inode(j, TRUE))
          /\ Owners(file, ff, Inode(j, FALSE)) >= 1
          /\ ip' = ip /\ iref'[j] = iref[j] - 1
      BY ZenonT(40), <1>1, <1>2, <2>2, <2>4, <3>1
    <3> QED BY ZenonT(40), <2>1, <3>2, OneRef DEF Balanced
  <2>5. CASE j # i
    <3>1. \A u : Inode(j, u) # c
      BY ZenonT(40), <2>5, SameInode
    <3> QED BY ZenonT(40), <1>2, <2>1, <2>2, <2>5, <3>1 DEF Balanced
  <2> QED BY ZenonT(40), <2>3, <2>4, <2>5
<1>5. Inodes'
  BY ZenonT(40), <1>4 DEF Inodes, RefSum
<1>6. iref' \in [Inums -> Nat]
  <2>1. iref' = [j \in Inums |-> iref'[j]]
    BY ZenonT(40) DEF Tables
  <2> QED BY ZenonT(40), <1>4, <2>1 DEF RefSum
<1> QED BY ZenonT(40), <1>3, <1>5, <1>6

(* The ledgers depend on these variables only. *)
LEMMA SameLedgers ==
  ASSUME Ends, Inodes, UNCHANGED <<file, ff, pipe, iref, ip>>
  PROVE  Ends' /\ Inodes'
BY ZenonT(40) DEF Ends, Inodes, EndIsOpen

(* open() takes a reference to an inode. *)
LEMMA IpTaken ==
  ASSUME Tables, NEW p \in Procs, NEW i \in Inums, ip[p] = 0, ip' = [ip EXCEPT ![p] = i]
  PROVE  /\ Count(Procs, ip', i) = Count(Procs, ip, i) + 1
         /\ \A j \in Inums : j # i => Count(Procs, ip', j) = Count(Procs, ip, j)
<1>1. Moves(Procs, ip, ip', p, i)
  BY ZenonT(40) DEF Moves, Tables
<1>2. ASSUME NEW j \in Inums
      PROVE  /\ Count(Procs, ip', j) = Count(Procs, ip, j) + Unit(i, j) - Unit(0, j)
             /\ Count(Procs, ip, j) \in Nat /\ Unit(0, j) = 0
  <2>1. Count(Procs, ip', j) = Count(Procs, ip, j) + Unit(i, j) - Unit(0, j)
    BY <1>1, CountMove, Finite
  <2> QED BY ZenonT(40), <2>1, CountType, Finite, UnitValue, FileTableAssumption
<1>3. Unit(i, i) = 1 /\ \A j : j # i => Unit(i, j) = 0
  BY ZenonT(40), UnitValue
<1>4. Count(Procs, ip', i) = Count(Procs, ip, i) + 1
  <2>1. /\ Count(Procs, ip', i) = Count(Procs, ip, i) + Unit(i, i) - Unit(0, i)
        /\ Count(Procs, ip, i) \in Nat /\ Unit(0, i) = 0 /\ Unit(i, i) = 1
    BY ZenonT(40), <1>2, <1>3
  <2> QED BY <2>1
<1>5. ASSUME NEW j \in Inums, j # i PROVE Count(Procs, ip', j) = Count(Procs, ip, j)
  <2>1. /\ Count(Procs, ip', j) = Count(Procs, ip, j) + Unit(i, j) - Unit(0, j)
        /\ Count(Procs, ip, j) \in Nat /\ Unit(0, j) = 0 /\ Unit(i, j) = 0
    BY ZenonT(40), <1>2, <1>3, <1>5
  <2> QED BY <2>1
<1> QED BY ZenonT(40), <1>4, <1>5

(* open() gives its reference to an inode up. *)
LEMMA IpGiven ==
  ASSUME Tables, NEW p \in Procs, NEW i \in Inums, ip[p] = i, ip' = [ip EXCEPT ![p] = 0]
  PROVE  /\ Count(Procs, ip', i) = Count(Procs, ip, i) - 1
         /\ Count(Procs, ip, i) >= 1
         /\ \A j \in Inums : j # i => Count(Procs, ip', j) = Count(Procs, ip, j)
<1>1. Moves(Procs, ip, ip', p, 0)
  BY ZenonT(40) DEF Moves, Tables
<1>2. ASSUME NEW j \in Inums
      PROVE  /\ Count(Procs, ip', j) = Count(Procs, ip, j) + Unit(0, j) - Unit(i, j)
             /\ Count(Procs, ip, j) \in Nat /\ Unit(0, j) = 0
  <2>1. Count(Procs, ip', j) = Count(Procs, ip, j) + Unit(0, j) - Unit(i, j)
    BY <1>1, CountMove, Finite
  <2> QED BY ZenonT(40), <2>1, CountType, Finite, UnitValue, FileTableAssumption
<1>3. Unit(i, i) = 1 /\ \A j : j # i => Unit(i, j) = 0
  BY ZenonT(40), UnitValue
<1>4. Count(Procs, ip, i) >= 1
  BY ZenonT(40), CountSome, Finite
<1>5. Count(Procs, ip', i) = Count(Procs, ip, i) - 1
  <2>1. /\ Count(Procs, ip', i) = Count(Procs, ip, i) + Unit(0, i) - Unit(i, i)
        /\ Count(Procs, ip, i) \in Nat /\ Unit(0, i) = 0 /\ Unit(i, i) = 1
    BY ZenonT(40), <1>2, <1>3
  <2> QED BY <2>1
<1>6. ASSUME NEW j \in Inums, j # i PROVE Count(Procs, ip', j) = Count(Procs, ip, j)
  <2>1. /\ Count(Procs, ip', j) = Count(Procs, ip, j) + Unit(0, j) - Unit(i, j)
        /\ Count(Procs, ip, j) \in Nat /\ Unit(0, j) = 0 /\ Unit(i, j) = 0
    BY ZenonT(40), <1>2, <1>3, <1>6
  <2> QED BY <2>1
<1> QED BY ZenonT(40), <1>4, <1>5, <1>6

(* The ledgers when open() begins. *)
LEMMA OpenLedgers ==
  ASSUME Tables, Ends, Inodes, NEW p \in Procs, NEW i \in Inums, ip[p] = 0,
         ip' = [ip EXCEPT ![p] = i], iref' = [iref EXCEPT ![i] = @ + 1],
         UNCHANGED <<file, ff, pipe>>
  PROVE  Ends' /\ Inodes' /\ iref' \in [Inums -> Nat]
<1>1. /\ Count(Procs, ip', i) = Count(Procs, ip, i) + 1
      /\ \A j \in Inums : j # i => Count(Procs, ip', j) = Count(Procs, ip, j)
  BY ZenonT(40), IpTaken
<1>2. ASSUME NEW j \in Inums
      PROVE  RefSum(iref'[j], Count(Procs, ip', j), Owners(file', ff', Inode(j, TRUE)),
                    Owners(file', ff', Inode(j, FALSE)))
  <2>1. Balanced(j)
    BY ZenonT(40), InodesBalanced
  <2>2. /\ j = i => iref'[j] = iref[j] + 1
        /\ j # i => iref'[j] = iref[j]
    BY ZenonT(40) DEF Tables
  <2>3. CASE j = i
    BY ZenonT(40), <1>1, <2>1, <2>2, <2>3, OneRef DEF Balanced
  <2>4. CASE j # i
    BY ZenonT(40), <1>1, <2>1, <2>2, <2>4 DEF Balanced
  <2> QED BY ZenonT(40), <2>3, <2>4
<1>3. Inodes'
  BY ZenonT(40), <1>2 DEF Inodes, RefSum
<1>4. iref' \in [Inums -> Nat]
  <2>1. iref' = [j \in Inums |-> iref'[j]]
    BY ZenonT(40) DEF Tables
  <2> QED BY ZenonT(40), <1>2, <2>1 DEF RefSum
<1>5. Ends'
  BY ZenonT(40) DEF Ends, EndIsOpen
<1> QED BY ZenonT(40), <1>3, <1>4, <1>5

(* The ledgers when open() gives up, *)
LEMMA IputLedgers ==
  ASSUME Tables, Ends, Inodes, NEW p \in Procs, NEW i \in Inums, ip[p] = i,
         ip' = [ip EXCEPT ![p] = 0], iref' = [iref EXCEPT ![i] = @ - 1],
         UNCHANGED <<file, ff, pipe>>
  PROVE  Ends' /\ Inodes' /\ iref' \in [Inums -> Nat]
<1>1. /\ Count(Procs, ip', i) = Count(Procs, ip, i) - 1
      /\ Count(Procs, ip, i) >= 1
      /\ \A j \in Inums : j # i => Count(Procs, ip', j) = Count(Procs, ip, j)
  BY ZenonT(40), IpGiven
<1>2. ASSUME NEW j \in Inums
      PROVE  RefSum(iref'[j], Count(Procs, ip', j), Owners(file', ff', Inode(j, TRUE)),
                    Owners(file', ff', Inode(j, FALSE)))
  <2>1. Balanced(j)
    BY ZenonT(40), InodesBalanced
  <2>2. /\ j = i => iref'[j] = iref[j] - 1
        /\ j # i => iref'[j] = iref[j]
    BY ZenonT(40) DEF Tables
  <2>3. CASE j = i
    BY ZenonT(40), <1>1, <2>1, <2>2, <2>3, OneRef DEF Balanced
  <2>4. CASE j # i
    BY ZenonT(40), <1>1, <2>1, <2>2, <2>4 DEF Balanced
  <2> QED BY ZenonT(40), <2>3, <2>4
<1>3. Inodes'
  BY ZenonT(40), <1>2 DEF Inodes, RefSum
<1>4. iref' \in [Inums -> Nat]
  <2>1. iref' = [j \in Inums |-> iref'[j]]
    BY ZenonT(40) DEF Tables
  <2> QED BY ZenonT(40), <1>2, <2>1 DEF RefSum
<1>5. Ends'
  BY ZenonT(40) DEF Ends, EndIsOpen
<1> QED BY ZenonT(40), <1>3, <1>4, <1>5

(* and when it sets the file up, which takes its reference over. *)
LEMMA OpenFileLedgers ==
  ASSUME Tables, Ends, Inodes, NEW p \in Procs, NEW i \in Inums, ip[p] = i,
         NEW f \in Files, NEW w \in BOOLEAN, file[f] = None,
         file' = [file EXCEPT ![f] = Inode(i, w)], ip' = [ip EXCEPT ![p] = 0],
         UNCHANGED <<ff, pipe, iref>>
  PROVE  Ends' /\ Inodes'
<1> DEFINE c == Inode(i, w)
<1>1. /\ Count(Procs, ip', i) = Count(Procs, ip, i) - 1
      /\ Count(Procs, ip, i) >= 1
      /\ \A j \in Inums : j # i => Count(Procs, ip', j) = Count(Procs, ip, j)
  BY ZenonT(40), IpGiven
<1>2. /\ \A v : v # None /\ v # c => Owners(file', ff', v) = Owners(file, ff, v)
      /\ Owners(file', ff', c) = Owners(file, ff, c) + 1
  <2>1. c # None /\ file' = [file EXCEPT ![f] = c]
    BY ZenonT(40), NotNone
  <2> HIDE DEF c
  <2> QED BY ZenonT(40), <2>1, FileSetUp
<1>3. \A j, u : Inode(j, u) # c => Owners(file', ff', Inode(j, u)) = Owners(file, ff, Inode(j, u))
  BY ZenonT(40), <1>2, NotNone
<1>4. Ends'
  <2>1. \A r, u : Owners(file', ff', End(r, u)) = Owners(file, ff, End(r, u))
    <3>1. \A r, u : End(r, u) # c /\ End(r, u) # None
      BY ZenonT(40), InodeNotEnd, NotNone
    <3> QED BY ZenonT(40), <1>2, <3>1
  <2> QED BY ZenonT(40), <2>1 DEF Ends, EndIsOpen
<1>5. ASSUME NEW j \in Inums
      PROVE  RefSum(iref'[j], Count(Procs, ip', j), Owners(file', ff', Inode(j, TRUE)),
                    Owners(file', ff', Inode(j, FALSE)))
  <2>1. Balanced(j)
    BY ZenonT(40), InodesBalanced
  <2>2. CASE j = i /\ w
    <3>1. Inode(j, FALSE) # c /\ Inode(j, TRUE) = c
      BY ZenonT(40), <2>2, SameInode
    <3>2. /\ Owners(file', ff', Inode(j, TRUE)) = Owners(file, ff, Inode(j, TRUE)) + 1
          /\ Owners(file', ff', Inode(j, FALSE)) = Owners(file, ff, Inode(j, FALSE))
          /\ Count(Procs, ip', j) = Count(Procs, ip, j) - 1 /\ Count(Procs, ip, j) >= 1
          /\ iref'[j] = iref[j]
      BY ZenonT(40), <1>1, <1>2, <1>3, <2>2, <3>1
    <3> QED BY ZenonT(40), <2>1, <3>2, RefMoved DEF Balanced
  <2>3. CASE j = i /\ ~w
    <3>1. Inode(j, TRUE) # c /\ Inode(j, FALSE) = c
      BY ZenonT(40), <2>3, SameInode
    <3>2. /\ Owners(file', ff', Inode(j, FALSE)) = Owners(file, ff, Inode(j, FALSE)) + 1
          /\ Owners(file', ff', Inode(j, TRUE)) = Owners(file, ff, Inode(j, TRUE))
          /\ Count(Procs, ip', j) = Count(Procs, ip, j) - 1 /\ Count(Procs, ip, j) >= 1
          /\ iref'[j] = iref[j]
      BY ZenonT(40), <1>1, <1>2, <1>3, <2>3, <3>1
    <3> QED BY ZenonT(40), <2>1, <3>2, RefMoved DEF Balanced
  <2>4. CASE j # i
    <3>1. \A u : Inode(j, u) # c
      BY ZenonT(40), <2>4, SameInode
    <3> QED BY ZenonT(40), <1>1, <1>3, <2>1, <2>4, <3>1 DEF Balanced
  <2> QED BY ZenonT(40), <2>2, <2>3, <2>4
<1>6. Inodes'
  BY ZenonT(40), <1>5 DEF Inodes, RefSum
<1> QED BY ZenonT(40), <1>4, <1>6

(* pipealloc() makes a file for each end of the pipe. *)
LEMMA PipeLedgers ==
  ASSUME Tables, Ends, Inodes, NEW q \in Pipes, pipe[q] = NoPipe,
         NEW f \in Files, NEW g \in Files, f # g, file[f] = None, file[g] = None,
         file' = [file EXCEPT ![f] = End(q, FALSE), ![g] = End(q, TRUE)],
         pipe' = [pipe EXCEPT ![q] = [readopen |-> TRUE, writeopen |-> TRUE]],
         UNCHANGED <<ff, ip, iref>>
  PROVE  /\ Ends' /\ Inodes'
         /\ pipe' \in [Pipes -> [readopen : BOOLEAN, writeopen : BOOLEAN]]
<1> DEFINE c == End(q, FALSE)
           d == End(q, TRUE)
<1>1. c # d /\ c # None /\ d # None
  BY ZenonT(40), SameEnd, NotNone
<1>2. \A i, u : Inode(i, u) # c /\ Inode(i, u) # d /\ Inode(i, u) # None
  BY ZenonT(40), InodeNotEnd, NotNone
<1>3. \A r, u : r # q => End(r, u) # c /\ End(r, u) # d /\ End(r, u) # None
  BY ZenonT(40), SameEnd, NotNone
<1>4. ASSUME NEW v, v # None
      PROVE  /\ v # c /\ v # d => Owners(file', ff', v) = Owners(file, ff, v)
             /\ v = c \/ v = d => Owners(file', ff', v) = Owners(file, ff, v) + 1
  <2> HIDE DEF c, d
  <2> DEFINE fl == [file EXCEPT ![f] = c]
  <2>1. Moves(Files, file, fl, f, c) /\ Moves(Files, fl, file', g, d) /\ fl[g] = None
    BY ZenonT(40) DEF Moves, Tables, c, d
  <2> HIDE DEF fl
  <2>2. /\ Count(Files, fl, v) = Count(Files, file, v) + Unit(c, v) - Unit(None, v)
        /\ Count(Files, file', v) = Count(Files, fl, v) + Unit(d, v) - Unit(None, v)
    BY <2>1, CountMove, Finite
  <2>3. /\ Count(Files, file, v) \in Nat /\ Count(Files, fl, v) \in Nat
        /\ Count(Procs, ff, v) \in Nat /\ Unit(None, v) = 0
    BY ZenonT(40), <1>4, CountType, Finite, UnitValue
  <2>4. CASE v # c /\ v # d
    <3>1. Unit(c, v) = 0 /\ Unit(d, v) = 0
      BY ZenonT(40), <2>4, UnitValue
    <3> QED BY <2>2, <2>3, <2>4, <3>1 DEF Owners
  <2>5. CASE v = c \/ v = d
    <3>1. \/ Unit(c, v) = 0 /\ Unit(d, v) = 1
          \/ Unit(c, v) = 1 /\ Unit(d, v) = 0
      <4>1. \/ c = v /\ d # v
            \/ c # v /\ d = v
        BY ZenonT(40), <1>1, <2>5
      <4> QED BY ZenonT(40), <4>1, UnitValue
    <3> QED BY <1>1, <2>2, <2>3, <2>5, <3>1 DEF Owners
  <2> QED BY ZenonT(40), <2>4, <2>5
<1>5. pipe \in [Pipes -> [readopen : BOOLEAN, writeopen : BOOLEAN]]
  BY ZenonT(40) DEF Tables
<1>6. /\ \A u \in BOOLEAN : ~EndIsOpen(q, u) /\ EndIsOpen(q, u)'
      /\ \A r \in Pipes, u \in BOOLEAN : r # q => (EndIsOpen(r, u)' <=> EndIsOpen(r, u))
      /\ pipe' \in [Pipes -> [readopen : BOOLEAN, writeopen : BOOLEAN]]
  BY <1>5 DEF EndIsOpen, NoPipe
<1>7. ASSUME NEW r \in Pipes, NEW u \in BOOLEAN
      PROVE  Owners(file', ff', End(r, u)) = IF EndIsOpen(r, u)' THEN 1 ELSE 0
  <2>1. Owners(file, ff, End(r, u)) = IF EndIsOpen(r, u) THEN 1 ELSE 0
    BY ZenonT(40) DEF Ends
  <2>2. CASE r = q
    <3>1. End(r, u) = c \/ End(r, u) = d
      BY <2>2, ZenonT(40)
    <3>2. Owners(file', ff', End(r, u)) = Owners(file, ff, End(r, u)) + 1
      BY ZenonT(40), <1>1, <1>4, <3>1
    <3>3. Owners(file, ff, End(r, u)) = 0 /\ EndIsOpen(r, u)'
      BY ZenonT(40), <1>6, <2>1, <2>2
    <3>4. 0 + 1 = 1
      OBVIOUS
    <3> QED BY ZenonT(40), <3>2, <3>3, <3>4
  <2>3. CASE r # q
    <3>1. Owners(file', ff', End(r, u)) = Owners(file, ff, End(r, u))
      BY ZenonT(40), <1>3, <1>4, <2>3
    <3> QED BY ZenonT(40), <1>6, <2>1, <2>3, <3>1
  <2> QED BY ZenonT(40), <2>2, <2>3
<1>8. Inodes'
  <2>1. \A i, u : Owners(file', ff', Inode(i, u)) = Owners(file, ff, Inode(i, u))
    BY ZenonT(40), <1>2, <1>4
  <2> QED BY ZenonT(40), <2>1 DEF Inodes
<1>9. Ends'
  BY <1>7, ZenonT(40) DEF Ends
<1> QED BY ZenonT(40), <1>6, <1>8, <1>9

-----------------------------------------------------------------------------
(* Steps of one process *)

(* The places of a process are its own. *)
LEMMA Places ==
  /\ \A p \in Procs, d \in Fds : <<p, d>> \in FdPlaces
  /\ \A p \in Procs : <<p, 0>> \in Slots /\ <<p, 1>> \in Slots
  /\ \A s \in FdPlaces : \E p \in Procs, d \in Fds : s = <<p, d>>
  /\ \A s \in Slots : \E p \in Procs, k \in {0, 1} : s = <<p, k>>
  /\ \A p, q, d, e : <<p, d>> = <<q, e>> => p = q /\ d = e
  /\ \A p : <<p, 0>> # <<p, 1>>
BY DEF FdPlaces, Slots

(* An assignment keeps the type of a table. *)
LEMMA Upd ==
  ASSUME NEW S, NEW T, NEW g \in [S -> T], NEW x, NEW y \in T
  PROVE  [g EXCEPT ![x] = y] \in [S -> T]
BY ZenonT(40)

(* Nothing names a file that filealloc() finds. *)
LEMMA FreeNobody ==
  ASSUME Types, Counted, NEW f \in Files, ref[f] = 0
  PROVE  /\ \A s \in FdPlaces : ofile[s] # f
         /\ \A s \in Slots : tmp[s] # f
<1> SUFFICES ASSUME \/ \E s \in FdPlaces : ofile[s] = f
                    \/ \E s \in Slots : tmp[s] = f
             PROVE  FALSE
  BY ZenonT(40)
<1>1. ref[f] \in Nat /\ ref[f] >= 1
  BY ZenonT(40), Held
<1> QED BY <1>1

(* The names that a step of p may put somewhere: of no file, of a free one, *)
(* of one with a descriptor, or of one of its own.                          *)
Old(g, p) ==
  \/ g = NoFile
  \/ g \in Files /\ ref[g] = 0
  \/ \E s \in FdPlaces : ofile[s] = g
  \/ g = tmp[<<p, 0>>] \/ g = tmp[<<p, 1>>]

(* Which these are. *)
LEMMA OldNames ==
  ASSUME NEW p
  PROVE  /\ Old(NoFile, p) /\ Old(tmp[<<p, 0>>], p) /\ Old(tmp[<<p, 1>>], p)
         /\ \A s \in FdPlaces : Old(ofile[s], p)
         /\ \A f \in Files : ref[f] = 0 => Old(f, p)
<1>1. Old(NoFile, p) /\ Old(tmp[<<p, 0>>], p) /\ Old(tmp[<<p, 1>>], p)
  BY DEF Old
<1>2. ASSUME NEW s \in FdPlaces PROVE Old(ofile[s], p)
  BY ZenonT(40) DEF Old
<1>3. ASSUME NEW f \in Files, ref[f] = 0 PROVE Old(f, p)
  BY ZenonT(40), <1>3 DEF Old
<1> QED BY ZenonT(40), <1>1, <1>2, <1>3

(* None of them is the file that another process has just allocated. *)
LEMMA NotFresh ==
  ASSUME Types, Counted, NEW p \in Procs, NEW q \in Procs, q # p, Fresh(q), NEW g, Old(g, p)
  PROVE  tmp[<<q, 0>>] # g
<1>1. /\ tmp[<<q, 0>>] \in Files
      /\ \A s \in FdPlaces : ofile[s] # tmp[<<q, 0>>]
      /\ \A s \in Slots : tmp[s] = tmp[<<q, 0>>] => s = <<q, 0>>
  BY ZenonT(40) DEF Fresh
<1>2. CASE g = NoFile
  BY ZenonT(40), <1>1, <1>2, NotNull
<1>3. CASE g \in Files /\ ref[g] = 0
  BY ZenonT(40), <1>3, FreeNobody, Places
<1>4. CASE \E s \in FdPlaces : ofile[s] = g
  BY ZenonT(40), <1>1, <1>4
<1>5. CASE g = tmp[<<p, 0>>] \/ g = tmp[<<p, 1>>]
  BY ZenonT(40), <1>1, <1>5, Places
<1> QED BY ZenonT(40), <1>2, <1>3, <1>4, <1>5 DEF Old

(* What a step of p leaves to the others, *)
Same(q) ==
  /\ pc'[q] = pc[q] /\ ret'[q] = ret[q] /\ ff'[q] = ff[q] /\ ip'[q] = ip[q]
  /\ child'[q] = child[q] /\ fd'[q] = fd[q]
  /\ tmp'[<<q, 0>>] = tmp[<<q, 0>>] /\ tmp'[<<q, 1>>] = tmp[<<q, 1>>]
  /\ \A d \in Fds : ofile'[<<q, d>>] = ofile[<<q, d>>]

(* what it may write, *)
Writes(p) ==
  /\ \A s \in FdPlaces : ofile'[s] = ofile[s] \/ Old(ofile'[s], p)
  /\ \A s \in Slots : tmp'[s] = tmp[s] \/ Old(tmp'[s], p)
  /\ \A f \in Files : file'[f] = file[f] \/ file'[f] = None \/ Old(f, p)

(* and the steps that fork() has no part in. *)
Alone(p) ==
  /\ pc[p] \notin {"embryo", "fork"} /\ pc'[p] # "fork"
  /\ \A q \in Procs : q # p => Same(q)
  /\ Writes(p)

(* What is to be shown of the process itself. *)
Own(p) ==
  /\ pc[p] = "pipe" => Fresh(p)
  /\ InCall(p) /\ Unused(p) /\ Exiting(p)

(* Another process keeps the file that it has just allocated. *)
LEMMA FreshKept ==
  ASSUME Types, Counted, NEW p \in Procs, NEW q \in Procs, q # p, Fresh(q), Writes(p),
         ret'[q] = ret[q], tmp'[<<q, 0>>] = tmp[<<q, 0>>], tmp'[<<q, 1>>] = tmp[<<q, 1>>]
  PROVE  Fresh(q)'
<1> DEFINE f == tmp[<<q, 0>>]
<1>1. /\ f \in Files /\ file[f] = None /\ tmp[<<q, 1>>] = NoFile /\ ret[q] = "user"
      /\ \A s \in FdPlaces : ofile[s] # f
      /\ \A s \in Slots : tmp[s] = f => s = <<q, 0>>
  BY ZenonT(40) DEF Fresh
<1>2. \A g : Old(g, p) => f # g
  BY ZenonT(40), NotFresh
<1> HIDE DEF f
<1>3. file'[f] = None
  BY ZenonT(40), <1>1, <1>2 DEF Writes
<1>4. \A s \in FdPlaces : ofile'[s] # f
  BY ZenonT(40), <1>1, <1>2 DEF Writes
<1>5. \A s \in Slots : tmp'[s] = f => s = <<q, 0>>
  BY ZenonT(40), <1>1, <1>2 DEF Writes
<1>6. tmp'[<<q, 0>>] = f
  BY ZenonT(40) DEF f
<1> QED BY ZenonT(40), <1>1, <1>3, <1>4, <1>5, <1>6 DEF Fresh

(* Other processes stay where they are. *)
LEMMA InCallKept ==
  ASSUME NEW q \in Procs, InCall(q), Same(q)
  PROVE  InCall(q)'
BY ZenonT(40) DEF InCall, Same

(* The loops of exit() that other processes are in stay as they are. *)
LEMMA LoopsKept ==
  ASSUME NEW q \in Procs, Unused(q), Exiting(q), Same(q)
  PROVE  Unused(q)' /\ Exiting(q)'
<1>1. Unused(q)'
  BY ZenonT(40) DEF Unused, Same
<1>2. Exiting(q)'
  BY ZenonT(40) DEF Exiting, Same
<1> QED BY ZenonT(40), <1>1, <1>2

(* So do the loops of fork(). *)
LEMMA ForkingKept ==
  ASSUME Types, Loops, NEW p \in Procs, NEW q \in Procs, q # p, Alone(p)
  PROVE  Forking(q)'
<1> SUFFICES ASSUME pc'[q] = "fork"
             PROVE  /\ pc'[child'[q]] = "embryo"
                    /\ \A r \in Procs : pc'[r] = "fork" /\ child'[r] = child'[q] => r = q
                    /\ \A d \in Fds : d >= fd'[q] => ofile'[<<child'[q], d>>] = NoFile
  BY ZenonT(40) DEF Forking
<1>1. pc[q] = "fork" /\ child'[q] = child[q] /\ fd'[q] = fd[q] /\ child[q] \in Procs
  BY ZenonT(40) DEF Alone, Same, Types
<1>2. /\ pc[child[q]] = "embryo"
      /\ \A r \in Procs : pc[r] = "fork" /\ child[r] = child[q] => r = q
      /\ \A d \in Fds : d >= fd[q] => ofile[<<child[q], d>>] = NoFile
  BY ZenonT(40), <1>1 DEF Loops, Forking
<1>3. child[q] # p
  BY ZenonT(40), <1>2 DEF Alone
<1>4. Same(child[q])
  BY ZenonT(40), <1>1, <1>3 DEF Alone
<1>5. pc'[child'[q]] = "embryo"
  BY ZenonT(40), <1>1, <1>2, <1>4 DEF Same
<1>6. \A d \in Fds : d >= fd'[q] => ofile'[<<child'[q], d>>] = NoFile
  BY ZenonT(40), <1>1, <1>2, <1>4 DEF Same
<1>7. ASSUME NEW r \in Procs, pc'[r] = "fork", child'[r] = child'[q] PROVE r = q
  <2>1. r # p /\ Same(r)
    BY ZenonT(40), <1>7 DEF Alone
  <2> QED BY ZenonT(40), <1>1, <1>2, <1>7, <2>1 DEF Same
<1> QED BY ZenonT(40), <1>5, <1>6, <1>7

(* A step that changes nothing of others keeps what was true of them. *)
LEMMA AloneKeeps ==
  ASSUME IInv, NEW p \in Procs, Alone(p), Own(p)'
  PROVE  Calls' /\ Loops'
<1>1. Types /\ Counted /\ Calls /\ Loops
  BY ZenonT(40) DEF IInv
<1>2. ASSUME NEW q \in Procs
      PROVE  (pc'[q] = "pipe" => Fresh(q)') /\ InCall(q)' /\ Unused(q)' /\ Exiting(q)'
  <2>1. CASE q = p
    BY ZenonT(40), <2>1 DEF Own
  <2>2. CASE q # p
    <3>1. Same(q) /\ Writes(p)
      BY ZenonT(40), <2>2 DEF Alone
    <3>2. InCall(q) /\ Unused(q) /\ Exiting(q) /\ (pc[q] = "pipe" => Fresh(q))
      BY ZenonT(40), <1>1 DEF Calls, Loops
    <3>3. InCall(q)' /\ Unused(q)' /\ Exiting(q)'
      BY ZenonT(40), <3>1, <3>2, InCallKept, LoopsKept
    <3>4. ASSUME pc'[q] = "pipe" PROVE Fresh(q)'
      <4>1. /\ pc[q] = "pipe" /\ ret'[q] = ret[q]
            /\ tmp'[<<q, 0>>] = tmp[<<q, 0>>] /\ tmp'[<<q, 1>>] = tmp[<<q, 1>>]
        BY ZenonT(40), <3>1, <3>4 DEF Same
      <4> QED BY ZenonT(40), <1>1, <2>2, <3>1, <3>2, <4>1, FreshKept
    <3> QED BY ZenonT(40), <3>3, <3>4
  <2> QED BY ZenonT(40), <2>1, <2>2
<1>3. ASSUME NEW q \in Procs PROVE Forking(q)'
  <2>1. CASE q = p
    BY ZenonT(40), <2>1 DEF Forking, Alone
  <2>2. CASE q # p
    BY ZenonT(40), <1>1, <2>2, ForkingKept
  <2> QED BY ZenonT(40), <2>1, <2>2
<1>4. Calls'
  BY ZenonT(40), <1>2 DEF Calls
<1>5. Loops'
  BY ZenonT(40), <1>2, <1>3 DEF Loops
<1> QED BY ZenonT(40), <1>4, <1>5

(* The descriptors that a loop has not reached, and those it has passed. *)
LEMMA FdLoop ==
  /\ \A d \in Fds : ~(d < 0) /\ d < NOFILE /\ d \in 0 .. NOFILE
  /\ 0 \in 0 .. NOFILE
  /\ \A e \in 0 .. NOFILE :
       /\ e < NOFILE => e \in Fds /\ e + 1 \in 0 .. NOFILE
       /\ \A d \in Fds : /\ d < e + 1 => d < e \/ d = e
                         /\ d >= e + 1 => d >= e /\ d # e
BY FileTableAssumption DEF Fds

(* A process that is in none of the calls with locals holds nothing. *)
Idle(p) == tmp[<<p, 0>>] = NoFile /\ tmp[<<p, 1>>] = NoFile /\ ff[p] = None /\ ip[p] = 0

(* Which these calls are. *)
LEMMA IdleInCall ==
  ASSUME IInv, NEW p \in Procs,
         pc[p] \notin {"open", "iput", "fileclose", "letgo", "pipe"}
  PROVE  Idle(p)
BY ZenonT(40) DEF IInv, Calls, InCall, Idle

(* That is all there is to show of a process in user space. *)
LEMMA IdleOwn ==
  ASSUME NEW p \in Procs, Idle(p)', pc'[p] = "user"
  PROVE  Own(p)'
BY ZenonT(40) DEF Own, Idle, InCall, Unused, Exiting

(* exit() begins. *)
LEMMA ExitStep ==
  ASSUME IInv, NEW p \in Procs, Exit(p)
  PROVE  IInv'
<1>1. Types /\ Counted /\ Ends /\ Inodes /\ FreeAreNone /\ pc[p] = "user"
  BY ZenonT(40) DEF IInv, Exit
<1>2. Idle(p)
  BY ZenonT(40), <1>1, IdleInCall
<1>3. Types'
  <2>1. pc' \in [Procs -> Pcs] /\ fd' \in [Procs -> 0 .. NOFILE]
    BY ZenonT(40), <1>1, Upd, FdLoop DEF Types, Exit, Goto, Pcs
  <2> QED BY ZenonT(40), <1>1, <2>1 DEF Types, Exit
<1>4. Counted' /\ FreeAreNone'
  BY ZenonT(40), <1>1 DEF Counted, FreeAreNone, Exit
<1>5. Ends' /\ Inodes'
  BY ZenonT(40), <1>1, SameLedgers DEF Exit
<1>6. pc'[p] = "exit" /\ fd'[p] = 0
  BY ZenonT(40), <1>1 DEF Types, Exit, Goto
<1>7. Alone(p)
  BY ZenonT(40), <1>1, <1>6 DEF Alone, Same, Writes, Types, Exit, Goto
<1>8. Own(p)'
  <2>1. InCall(p)'
    BY ZenonT(40), <1>2, <1>6 DEF InCall, Idle, Exit
  <2>2. Exiting(p)'
    BY ZenonT(40), <1>6, FdLoop DEF Exiting
  <2> QED BY ZenonT(40), <1>6, <2>1, <2>2 DEF Own, Unused
<1> QED BY ZenonT(40), <1>3, <1>4, <1>5, <1>7, <1>8, AloneKeeps DEF IInv

(* exit() is through. *)
LEMMA ExitedStep ==
  ASSUME IInv, NEW p \in Procs, Exited(p)
  PROVE  IInv'
<1>1. Types /\ Counted /\ Ends /\ Inodes /\ FreeAreNone /\ pc[p] = "exit" /\ fd[p] = NOFILE
  BY ZenonT(40) DEF IInv, Exited
<1>2. Idle(p)
  BY ZenonT(40), <1>1, IdleInCall
<1>3. Types'
  <2>1. pc' \in [Procs -> Pcs] /\ fd' \in [Procs -> 0 .. NOFILE]
    BY ZenonT(40), <1>1, Upd, FdLoop DEF Types, Exited, Goto, Pcs
  <2> QED BY ZenonT(40), <1>1, <2>1 DEF Types, Exited
<1>4. Counted' /\ FreeAreNone'
  BY ZenonT(40), <1>1 DEF Counted, FreeAreNone, Exited
<1>5. Ends' /\ Inodes'
  BY ZenonT(40), <1>1, SameLedgers DEF Exited
<1>6. pc'[p] = "unused"
  BY ZenonT(40), <1>1 DEF Types, Exited, Goto
<1>7. Alone(p)
  BY ZenonT(40), <1>1, <1>6 DEF Alone, Same, Writes, Types, Exited, Goto
<1>8. Own(p)'
  <2>1. InCall(p)'
    BY ZenonT(40), <1>2, <1>6 DEF InCall, Idle, Exited
  <2>2. \A d \in Fds : ofile[<<p, d>>] = NoFile
    BY ZenonT(40), <1>1, FdLoop DEF IInv, Loops, Exiting
  <2>3. Unused(p)'
    BY ZenonT(40), <2>2 DEF Unused, Exited
  <2> QED BY ZenonT(40), <1>6, <2>1, <2>3 DEF Own, Exiting
<1> QED BY ZenonT(40), <1>3, <1>4, <1>5, <1>7, <1>8, AloneKeeps DEF IInv

(* open() has an inode. *)
LEMMA OpenStep ==
  ASSUME IInv, NEW p \in Procs, NEW i \in Inums, Open(p, i)
  PROVE  IInv'
<1>1. Types /\ Tables /\ Counted /\ Ends /\ Inodes /\ FreeAreNone /\ pc[p] = "user"
  BY ZenonT(40), TypesTables DEF IInv, Open
<1>2. Idle(p)
  BY ZenonT(40), <1>1, IdleInCall
<1>3. Ends' /\ Inodes' /\ iref' \in [Inums -> Nat]
  BY ZenonT(40), <1>1, <1>2, OpenLedgers DEF Open, Idle
<1>4. Types'
  <2>1. pc' \in [Procs -> Pcs] /\ ip' \in [Procs -> Inums \cup {0}]
    BY ZenonT(40), <1>1, Upd DEF Types, Open, Goto, Pcs
  <2> QED BY ZenonT(40), <1>1, <1>3, <2>1 DEF Types, Open
<1>5. Counted' /\ FreeAreNone'
  BY ZenonT(40), <1>1 DEF Counted, FreeAreNone, Open
<1>6. pc'[p] = "open" /\ ip'[p] = i /\ i # 0
  BY ZenonT(40), <1>1, FileTableAssumption DEF Types, Open, Goto
<1>7. Alone(p)
  BY ZenonT(40), <1>1, <1>6 DEF Alone, Same, Writes, Types, Open, Goto
<1>8. Own(p)'
  <2>1. InCall(p)'
    BY ZenonT(40), <1>2, <1>6 DEF InCall, Idle, Open
  <2> QED BY ZenonT(40), <1>6, <2>1 DEF Own, Unused, Exiting
<1> QED BY ZenonT(40), <1>3, <1>4, <1>5, <1>7, <1>8, AloneKeeps DEF IInv

(* open() puts the inode back. *)
LEMMA OpenIputStep ==
  ASSUME IInv, NEW p \in Procs, OpenIput(p)
  PROVE  IInv'
<1>1. Types /\ Tables /\ Counted /\ Ends /\ Inodes /\ FreeAreNone /\ pc[p] \in {"open", "iput"}
  BY ZenonT(40), TypesTables DEF IInv, OpenIput
<1>2. /\ tmp[<<p, 0>>] = NoFile /\ tmp[<<p, 1>>] = NoFile /\ ff[p] = None
      /\ ip[p] # 0 /\ ip[p] \in Inums
  BY ZenonT(40), <1>1 DEF IInv, Calls, InCall, Tables
<1>3. Ends' /\ Inodes' /\ iref' \in [Inums -> Nat]
  BY ZenonT(40), <1>1, <1>2, IputLedgers DEF OpenIput
<1>4. Types'
  <2>1. pc' \in [Procs -> Pcs] /\ ip' \in [Procs -> Inums \cup {0}]
    BY ZenonT(40), <1>1, Upd DEF Types, OpenIput, Goto, Pcs
  <2> QED BY ZenonT(40), <1>1, <1>3, <2>1 DEF Types, OpenIput
<1>5. Counted' /\ FreeAreNone'
  BY ZenonT(40), <1>1 DEF Counted, FreeAreNone, OpenIput
<1>6. pc'[p] = "user" /\ ip'[p] = 0
  BY ZenonT(40), <1>1 DEF Types, OpenIput, Goto
<1>7. Alone(p)
  BY ZenonT(40), <1>1, <1>6 DEF Alone, Same, Writes, Types, OpenIput, Goto
<1>8. Own(p)'
  BY ZenonT(40), <1>2, <1>6, IdleOwn DEF Idle, OpenIput
<1> QED BY ZenonT(40), <1>3, <1>4, <1>5, <1>7, <1>8, AloneKeeps DEF IInv

(* What a file can stand for. *)
LEMMA ContentsAre ==
  /\ \A i \in Inums, w \in BOOLEAN : Inode(i, w) \in Contents
  /\ \A q \in Pipes, w \in BOOLEAN : End(q, w) \in Contents
  /\ None \in Contents
  /\ \A c \in Contents : \/ c = None
                         \/ \E i \in Inums, w \in BOOLEAN : c = Inode(i, w)
                         \/ \E q \in Pipes, w \in BOOLEAN : c = End(q, w)
BY DEF Contents

(* filealloc() counts the first reference. *)
LEMMA Allocated ==
  ASSUME Types, FreeAreNone, NEW f \in Files, ref[f] = 0, ref' = [ref EXCEPT ![f] = 1]
  PROVE  /\ ref' = [ref EXCEPT ![f] = @ + 1] /\ ref' \in [Files -> Nat]
         /\ file[f] = None
         /\ \A g \in Files : ref'[g] = 0 => g # f /\ ref[g] = 0
<1>1. ref \in [Files -> Nat]
  BY ZenonT(40) DEF Types
<1>2. 0 + 1 = 1 /\ 1 \in Nat /\ 1 # 0
  OBVIOUS
<1>3. ref' \in [Files -> Nat]
  BY ZenonT(40), <1>1, <1>2, Upd
<1>4. ref' = [ref EXCEPT ![f] = @ + 1]
  BY ZenonT(40), <1>2
<1>5. \A g \in Files : ref'[g] = 0 => g # f /\ ref[g] = 0
  BY ZenonT(40), <1>1, <1>2
<1> QED BY ZenonT(40), <1>3, <1>4, <1>5 DEF FreeAreNone

(* filedup() counts one reference more, and does not panic. *)
LEMMA Filedup ==
  ASSUME Types, Counted, NEW s \in FdPlaces, ofile[s] # NoFile, filedup(ofile[s])
  PROVE  /\ ofile[s] \in Files /\ panic' = "no"
         /\ ref' = [ref EXCEPT ![ofile[s]] = @ + 1] /\ ref' \in [Files -> Nat]
         /\ \A g \in Files : ref'[g] = 0 => ref[g] = 0
<1> DEFINE f == ofile[s]
<1>1. f \in Files
  BY ZenonT(40) DEF Types, FilePtr
<1>2. ref[f] \in Nat /\ ref[f] >= 1
  BY ZenonT(40), <1>1, Held
<1>3. ~(ref[f] < 1) /\ ref[f] + 1 \in Nat /\ ref[f] + 1 # 0
  BY <1>2
<1>4. ref \in [Files -> Nat] /\ panic = "no"
  BY ZenonT(40) DEF Types
<1>5. panic' = "no" /\ ref' = [ref EXCEPT ![f] = @ + 1]
  BY ZenonT(40), <1>3, <1>4 DEF filedup
<1>6. ref' \in [Files -> Nat]
  BY ZenonT(40), <1>3, <1>4, <1>5, Upd
<1>7. \A g \in Files : ref'[g] = 0 => ref[g] = 0
  BY ZenonT(40), <1>3, <1>4, <1>5
<1> QED BY ZenonT(40), <1>1, <1>5, <1>6, <1>7

(* open() has a file and a descriptor. *)
LEMMA OpenFileStep ==
  ASSUME IInv, NEW p \in Procs, OpenFile(p)
  PROVE  IInv'
<1>1. Types /\ Tables /\ Counted /\ Ends /\ Inodes /\ FreeAreNone /\ pc[p] = "open"
  BY ZenonT(40), TypesTables DEF IInv, OpenFile
<1>2. /\ tmp[<<p, 0>>] = NoFile /\ tmp[<<p, 1>>] = NoFile /\ ff[p] = None
      /\ ip[p] # 0 /\ ip[p] \in Inums
  BY ZenonT(40), <1>1 DEF IInv, Calls, InCall, Tables
<1>3. PICK f \in Files, d \in Fds, w \in BOOLEAN :
        /\ ref[f] = 0 /\ ofile[<<p, d>>] = NoFile
        /\ ref' = [ref EXCEPT ![f] = 1]
        /\ file' = [file EXCEPT ![f] = Inode(ip[p], w)]
        /\ ofile' = [ofile EXCEPT ![<<p, d>>] = f]
  BY ZenonT(40) DEF OpenFile, First, FreeFiles, FreeFds
<1>4. /\ ref' = [ref EXCEPT ![f] = @ + 1] /\ ref' \in [Files -> Nat] /\ file[f] = None
      /\ \A g \in Files : ref'[g] = 0 => g # f /\ ref[g] = 0
  BY ZenonT(40), <1>1, <1>3, Allocated
<1>5. <<p, d>> \in FdPlaces
  BY ZenonT(40), Places
<1>6. Counted'
  BY ZenonT(40), <1>1, <1>3, <1>4, <1>5, TakeFd DEF OpenFile
<1>7. Ends' /\ Inodes'
  BY ZenonT(40), <1>1, <1>2, <1>3, <1>4, OpenFileLedgers DEF OpenFile
<1>8. Types'
  <2>1. pc' \in [Procs -> Pcs] /\ ip' \in [Procs -> Inums \cup {0}]
    BY ZenonT(40), <1>1, Upd DEF Types, OpenFile, Goto, Pcs
  <2>2. Inode(ip[p], w) \in Contents /\ f \in FilePtr
    BY ZenonT(40), <1>2, ContentsAre DEF FilePtr
  <2>3. file' \in [Files -> Contents] /\ ofile' \in [FdPlaces -> FilePtr]
    BY ZenonT(40), <1>1, <1>3, <2>2, Upd DEF Types
  <2> QED BY ZenonT(40), <1>1, <1>4, <2>1, <2>3 DEF Types, OpenFile
<1>9. FreeAreNone'
  BY ZenonT(40), <1>1, <1>3, <1>4 DEF FreeAreNone, Tables
<1>10. pc'[p] = "user" /\ ip'[p] = 0
  BY ZenonT(40), <1>1 DEF Types, OpenFile, Goto
<1>11. Alone(p)
  <2>1. \A q \in Procs : q # p => Same(q)
    BY ZenonT(40), <1>1, <1>3, Places DEF Same, Types, OpenFile, Goto
  <2>2. Writes(p)
    BY ZenonT(40), <1>1, <1>3, <1>5 DEF Writes, Old, Types, OpenFile
  <2> QED BY ZenonT(40), <1>1, <1>10, <2>1, <2>2 DEF Alone
<1>12. Own(p)'
  BY ZenonT(40), <1>2, <1>10, IdleOwn DEF Idle, OpenFile
<1> QED BY ZenonT(40), <1>6, <1>7, <1>8, <1>9, <1>11, <1>12, AloneKeeps DEF IInv

(* open() has a file and no descriptor. *)
LEMMA OpenCloseStep ==
  ASSUME IInv, NEW p \in Procs, OpenClose(p)
  PROVE  IInv'
<1>1. Types /\ Counted /\ Ends /\ Inodes /\ FreeAreNone /\ pc[p] = "open"
  BY ZenonT(40) DEF IInv, OpenClose
<1>2. tmp[<<p, 0>>] = NoFile /\ tmp[<<p, 1>>] = NoFile /\ ff[p] = None /\ ip[p] # 0
  BY ZenonT(40), <1>1 DEF IInv, Calls, InCall
<1>3. PICK f \in Files :
        /\ ref[f] = 0 /\ ref' = [ref EXCEPT ![f] = 1]
        /\ tmp' = [tmp EXCEPT ![<<p, 0>>] = f]
  BY ZenonT(40) DEF OpenClose, First, FreeFiles
<1>4. /\ ref' = [ref EXCEPT ![f] = @ + 1] /\ ref' \in [Files -> Nat]
      /\ \A g \in Files : ref'[g] = 0 => g # f /\ ref[g] = 0
  BY ZenonT(40), <1>1, <1>3, Allocated
<1>5. <<p, 0>> \in Slots /\ <<p, 1>> \in Slots /\ <<p, 0>> # <<p, 1>>
  BY ZenonT(40), Places
<1>6. Counted'
  BY ZenonT(40), <1>1, <1>2, <1>3, <1>4, <1>5, TakeLocal DEF OpenClose
<1>7. Ends' /\ Inodes'
  BY ZenonT(40), <1>1, SameLedgers DEF OpenClose
<1>8. Types'
  <2>1. pc' \in [Procs -> Pcs] /\ ret' \in [Procs -> {"user", "iput", "exit"}]
    BY ZenonT(40), <1>1, Upd DEF Types, OpenClose, Goto, Pcs
  <2>2. tmp' \in [Slots -> FilePtr]
    BY ZenonT(40), <1>1, <1>3, Upd DEF Types, FilePtr
  <2> QED BY ZenonT(40), <1>1, <1>4, <2>1, <2>2 DEF Types, OpenClose
<1>9. FreeAreNone'
  BY ZenonT(40), <1>1, <1>4 DEF FreeAreNone, OpenClose
<1>10. pc'[p] = "fileclose" /\ ret'[p] = "iput"
  BY ZenonT(40), <1>1 DEF Types, OpenClose, Goto
<1>11. Alone(p)
  <2>1. \A q \in Procs : q # p => Same(q)
    BY ZenonT(40), <1>1, <1>3, Places DEF Same, Types, OpenClose, Goto
  <2>2. Writes(p)
    BY ZenonT(40), <1>1, <1>3, <1>5 DEF Writes, Old, Types, OpenClose
  <2> QED BY ZenonT(40), <1>1, <1>10, <2>1, <2>2 DEF Alone
<1>12. Own(p)'
  <2>1. InCall(p)'
    BY ZenonT(40), <1>2, <1>10 DEF InCall, OpenClose
  <2> QED BY ZenonT(40), <1>10, <2>1 DEF Own, Unused, Exiting
<1> QED BY ZenonT(40), <1>6, <1>7, <1>8, <1>9, <1>11, <1>12, AloneKeeps DEF IInv

(* dup() *)
LEMMA DupStep ==
  ASSUME IInv, NEW p \in Procs, NEW d \in Fds, Dup(p, d)
  PROVE  IInv'
<1>1. Types /\ Counted /\ Ends /\ Inodes /\ FreeAreNone /\ pc[p] = "user"
  BY ZenonT(40) DEF IInv, Dup
<1>2. Idle(p)
  BY ZenonT(40), <1>1, IdleInCall
<1> DEFINE f == ofile[<<p, d>>]
<1>3. PICK e \in Fds : /\ ofile[<<p, e>>] = NoFile
                       /\ ofile' = [ofile EXCEPT ![<<p, e>>] = f]
  BY ZenonT(40) DEF Dup, First, FreeFds
<1>4. <<p, d>> \in FdPlaces /\ <<p, e>> \in FdPlaces
  BY ZenonT(40), Places
<1>5. /\ f \in Files /\ panic' = "no"
      /\ ref' = [ref EXCEPT ![f] = @ + 1] /\ ref' \in [Files -> Nat]
      /\ \A g \in Files : ref'[g] = 0 => ref[g] = 0
  BY ZenonT(40), <1>1, <1>4, Filedup DEF Dup
<1>6. Old(f, p)
  BY ZenonT(40), <1>4 DEF Old
<1> HIDE DEF f
<1>7. UNCHANGED <<file, pipe, iref, pc, ret, tmp, ff, ip, child, fd>>
  BY ZenonT(40) DEF Dup, locals
<1>8. Counted'
  BY ZenonT(40), <1>1, <1>3, <1>4, <1>5, <1>7, TakeFd
<1>9. Ends' /\ Inodes'
  BY ZenonT(40), <1>1, <1>7, SameLedgers
<1>10. Types'
  <2>1. ofile' \in [FdPlaces -> FilePtr]
    BY ZenonT(40), <1>1, <1>3, <1>5, Upd DEF Types, FilePtr
  <2> QED BY ZenonT(40), <1>1, <1>5, <1>7, <2>1 DEF Types
<1>11. FreeAreNone'
  BY ZenonT(40), <1>1, <1>5, <1>7 DEF FreeAreNone
<1>12. Alone(p)
  <2>1. \A q \in Procs : q # p => Same(q)
    BY ZenonT(40), <1>1, <1>3, <1>7, Places DEF Same, Types
  <2>2. Writes(p)
    BY ZenonT(40), <1>1, <1>3, <1>6, <1>7 DEF Writes, Types
  <2> QED BY ZenonT(40), <1>1, <1>7, <2>1, <2>2 DEF Alone
<1>13. Own(p)'
  BY ZenonT(40), <1>1, <1>2, <1>7, IdleOwn DEF Idle
<1> QED BY ZenonT(40), <1>8, <1>9, <1>10, <1>11, <1>12, <1>13, AloneKeeps DEF IInv

(* A descriptor is passed to fileclose(), by close() or exit(). *)
LEMMA CloseFdStep ==
  ASSUME IInv, NEW p \in Procs, pc[p] \in {"user", "exit"}, NEW d \in Fds,
         ofile[<<p, d>>] # NoFile, NEW l \in {"user", "exit"}, CloseFd(p, d, l),
         UNCHANGED <<ref, file, pipe, iref, panic, ff, ip, child>>,
         fd' \in [Procs -> 0 .. NOFILE], \A q \in Procs : q # p => fd'[q] = fd[q],
         l = "exit" => \A e \in Fds : e < fd'[p] => ofile'[<<p, e>>] = NoFile
  PROVE  IInv'
<1>1. Types /\ Counted /\ Ends /\ Inodes /\ FreeAreNone
  BY ZenonT(40) DEF IInv
<1>2. Idle(p)
  BY ZenonT(40), IdleInCall
<1> DEFINE f == ofile[<<p, d>>]
<1>3. /\ <<p, d>> \in FdPlaces /\ <<p, 0>> \in Slots /\ <<p, 1>> \in Slots
      /\ <<p, 0>> # <<p, 1>>
  BY ZenonT(40), Places
<1>4. f \in FilePtr /\ Old(f, p) /\ Old(NoFile, p)
  BY ZenonT(40), <1>1, <1>3, OldNames DEF Types
<1>5. Counted'
  BY ZenonT(40), <1>1, <1>2, <1>3, PassOn DEF CloseFd, Idle
<1>6. /\ ofile' = [ofile EXCEPT ![<<p, d>>] = NoFile]
      /\ tmp' = [tmp EXCEPT ![<<p, 0>>] = f]
      /\ ret' = [ret EXCEPT ![p] = l] /\ pc' = [pc EXCEPT ![p] = "fileclose"]
  BY ZenonT(40) DEF CloseFd, Goto
<1> HIDE DEF f
<1>7. Ends' /\ Inodes'
  BY ZenonT(40), <1>1, SameLedgers
<1>8. Types'
  <2>1. pc' \in [Procs -> Pcs] /\ ret' \in [Procs -> {"user", "iput", "exit"}]
    BY ZenonT(40), <1>1, <1>6, Upd DEF Types, Pcs
  <2>2. ofile' \in [FdPlaces -> FilePtr] /\ tmp' \in [Slots -> FilePtr]
    BY ZenonT(40), <1>1, <1>4, <1>6, Upd DEF Types, FilePtr
  <2> QED BY ZenonT(40), <1>1, <2>1, <2>2 DEF Types
<1>9. FreeAreNone'
  BY ZenonT(40), <1>1 DEF FreeAreNone
<1>10. pc'[p] = "fileclose" /\ ret'[p] = l
  BY ZenonT(40), <1>1, <1>6 DEF Types
<1>11. Alone(p)
  <2>1. \A q \in Procs : q # p => Same(q)
    BY ZenonT(40), <1>1, <1>6, Places DEF Same, Types
  <2>2. Writes(p)
    BY ZenonT(40), <1>1, <1>4, <1>6 DEF Writes, Types
  <2> QED BY ZenonT(40), <1>1, <1>10, <2>1, <2>2 DEF Alone
<1>12. Own(p)'
  <2>1. InCall(p)'
    BY ZenonT(40), <1>2, <1>10 DEF InCall, Idle
  <2>2. Exiting(p)'
    BY ZenonT(40), <1>10 DEF Exiting
  <2> QED BY ZenonT(40), <1>10, <2>1, <2>2 DEF Own, Unused
<1> QED BY ZenonT(40), <1>5, <1>7, <1>8, <1>9, <1>11, <1>12, AloneKeeps DEF IInv

(* close() *)
LEMMA CloseStep ==
  ASSUME IInv, NEW p \in Procs, NEW d \in Fds, Close(p, d)
  PROVE  IInv'
<1>1. /\ pc[p] = "user" /\ ofile[<<p, d>>] # NoFile /\ CloseFd(p, d, "user")
      /\ UNCHANGED <<ref, file, pipe, iref, panic, ff, ip, child, fd>>
  BY ZenonT(40) DEF Close
<1>2. fd' \in [Procs -> 0 .. NOFILE]
  BY ZenonT(40), <1>1 DEF IInv, Types
<1> QED BY ZenonT(40), <1>1, <1>2, CloseFdStep

(* A turn of the loop of exit(). *)
LEMMA ExitCloseStep ==
  ASSUME IInv, NEW p \in Procs, ExitClose(p)
  PROVE  IInv'
<1>1. Types /\ Counted /\ Ends /\ Inodes /\ FreeAreNone /\ pc[p] = "exit"
  BY ZenonT(40) DEF IInv, ExitClose
<1> DEFINE d == fd[p]
<1>2. d \in 0 .. NOFILE /\ d < NOFILE
  BY ZenonT(40), <1>1 DEF Types, ExitClose
<1>3. /\ d \in Fds /\ d + 1 \in 0 .. NOFILE
      /\ \A e \in Fds : e < d + 1 => e < d \/ e = d
  BY ZenonT(40), <1>2, FdLoop
<1>4. fd' = [fd EXCEPT ![p] = d + 1]
  BY ZenonT(40) DEF ExitClose
<1>5. \A e \in Fds : e < d => ofile[<<p, e>>] = NoFile
  BY ZenonT(40), <1>1 DEF IInv, Loops, Exiting
<1>6. /\ fd' \in [Procs -> 0 .. NOFILE] /\ fd'[p] = d + 1
      /\ \A q \in Procs : q # p => fd'[q] = fd[q]
  <2> HIDE DEF d
  <2> QED BY ZenonT(40), <1>1, <1>3, <1>4, Upd DEF Types
<1>7. CASE ofile[<<p, d>>] = NoFile
  <2>1. UNCHANGED <<ofile, tmp, ret, pc, ref, file, pipe, iref, panic, ff, ip, child>>
    BY ZenonT(40), <1>7 DEF ExitClose
  <2>2. Types'
    BY ZenonT(40), <1>1, <1>6, <2>1 DEF Types
  <2>3. Counted' /\ FreeAreNone'
    BY ZenonT(40), <1>1, <2>1 DEF Counted, FreeAreNone
  <2>4. Ends' /\ Inodes'
    BY ZenonT(40), <1>1, <2>1, SameLedgers
  <2>5. Alone(p)
    BY ZenonT(40), <1>1, <1>6, <2>1 DEF Alone, Same, Writes
  <2>6. Own(p)'
    <3>1. InCall(p)'
      BY ZenonT(40), <2>1 DEF IInv, Calls, InCall
    <3>2. \A e \in Fds : e < fd'[p] => ofile[<<p, e>>] = NoFile
      BY ZenonT(40), <1>3, <1>5, <1>6, <1>7
    <3>3. Exiting(p)'
      BY ZenonT(40), <2>1, <3>2 DEF Exiting
    <3> QED BY ZenonT(40), <1>1, <2>1, <3>1, <3>3 DEF Own, Unused
  <2> QED BY ZenonT(40), <2>2, <2>3, <2>4, <2>5, <2>6, AloneKeeps DEF IInv
<1>8. CASE ofile[<<p, d>>] # NoFile
  <2>1. /\ CloseFd(p, d, "exit")
        /\ UNCHANGED <<ref, file, pipe, iref, panic, ff, ip, child>>
    BY ZenonT(40), <1>8 DEF ExitClose
  <2>2. ofile' = [ofile EXCEPT ![<<p, d>>] = NoFile] /\ ofile \in [FdPlaces -> FilePtr]
    BY ZenonT(40), <1>1, <2>1 DEF CloseFd, Types
  <2> HIDE DEF d
  <2>3. \A e \in Fds : e < fd'[p] => ofile'[<<p, e>>] = NoFile
    BY ZenonT(40), <1>3, <1>5, <1>6, <2>2, Places
  <2> QED BY ZenonT(40), <1>1, <1>3, <1>6, <1>8, <2>1, <2>3, CloseFdStep
<1> QED BY ZenonT(40), <1>7, <1>8

(* Where a process goes after fileclose(). *)
LEMMA RestOwn ==
  ASSUME NEW p \in Procs, pc \in [Procs -> Pcs], ret \in [Procs -> {"user", "iput", "exit"}],
         pc[p] \in {"fileclose", "letgo"}, InCall(p), Exiting(p),
         CloseRest(p), ff'[p] = None, UNCHANGED <<ret, ip, fd, ofile>>
  PROVE  /\ Own(p)' /\ pc' \in [Procs -> Pcs] /\ pc'[p] \notin {"fork", "pipe"}
         /\ \A q \in Procs : q # p => pc'[q] = pc[q]
<1> DEFINE done == tmp'[<<p, 0>>] = NoFile /\ tmp'[<<p, 1>>] = NoFile
           l == IF done THEN ret[p] ELSE "fileclose"
<1>1. pc' = [pc EXCEPT ![p] = l]
  BY ZenonT(40) DEF CloseRest, Goto
<1>2. l \in {"user", "iput", "exit", "fileclose"}
  BY ZenonT(40)
<1>3. pc' \in [Procs -> Pcs] /\ pc'[p] = l /\ \A q \in Procs : q # p => pc'[q] = pc[q]
  <2> HIDE DEF l
  <2> QED BY ZenonT(40), <1>1, <1>2, Upd DEF Pcs
<1>4. ip[p] # 0 <=> ret[p] = "iput"
  BY ZenonT(40) DEF InCall
<1>5. InCall(p)'
  <2>1. CASE done
    BY ZenonT(40), <1>3, <1>4, <2>1 DEF InCall
  <2>2. CASE ~done
    BY ZenonT(40), <1>3, <1>4, <2>2 DEF InCall
  <2> QED BY ZenonT(40), <2>1, <2>2
<1>6. Exiting(p)'
  <2>1. CASE ret[p] = "exit"
    BY ZenonT(40), <2>1 DEF Exiting
  <2>2. CASE ret[p] # "exit"
    BY ZenonT(40), <1>3, <2>2 DEF Exiting
  <2> QED BY ZenonT(40), <2>1, <2>2
<1> HIDE DEF l
<1> QED BY ZenonT(40), <1>2, <1>3, <1>5, <1>6 DEF Own, Unused

(* fileclose() up to its release of the lock: a reference is gone, and the *)
(* file stays or is the caller's to let go of.                             *)
LEMMA FilecloseStep ==
  ASSUME IInv, NEW p \in Procs, Fileclose(p)
  PROVE  IInv'
<1>1. /\ Types /\ Tables /\ Counted /\ Ends /\ Inodes /\ FreeAreNone /\ pc[p] = "fileclose"
      /\ InCall(p) /\ Exiting(p) /\ ff[p] = None
  BY ZenonT(40), TypesTables DEF IInv, Fileclose, Calls, Loops, InCall
<1>2. PICK k \in {0, 1} :
        LET f == tmp[<<p, k>>]
        IN  /\ f # NoFile
            /\ panic' = IF ref[f] < 1 THEN "fileclose" ELSE panic
            /\ tmp' = [tmp EXCEPT ![<<p, k>>] = NoFile]
            /\ IF ref[f] > 1
               THEN /\ ref' = [ref EXCEPT ![f] = @ - 1]
                    /\ CloseRest(p)
                    /\ UNCHANGED <<file, ff>>
               ELSE /\ ref' = [ref EXCEPT ![f] = 0]
                    /\ file' = Closed(f)
                    /\ ff' = [ff EXCEPT ![p] = file[f]]
                    /\ Goto(p, "letgo")
  BY ZenonT(40) DEF Fileclose, First
<1> DEFINE f == tmp[<<p, k>>]
           s == <<p, k>>
<1>3. s \in Slots /\ \A q \in Procs : q # p => <<q, 0>> # s /\ <<q, 1>> # s
  BY ZenonT(40), Places
<1>4. f \in Files
  BY ZenonT(40), <1>1, <1>2, <1>3 DEF Types, FilePtr
<1>5. ref[f] \in Nat /\ ref[f] >= 1
  BY ZenonT(40), <1>1, <1>3, <1>4, Held
<1>6. /\ ~(ref[f] < 1) /\ (ref[f] > 1 => ref[f] - 1 \in Nat /\ ref[f] - 1 # 0)
      /\ (~(ref[f] > 1) => ref[f] - 1 = 0) /\ 0 \in Nat
  BY <1>5
<1>7. /\ panic' = "no" /\ tmp' = [tmp EXCEPT ![s] = NoFile] /\ tmp' \in [Slots -> FilePtr]
      /\ UNCHANGED <<ofile, pipe, iref, ret, ip, child, fd>>
  BY ZenonT(40), <1>1, <1>2, <1>6, Upd DEF Types, Fileclose, FilePtr
<1>8. /\ ref' = [ref EXCEPT ![f] = @ - 1] /\ ref' \in [Files -> Nat]
      /\ \A g \in Files : ref'[g] = 0 => ref[g] = 0 \/ (g = f /\ ~(ref[f] > 1))
  <2> HIDE DEF f
  <2>1. ref \in [Files -> Nat]
    BY ZenonT(40), <1>1 DEF Types
  <2>2. ref' = [ref EXCEPT ![f] = ref[f] - 1]
    <3>1. CASE ref[f] > 1
      BY ZenonT(40), <1>2, <3>1 DEF f
    <3>2. CASE ~(ref[f] > 1)
      BY ZenonT(40), <1>2, <1>6, <3>2 DEF f
    <3> QED BY ZenonT(40), <3>1, <3>2
  <2>3. ref[f] - 1 \in Nat
    BY <1>5
  <2>4. ref' \in [Files -> Nat]
    BY ZenonT(40), <2>1, <2>2, <2>3, Upd
  <2>5. \A g \in Files : ref'[g] = 0 => ref[g] = 0 \/ (g = f /\ ~(ref[f] > 1))
    <3>1. ref'[f] = ref[f] - 1 /\ \A g \in Files : g # f => ref'[g] = ref[g]
      BY ZenonT(40), <1>4, <2>1, <2>2 DEF f
    <3>2. ref'[f] = 0 => ~(ref[f] > 1)
      BY <1>5, <3>1
    <3> QED BY ZenonT(40), <3>1, <3>2
  <2> QED BY ZenonT(40), <2>2, <2>4, <2>5
<1>9. Counted'
  BY ZenonT(40), <1>1, <1>3, <1>4, <1>7, <1>8, DropLocal
<1>10. \A t \in Slots : tmp'[t] = tmp[t] \/ tmp'[t] = NoFile
  BY ZenonT(40), <1>1, <1>7 DEF Types
<1>11. \A q \in Procs : q # p => tmp'[<<q, 0>>] = tmp[<<q, 0>>] /\ tmp'[<<q, 1>>] = tmp[<<q, 1>>]
  BY ZenonT(40), <1>1, <1>3, <1>7, Places DEF Types
<1>12. CASE ref[f] > 1
  <2>1. CloseRest(p) /\ UNCHANGED <<file, ff>>
    BY ZenonT(40), <1>2, <1>12
  <2>2. /\ Own(p)' /\ pc' \in [Procs -> Pcs] /\ pc'[p] \notin {"fork", "pipe"}
        /\ \A q \in Procs : q # p => pc'[q] = pc[q]
    BY ZenonT(40), <1>1, <1>7, <2>1, RestOwn DEF Types
  <2>3. Types'
    BY ZenonT(40), <1>1, <1>7, <1>8, <2>1, <2>2 DEF Types
  <2>4. Ends' /\ Inodes'
    BY ZenonT(40), <1>1, <1>7, <2>1, SameLedgers
  <2>5. FreeAreNone'
    BY ZenonT(40), <1>1, <1>8, <1>12, <2>1 DEF FreeAreNone
  <2>6. Alone(p)
    <3>1. \A q \in Procs : q # p => Same(q)
      BY ZenonT(40), <1>7, <1>11, <2>1, <2>2 DEF Same
    <3>2. Writes(p)
      BY ZenonT(40), <1>7, <1>10, <2>1, OldNames DEF Writes
    <3> QED BY ZenonT(40), <1>1, <2>2, <3>1, <3>2 DEF Alone
  <2> QED BY ZenonT(40), <1>9, <2>2, <2>3, <2>4, <2>5, <2>6, AloneKeeps DEF IInv
<1>13. CASE ~(ref[f] > 1)
  <2>1. /\ file' = [file EXCEPT ![f] = None] /\ ff' = [ff EXCEPT ![p] = file[f]]
        /\ pc' = [pc EXCEPT ![p] = "letgo"]
    BY ZenonT(40), <1>2, <1>13 DEF Closed, Goto
  <2> HIDE DEF f
  <2>2. Ends' /\ Inodes'
    BY ZenonT(40), <1>1, <1>4, <1>7, <2>1, CloseLedgers
  <2>3. Types'
    <3>1. file[f] \in Contents
      BY ZenonT(40), <1>1, <1>4 DEF Types
    <3>2. /\ file' \in [Files -> Contents] /\ ff' \in [Procs -> Contents]
          /\ pc' \in [Procs -> Pcs]
      BY ZenonT(40), <1>1, <2>1, <3>1, ContentsAre, Upd DEF Types, Pcs
    <3> QED BY ZenonT(40), <1>1, <1>7, <1>8, <3>2 DEF Types
  <2>4. FreeAreNone'
    BY ZenonT(40), <1>1, <1>8, <2>1 DEF FreeAreNone, Types
  <2>5. pc'[p] = "letgo"
    BY ZenonT(40), <1>1, <2>1 DEF Types
  <2>6. Alone(p)
    <3>1. \A q \in Procs : q # p => Same(q)
      BY ZenonT(40), <1>1, <1>7, <1>11, <2>1 DEF Same, Types
    <3>2. \A g \in Files : file'[g] = file[g] \/ file'[g] = None
      BY ZenonT(40), <1>1, <2>1 DEF Types
    <3>3. Writes(p)
      BY ZenonT(40), <1>7, <1>10, <3>2, OldNames DEF Writes
    <3> QED BY ZenonT(40), <1>1, <2>5, <3>1, <3>3 DEF Alone
  <2>7. Own(p)'
    <3>1. InCall(p)'
      BY ZenonT(40), <1>1, <1>7, <2>5 DEF InCall
    <3>2. Exiting(p)'
      BY ZenonT(40), <1>1, <1>7, <2>5 DEF Exiting
    <3> QED BY ZenonT(40), <2>5, <3>1, <3>2 DEF Own, Unused
  <2> QED BY ZenonT(40), <1>9, <2>2, <2>3, <2>4, <2>6, <2>7, AloneKeeps DEF IInv
<1> QED BY ZenonT(40), <1>12, <1>13

(* The rest of fileclose(). *)
LEMMA LetGoStep ==
  ASSUME IInv, NEW p \in Procs, LetGo(p)
  PROVE  IInv'
<1>1. /\ Types /\ Tables /\ Counted /\ Ends /\ Inodes /\ FreeAreNone /\ pc[p] = "letgo"
      /\ InCall(p) /\ Exiting(p) /\ ff[p] \in Contents
  BY ZenonT(40), TypesTables DEF IInv, LetGo, Calls, Loops, Tables
<1>2. /\ ff' = [ff EXCEPT ![p] = None] /\ CloseRest(p)
      /\ UNCHANGED <<ref, file, ofile, panic, ret, tmp, ip, child, fd>>
  BY ZenonT(40) DEF LetGo
<1>3. ff' \in [Procs -> Contents] /\ ff'[p] = None /\ \A q \in Procs : q # p => ff'[q] = ff[q]
  BY ZenonT(40), <1>1, <1>2, ContentsAre, Upd DEF Tables
<1>4. /\ Own(p)' /\ pc' \in [Procs -> Pcs] /\ pc'[p] \notin {"fork", "pipe"}
      /\ \A q \in Procs : q # p => pc'[q] = pc[q]
  BY ZenonT(40), <1>1, <1>2, <1>3, RestOwn DEF Types
<1>5. /\ Ends' /\ Inodes' /\ iref' \in [Inums -> Nat]
      /\ pipe' \in [Pipes -> [readopen : BOOLEAN, writeopen : BOOLEAN]]
  <2>1. CASE ff[p] = None
    <3>1. UNCHANGED <<pipe, iref>>
      BY ZenonT(40), <2>1, Fields DEF LetGo
    <3>2. ff' = ff
      BY ZenonT(40), <1>1, <1>2, <2>1 DEF Tables
    <3> QED BY ZenonT(40), <1>1, <1>2, <3>1, <3>2, SameLedgers DEF Tables
  <2>2. CASE \E i \in Inums, w \in BOOLEAN : ff[p] = Inode(i, w)
    <3>1. PICK i \in Inums, w \in BOOLEAN : ff[p] = Inode(i, w)
      BY ZenonT(40), <2>2
    <3>2. ff[p].type = "inode" /\ ff[p].obj = i
      BY <3>1, Fields
    <3>3. pipe' = pipe /\ iref' = [iref EXCEPT ![i] = @ - 1]
      BY ZenonT(40), <3>2 DEF LetGo
    <3> QED BY ZenonT(40), <1>1, <1>2, <3>1, <3>3, LetGoInode DEF Tables
  <2>3. CASE \E q \in Pipes, w \in BOOLEAN : ff[p] = End(q, w)
    <3>1. PICK q \in Pipes, w \in BOOLEAN : ff[p] = End(q, w)
      BY ZenonT(40), <2>3
    <3>2. ff[p].type = "pipe" /\ ff[p].obj = q /\ ff[p].writable = w
      BY <3>1, Fields
    <3>3. pipe' = pipeclose(q, w) /\ iref' = iref
      BY ZenonT(40), <3>2 DEF LetGo
    <3> QED BY ZenonT(40), <1>1, <1>2, <3>1, <3>3, LetGoEnd, PipecloseEnds DEF Tables
  <2> QED BY ZenonT(40), <1>1, <2>1, <2>2, <2>3, ContentsAre
<1>6. Types'
  BY ZenonT(40), <1>1, <1>2, <1>3, <1>4, <1>5 DEF Types
<1>7. Counted' /\ FreeAreNone'
  BY ZenonT(40), <1>1, <1>2 DEF Counted, FreeAreNone
<1>8. Alone(p)
  <2>1. \A q \in Procs : q # p => Same(q)
    BY ZenonT(40), <1>2, <1>3, <1>4 DEF Same
  <2> QED BY ZenonT(40), <1>1, <1>2, <1>4, <2>1 DEF Alone, Writes
<1> QED BY ZenonT(40), <1>4, <1>5, <1>6, <1>7, <1>8, AloneKeeps DEF IInv

(* pipe() has its first file. *)
LEMMA PipeStep ==
  ASSUME IInv, NEW p \in Procs, Pipe(p)
  PROVE  IInv'
<1>1. Types /\ Counted /\ Ends /\ Inodes /\ FreeAreNone /\ pc[p] = "user"
  BY ZenonT(40) DEF IInv, Pipe
<1>2. Idle(p)
  BY ZenonT(40), <1>1, IdleInCall
<1>3. PICK f \in Files :
        /\ ref[f] = 0 /\ ref' = [ref EXCEPT ![f] = 1]
        /\ tmp' = [tmp EXCEPT ![<<p, 0>>] = f]
  BY ZenonT(40) DEF Pipe, First, FreeFiles
<1>4. /\ ref' = [ref EXCEPT ![f] = @ + 1] /\ ref' \in [Files -> Nat] /\ file[f] = None
      /\ \A g \in Files : ref'[g] = 0 => g # f /\ ref[g] = 0
  BY ZenonT(40), <1>1, <1>3, Allocated
<1>5. <<p, 0>> \in Slots /\ <<p, 1>> \in Slots /\ <<p, 0>> # <<p, 1>>
  BY ZenonT(40), Places
<1>6. Counted'
  BY ZenonT(40), <1>1, <1>2, <1>3, <1>4, <1>5, TakeLocal DEF Pipe, Idle
<1>7. Ends' /\ Inodes'
  BY ZenonT(40), <1>1, SameLedgers DEF Pipe
<1>8. Types'
  <2>1. pc' \in [Procs -> Pcs] /\ ret' \in [Procs -> {"user", "iput", "exit"}]
    BY ZenonT(40), <1>1, Upd DEF Types, Pipe, Goto, Pcs
  <2>2. tmp' \in [Slots -> FilePtr]
    BY ZenonT(40), <1>1, <1>3, Upd DEF Types, FilePtr
  <2> QED BY ZenonT(40), <1>1, <1>4, <2>1, <2>2 DEF Types, Pipe
<1>9. FreeAreNone'
  BY ZenonT(40), <1>1, <1>4 DEF FreeAreNone, Pipe
<1>10. pc'[p] = "pipe" /\ ret'[p] = "user"
  BY ZenonT(40), <1>1 DEF Types, Pipe, Goto
<1>11. Alone(p)
  <2>1. \A q \in Procs : q # p => Same(q)
    BY ZenonT(40), <1>1, <1>3, Places DEF Same, Types, Pipe, Goto
  <2>2. \A s \in Slots : tmp'[s] = tmp[s] \/ tmp'[s] = f
    BY ZenonT(40), <1>1, <1>3 DEF Types
  <2>3. Writes(p)
    BY ZenonT(40), <1>3, <2>2, OldNames DEF Writes, Pipe
  <2> QED BY ZenonT(40), <1>1, <1>10, <2>1, <2>3 DEF Alone
<1>12. Own(p)'
  <2>1. /\ tmp'[<<p, 0>>] = f /\ tmp'[<<p, 1>>] = NoFile
        /\ \A s \in Slots : tmp'[s] = f => s = <<p, 0>> \/ tmp[s] = f
    BY ZenonT(40), <1>1, <1>2, <1>3, <1>5 DEF Types, Idle
  <2>2. /\ \A s \in FdPlaces : ofile'[s] # f
        /\ \A s \in Slots : tmp'[s] = f => s = <<p, 0>>
        /\ file'[f] = None
    BY ZenonT(40), <1>1, <1>3, <1>4, <2>1, FreeNobody DEF Pipe
  <2>3. Fresh(p)'
    BY ZenonT(40), <1>10, <2>1, <2>2 DEF Fresh
  <2>4. InCall(p)'
    BY ZenonT(40), <1>2, <1>10 DEF InCall, Idle, Pipe
  <2> QED BY ZenonT(40), <1>10, <2>3, <2>4 DEF Own, Unused, Exiting
<1> QED BY ZenonT(40), <1>6, <1>7, <1>8, <1>9, <1>11, <1>12, AloneKeeps DEF IInv

(* In pipealloc(), its second file not allocated yet. *)
LEMMA InPipe ==
  ASSUME IInv, NEW p \in Procs, pc[p] = "pipe"
  PROVE  /\ tmp[<<p, 0>>] \in Files /\ file[tmp[<<p, 0>>]] = None
         /\ tmp[<<p, 1>>] = NoFile /\ ret[p] = "user" /\ ff[p] = None /\ ip[p] = 0
<1>1. Fresh(p) /\ InCall(p)
  BY ZenonT(40) DEF IInv, Calls
<1>2. ff[p] = None /\ ip[p] = 0
  BY ZenonT(40), <1>1 DEF InCall
<1> QED BY ZenonT(40), <1>1, <1>2 DEF Fresh

(* It goes on with fileclose() of what it has. *)
LEMMA PipeClosing ==
  ASSUME IInv, NEW p \in Procs, pc[p] = "pipe", pc' = [pc EXCEPT ![p] = "fileclose"],
         UNCHANGED <<ret, ff, ip>>
  PROVE  /\ Own(p)' /\ pc' \in [Procs -> Pcs] /\ pc'[p] = "fileclose"
         /\ \A q \in Procs : q # p => pc'[q] = pc[q]
<1>1. pc \in [Procs -> Pcs]
  BY ZenonT(40) DEF IInv, Types
<1>2. /\ pc' \in [Procs -> Pcs] /\ pc'[p] = "fileclose"
      /\ \A q \in Procs : q # p => pc'[q] = pc[q]
  BY ZenonT(40), <1>1, Upd DEF Pcs
<1>3. ret'[p] = "user" /\ ff'[p] = None /\ ip'[p] = 0
  BY ZenonT(40), InPipe
<1>4. InCall(p)'
  BY ZenonT(40), <1>2, <1>3 DEF InCall
<1> QED BY ZenonT(40), <1>2, <1>3, <1>4 DEF Own, Unused, Exiting

(* pipealloc() fails. *)
LEMMA PipeBadStep ==
  ASSUME IInv, NEW p \in Procs, PipeBad(p)
  PROVE  IInv'
<1>1. Types /\ Counted /\ Ends /\ Inodes /\ FreeAreNone /\ pc[p] = "pipe"
  BY ZenonT(40) DEF IInv, PipeBad
<1>2. UNCHANGED <<file, ofile, pipe, iref, panic, ret, ff, ip, child, fd>>
  BY ZenonT(40) DEF PipeBad
<1>3. /\ Own(p)' /\ pc' \in [Procs -> Pcs] /\ pc'[p] = "fileclose"
      /\ \A q \in Procs : q # p => pc'[q] = pc[q]
  BY ZenonT(40), <1>1, <1>2, PipeClosing DEF PipeBad, Goto
<1>4. Ends' /\ Inodes'
  BY ZenonT(40), <1>1, <1>2, SameLedgers
<1>5. CASE UNCHANGED <<ref, tmp>>
  <2>1. Types'
    BY ZenonT(40), <1>1, <1>2, <1>3, <1>5 DEF Types
  <2>2. Counted' /\ FreeAreNone'
    BY ZenonT(40), <1>1, <1>2, <1>5 DEF Counted, FreeAreNone
  <2>3. Alone(p)
    BY ZenonT(40), <1>1, <1>2, <1>3, <1>5 DEF Alone, Same, Writes
  <2> QED BY ZenonT(40), <1>3, <1>4, <2>1, <2>2, <2>3, AloneKeeps DEF IInv
<1>6. CASE \E f \in First(FreeFiles) : /\ ref' = [ref EXCEPT ![f] = 1]
                                       /\ tmp' = [tmp EXCEPT ![<<p, 1>>] = f]
  <2>1. PICK f \in Files : /\ ref[f] = 0 /\ ref' = [ref EXCEPT ![f] = 1]
                           /\ tmp' = [tmp EXCEPT ![<<p, 1>>] = f]
    BY ZenonT(40), <1>6 DEF First, FreeFiles
  <2>2. /\ ref' = [ref EXCEPT ![f] = @ + 1] /\ ref' \in [Files -> Nat]
        /\ \A g \in Files : ref'[g] = 0 => ref[g] = 0
    BY ZenonT(40), <1>1, <2>1, Allocated
  <2>3. Counted'
    BY ZenonT(40), <1>1, <1>2, <2>1, <2>2, TakeLocal, InPipe, Places
  <2>4. Types'
    <3>1. tmp' \in [Slots -> FilePtr]
      BY ZenonT(40), <1>1, <2>1, Upd DEF Types, FilePtr
    <3> QED BY ZenonT(40), <1>1, <1>2, <1>3, <2>2, <3>1 DEF Types
  <2>5. FreeAreNone'
    BY ZenonT(40), <1>1, <1>2, <2>2 DEF FreeAreNone
  <2>6. Alone(p)
    <3>1. \A q \in Procs : q # p => Same(q)
      BY ZenonT(40), <1>1, <1>2, <1>3, <2>1, Places DEF Same, Types
    <3>2. \A s \in Slots : tmp'[s] = tmp[s] \/ tmp'[s] = f
      BY ZenonT(40), <1>1, <2>1 DEF Types
    <3>3. Writes(p)
      BY ZenonT(40), <1>2, <2>1, <3>2, OldNames DEF Writes
    <3> QED BY ZenonT(40), <1>1, <1>3, <3>1, <3>3 DEF Alone
  <2> QED BY ZenonT(40), <1>3, <1>4, <2>3, <2>4, <2>5, <2>6, AloneKeeps DEF IInv
<1> QED BY ZenonT(40), <1>5, <1>6 DEF PipeBad

(* pipealloc() has all it needs. *)
LEMMA PipeallocKeeps ==
  ASSUME IInv, NEW p \in Procs, pc[p] = "pipe", NEW wf \in Files, ref[wf] = 0,
         pipealloc(tmp[<<p, 0>>], wf), UNCHANGED <<ff, ip, iref>>
  PROVE  /\ Ends' /\ Inodes' /\ FreeAreNone'
         /\ ref' = [ref EXCEPT ![wf] = @ + 1] /\ ref' \in [Files -> Nat]
         /\ file' \in [Files -> Contents]
         /\ pipe' \in [Pipes -> [readopen : BOOLEAN, writeopen : BOOLEAN]]
         /\ \A f \in Files : file'[f] = file[f] \/ Old(f, p)
<1>1. Types /\ Tables /\ Counted /\ Ends /\ Inodes /\ FreeAreNone
  BY ZenonT(40), TypesTables DEF IInv
<1> DEFINE rf == tmp[<<p, 0>>]
<1>2. rf \in Files /\ file[rf] = None /\ Old(rf, p) /\ Old(wf, p)
  BY ZenonT(40), InPipe, OldNames
<1>3. rf # wf
  BY ZenonT(40), <1>1, FreeNobody, Places
<1>4. PICK q \in Pipes :
        /\ pipe[q] = NoPipe
        /\ pipe' = [pipe EXCEPT ![q] = [readopen |-> TRUE, writeopen |-> TRUE]]
        /\ ref' = [ref EXCEPT ![wf] = 1]
        /\ file' = [file EXCEPT ![rf] = End(q, FALSE), ![wf] = End(q, TRUE)]
  BY ZenonT(40) DEF pipealloc, FreePipes
<1> HIDE DEF rf
<1>5. /\ ref' = [ref EXCEPT ![wf] = @ + 1] /\ ref' \in [Files -> Nat] /\ file[wf] = None
      /\ \A g \in Files : ref'[g] = 0 => g # wf /\ ref[g] = 0
  BY ZenonT(40), <1>1, <1>4, Allocated
<1>6. /\ Ends' /\ Inodes'
      /\ pipe' \in [Pipes -> [readopen : BOOLEAN, writeopen : BOOLEAN]]
  BY ZenonT(40), <1>1, <1>2, <1>3, <1>4, <1>5, PipeLedgers
<1>7. \A f \in Files : f # rf /\ f # wf => file'[f] = file[f]
  BY ZenonT(40), <1>1, <1>4 DEF Tables
<1>8. file' \in [Files -> Contents]
  BY ZenonT(40), <1>1, <1>4, ContentsAre, Upd DEF Tables
<1>9. FreeAreNone'
  <2>1. ref[rf] # 0
    BY ZenonT(40), <1>1, <1>2, FreeNobody, Places DEF rf
  <2> QED BY ZenonT(40), <1>1, <1>5, <1>7, <2>1 DEF FreeAreNone
<1>10. \A f \in Files : file'[f] = file[f] \/ Old(f, p)
  BY ZenonT(40), <1>2, <1>7
<1> QED BY ZenonT(40), <1>5, <1>6, <1>8, <1>9, <1>10

(* pipe() returns two descriptors. *)
LEMMA PipeDoneStep ==
  ASSUME IInv, NEW p \in Procs, PipeDone(p)
  PROVE  IInv'
<1>1. Types /\ Counted /\ pc[p] = "pipe"
  BY ZenonT(40) DEF IInv, PipeDone
<1> DEFINE rf == tmp[<<p, 0>>]
<1>2. PICK wf \in Files, d0 \in Fds, d1 \in Fds :
        /\ ref[wf] = 0 /\ ofile[<<p, d0>>] = NoFile /\ ofile[<<p, d1>>] = NoFile /\ d0 # d1
        /\ pipealloc(rf, wf)
        /\ ofile' = [ofile EXCEPT ![<<p, d0>>] = rf, ![<<p, d1>>] = wf]
  BY ZenonT(40) DEF PipeDone, First, FreeFiles, FreeFds
<1>3. /\ tmp' = [tmp EXCEPT ![<<p, 0>>] = NoFile] /\ pc' = [pc EXCEPT ![p] = "user"]
      /\ UNCHANGED <<iref, panic, ret, ff, ip, child, fd>>
  BY ZenonT(40) DEF PipeDone, Goto
<1>4. /\ Ends' /\ Inodes' /\ FreeAreNone'
      /\ ref' = [ref EXCEPT ![wf] = @ + 1] /\ ref' \in [Files -> Nat]
      /\ file' \in [Files -> Contents]
      /\ pipe' \in [Pipes -> [readopen : BOOLEAN, writeopen : BOOLEAN]]
      /\ \A f \in Files : file'[f] = file[f] \/ Old(f, p)
  BY ZenonT(40), <1>1, <1>2, <1>3, PipeallocKeeps
<1>5. /\ <<p, d0>> \in FdPlaces /\ <<p, d1>> \in FdPlaces /\ <<p, d0>> # <<p, d1>>
      /\ <<p, 0>> \in Slots /\ <<p, 1>> \in Slots /\ <<p, 0>> # <<p, 1>>
  BY ZenonT(40), <1>2, Places
<1>6. /\ rf \in Files /\ Old(rf, p) /\ Old(wf, p) /\ Old(NoFile, p)
      /\ tmp[<<p, 1>>] = NoFile /\ ff[p] = None /\ ip[p] = 0
  BY ZenonT(40), <1>1, <1>2, InPipe, OldNames
<1>7. Counted'
  BY ZenonT(40), <1>1, <1>2, <1>3, <1>4, <1>5, <1>6, TakeTwo
<1> HIDE DEF rf
<1>8. Types'
  <2>1. ofile' \in [FdPlaces -> FilePtr] /\ tmp' \in [Slots -> FilePtr]
    BY ZenonT(40), <1>1, <1>2, <1>3, <1>6, Upd DEF Types, FilePtr
  <2>2. pc' \in [Procs -> Pcs]
    BY ZenonT(40), <1>1, <1>3, Upd DEF Types, Pcs
  <2> QED BY ZenonT(40), <1>1, <1>3, <1>4, <2>1, <2>2 DEF Types
<1>9. pc'[p] = "user" /\ tmp'[<<p, 0>>] = NoFile /\ tmp'[<<p, 1>>] = NoFile
  BY ZenonT(40), <1>1, <1>3, <1>5, <1>6 DEF Types
<1>10. Alone(p)
  <2>1. \A q \in Procs : q # p => Same(q)
    BY ZenonT(40), <1>1, <1>2, <1>3, Places DEF Same, Types
  <2>2. /\ \A s \in FdPlaces : ofile'[s] = ofile[s] \/ ofile'[s] = rf \/ ofile'[s] = wf
        /\ \A s \in Slots : tmp'[s] = tmp[s] \/ tmp'[s] = NoFile
    BY ZenonT(40), <1>1, <1>2, <1>3 DEF Types
  <2>3. Writes(p)
    BY ZenonT(40), <1>4, <1>6, <2>2 DEF Writes
  <2> QED BY ZenonT(40), <1>1, <1>9, <2>1, <2>3 DEF Alone
<1>11. Own(p)'
  BY ZenonT(40), <1>3, <1>6, <1>9, IdleOwn DEF Idle
<1> QED BY ZenonT(40), <1>4, <1>7, <1>8, <1>10, <1>11, AloneKeeps DEF IInv

(* pipe() closes both files again. *)
LEMMA PipeUndoStep ==
  ASSUME IInv, NEW p \in Procs, PipeUndo(p)
  PROVE  IInv'
<1>1. Types /\ Counted /\ pc[p] = "pipe"
  BY ZenonT(40) DEF IInv, PipeUndo
<1>2. PICK wf \in Files : /\ ref[wf] = 0 /\ pipealloc(tmp[<<p, 0>>], wf)
                          /\ tmp' = [tmp EXCEPT ![<<p, 1>>] = wf]
  BY ZenonT(40) DEF PipeUndo, First, FreeFiles
<1>3. UNCHANGED <<ofile, iref, panic, ret, ff, ip, child, fd>>
  BY ZenonT(40) DEF PipeUndo
<1>4. /\ Ends' /\ Inodes' /\ FreeAreNone'
      /\ ref' = [ref EXCEPT ![wf] = @ + 1] /\ ref' \in [Files -> Nat]
      /\ file' \in [Files -> Contents]
      /\ pipe' \in [Pipes -> [readopen : BOOLEAN, writeopen : BOOLEAN]]
      /\ \A f \in Files : file'[f] = file[f] \/ Old(f, p)
  BY ZenonT(40), <1>1, <1>2, <1>3, PipeallocKeeps
<1>5. /\ Own(p)' /\ pc' \in [Procs -> Pcs] /\ pc'[p] = "fileclose"
      /\ \A q \in Procs : q # p => pc'[q] = pc[q]
  BY ZenonT(40), <1>1, <1>3, PipeClosing DEF PipeUndo, Goto
<1>6. Counted'
  BY ZenonT(40), <1>1, <1>2, <1>3, <1>4, TakeLocal, InPipe, Places
<1>7. Types'
  <2>1. tmp' \in [Slots -> FilePtr]
    BY ZenonT(40), <1>1, <1>2, Upd DEF Types, FilePtr
  <2> QED BY ZenonT(40), <1>1, <1>3, <1>4, <1>5, <2>1 DEF Types
<1>8. Alone(p)
  <2>1. \A q \in Procs : q # p => Same(q)
    BY ZenonT(40), <1>1, <1>2, <1>3, <1>5, Places DEF Same, Types
  <2>2. \A s \in Slots : tmp'[s] = tmp[s] \/ tmp'[s] = wf
    BY ZenonT(40), <1>1, <1>2 DEF Types
  <2>3. Writes(p)
    BY ZenonT(40), <1>2, <1>3, <1>4, <2>2, OldNames DEF Writes
  <2> QED BY ZenonT(40), <1>1, <1>5, <2>1, <2>3 DEF Alone
<1> QED BY ZenonT(40), <1>4, <1>5, <1>6, <1>7, <1>8, AloneKeeps DEF IInv

(* fork() has a child. *)
LEMMA ForkStep ==
  ASSUME IInv, NEW p \in Procs, NEW c \in Procs, Fork(p, c)
  PROVE  IInv'
<1>1. /\ Types /\ Counted /\ Ends /\ Inodes /\ FreeAreNone /\ Calls /\ Loops
      /\ pc[p] = "user" /\ pc[c] = "unused" /\ p # c
  BY ZenonT(40) DEF IInv, Fork
<1>2. UNCHANGED <<ref, file, ofile, pipe, iref, panic, ret, tmp, ff, ip>>
  BY ZenonT(40) DEF Fork
<1>3. Types'
  <2>1. pc' \in [Procs -> Pcs]
    BY ZenonT(40), <1>1, Upd DEF Types, Fork, Pcs
  <2>2. child' \in [Procs -> Procs] /\ fd' \in [Procs -> 0 .. NOFILE]
    BY ZenonT(40), <1>1, Upd, FdLoop DEF Types, Fork
  <2> QED BY ZenonT(40), <1>1, <1>2, <2>1, <2>2 DEF Types
<1>4. Counted' /\ FreeAreNone'
  BY ZenonT(40), <1>1, <1>2 DEF Counted, FreeAreNone
<1>5. Ends' /\ Inodes'
  BY ZenonT(40), <1>1, <1>2, SameLedgers
<1>6. /\ pc'[p] = "fork" /\ pc'[c] = "embryo" /\ child'[p] = c /\ fd'[p] = 0
      /\ \A q \in Procs : q # p => child'[q] = child[q] /\ fd'[q] = fd[q]
      /\ \A q \in Procs : q # p /\ q # c => pc'[q] = pc[q]
  BY ZenonT(40), <1>1 DEF Types, Fork
<1>7. Idle(p) /\ Idle(c)
  BY ZenonT(40), <1>1, IdleInCall
<1>8. Calls'
  <2>1. ASSUME NEW q \in Procs PROVE (pc'[q] = "pipe" => Fresh(q)') /\ InCall(q)'
    <3>1. CASE q = p \/ q = c
      BY ZenonT(40), <1>2, <1>6, <1>7, <3>1 DEF InCall, Idle
    <3>2. CASE q # p /\ q # c
      <4>1. pc'[q] = pc[q] /\ InCall(q) /\ (pc[q] = "pipe" => Fresh(q))
        BY ZenonT(40), <1>1, <1>6, <3>2 DEF Calls
      <4>2. InCall(q)'
        BY ZenonT(40), <1>2, <4>1 DEF InCall
      <4>3. Fresh(q) => Fresh(q)'
        BY ZenonT(40), <1>2 DEF Fresh
      <4> QED BY ZenonT(40), <4>1, <4>2, <4>3
    <3> QED BY ZenonT(40), <3>1, <3>2
  <2> QED BY ZenonT(40), <2>1 DEF Calls
<1>9. Loops'
  <2>1. ASSUME NEW q \in Procs PROVE Unused(q)' /\ Exiting(q)'
    <3>1. CASE q = p \/ q = c
      BY ZenonT(40), <1>6, <3>1 DEF Unused, Exiting
    <3>2. CASE q # p /\ q # c
      <4>1. pc'[q] = pc[q] /\ fd'[q] = fd[q] /\ Unused(q) /\ Exiting(q)
        BY ZenonT(40), <1>1, <1>6, <3>2 DEF Loops
      <4>2. Unused(q)'
        BY ZenonT(40), <1>2, <4>1 DEF Unused
      <4>3. Exiting(q)'
        BY ZenonT(40), <1>2, <4>1 DEF Exiting
      <4> QED BY ZenonT(40), <4>2, <4>3
    <3> QED BY ZenonT(40), <3>1, <3>2
  <2>2. ASSUME NEW q \in Procs, q # p, pc'[q] = "fork"
        PROVE  /\ pc[q] = "fork" /\ child'[q] = child[q] /\ child[q] \in Procs
               /\ child[q] # c /\ child[q] # p /\ fd'[q] = fd[q] /\ Forking(q)
    <3>1. pc[q] = "fork" /\ child'[q] = child[q] /\ fd'[q] = fd[q] /\ Forking(q)
      BY ZenonT(40), <1>1, <1>6, <2>2 DEF Loops
    <3>2. pc[child[q]] = "embryo" /\ child[q] \in Procs
      BY ZenonT(40), <1>1, <3>1 DEF Forking, Types
    <3> QED BY ZenonT(40), <1>1, <3>1, <3>2
  <2>3. Forking(p)'
    <3>1. \A q \in Procs : pc'[q] = "fork" /\ child'[q] = child'[p] => q = p
      BY ZenonT(40), <1>6, <2>2
    <3>2. \A d \in Fds : ofile'[<<c, d>>] = NoFile
      BY ZenonT(40), <1>1, <1>2 DEF Loops, Unused
    <3> QED BY ZenonT(40), <1>6, <3>1, <3>2 DEF Forking
  <2>4. ASSUME NEW q \in Procs, q # p PROVE Forking(q)'
    <3> SUFFICES ASSUME pc'[q] = "fork"
                 PROVE  /\ pc'[child'[q]] = "embryo"
                        /\ \A r \in Procs : pc'[r] = "fork" /\ child'[r] = child'[q] => r = q
                        /\ \A d \in Fds : d >= fd'[q] => ofile'[<<child'[q], d>>] = NoFile
      BY ZenonT(40) DEF Forking
    <3>1. /\ pc[q] = "fork" /\ child'[q] = child[q] /\ child[q] \in Procs
          /\ child[q] # c /\ child[q] # p /\ fd'[q] = fd[q] /\ Forking(q)
      BY ZenonT(40), <2>2, <2>4
    <3>2. /\ pc[child[q]] = "embryo"
          /\ \A r \in Procs : pc[r] = "fork" /\ child[r] = child[q] => r = q
          /\ \A d \in Fds : d >= fd[q] => ofile[<<child[q], d>>] = NoFile
      BY ZenonT(40), <3>1 DEF Forking
    <3>3. pc'[child'[q]] = "embryo"
      BY ZenonT(40), <1>6, <3>1, <3>2
    <3>4. \A d \in Fds : d >= fd'[q] => ofile'[<<child'[q], d>>] = NoFile
      BY ZenonT(40), <1>2, <3>1, <3>2
    <3>5. ASSUME NEW r \in Procs, pc'[r] = "fork", child'[r] = child'[q] PROVE r = q
      <4>1. r # p
        BY ZenonT(40), <1>6, <3>1, <3>5
      <4>2. pc[r] = "fork" /\ child'[r] = child[r]
        BY ZenonT(40), <2>2, <3>5, <4>1
      <4> QED BY ZenonT(40), <3>1, <3>2, <3>5, <4>2
    <3> QED BY ZenonT(40), <3>3, <3>4, <3>5
  <2> QED BY ZenonT(40), <2>1, <2>3, <2>4 DEF Loops
<1> QED BY ZenonT(40), <1>3, <1>4, <1>5, <1>8, <1>9 DEF IInv

(* fork() is through. *)
LEMMA ForkedStep ==
  ASSUME IInv, NEW p \in Procs, Forked(p)
  PROVE  IInv'
<1> DEFINE c == child[p]
<1>1. /\ Types /\ Counted /\ Ends /\ Inodes /\ FreeAreNone /\ Calls /\ Loops
      /\ pc[p] = "fork" /\ c \in Procs
  BY ZenonT(40) DEF IInv, Forked, Types
<1>2. UNCHANGED <<ref, file, ofile, pipe, iref, panic, ret, tmp, ff, ip>>
  BY ZenonT(40) DEF Forked
<1>3. /\ pc[c] = "embryo" /\ c # p
      /\ \A q \in Procs : pc[q] = "fork" /\ child[q] = c => q = p
  BY ZenonT(40), <1>1 DEF Loops, Forking
<1>4. pc' = [pc EXCEPT ![p] = "user", ![c] = "user"]
  BY ZenonT(40) DEF Forked
<1>5. Types'
  <2>1. pc' \in [Procs -> Pcs]
    BY ZenonT(40), <1>1, <1>4, Upd DEF Types, Pcs
  <2>2. child' \in [Procs -> Procs] /\ fd' \in [Procs -> 0 .. NOFILE]
    BY ZenonT(40), <1>1, Upd, FdLoop DEF Types, Forked
  <2> QED BY ZenonT(40), <1>1, <1>2, <2>1, <2>2 DEF Types
<1>6. Counted' /\ FreeAreNone'
  BY ZenonT(40), <1>1, <1>2 DEF Counted, FreeAreNone
<1>7. Ends' /\ Inodes'
  BY ZenonT(40), <1>1, <1>2, SameLedgers
<1>8. Idle(p) /\ Idle(c)
  BY ZenonT(40), <1>1, <1>3, IdleInCall
<1> HIDE DEF c
<1>9. /\ pc'[p] = "user" /\ pc'[c] = "user"
      /\ \A q \in Procs : q # p => child'[q] = child[q] /\ fd'[q] = fd[q]
      /\ \A q \in Procs : q # p /\ q # c => pc'[q] = pc[q]
  <2>1. /\ pc'[p] = "user" /\ pc'[c] = "user"
        /\ \A q \in Procs : q # p /\ q # c => pc'[q] = pc[q]
    BY ZenonT(40), <1>1, <1>3, <1>4 DEF Types
  <2>2. \A q \in Procs : q # p => child'[q] = child[q] /\ fd'[q] = fd[q]
    BY ZenonT(40), <1>1 DEF Types, Forked
  <2> QED BY ZenonT(40), <2>1, <2>2
<1>10. Calls'
  <2>1. ASSUME NEW q \in Procs PROVE (pc'[q] = "pipe" => Fresh(q)') /\ InCall(q)'
    <3>1. CASE q = p \/ q = c
      BY ZenonT(40), <1>2, <1>8, <1>9, <3>1 DEF InCall, Idle
    <3>2. CASE q # p /\ q # c
      <4>1. pc'[q] = pc[q] /\ InCall(q) /\ (pc[q] = "pipe" => Fresh(q))
        BY ZenonT(40), <1>1, <1>9, <3>2 DEF Calls
      <4>2. InCall(q)'
        BY ZenonT(40), <1>2, <4>1 DEF InCall
      <4>3. Fresh(q) => Fresh(q)'
        BY ZenonT(40), <1>2 DEF Fresh
      <4> QED BY ZenonT(40), <4>1, <4>2, <4>3
    <3> QED BY ZenonT(40), <3>1, <3>2
  <2> QED BY ZenonT(40), <2>1 DEF Calls
<1>11. Loops'
  <2>1. ASSUME NEW q \in Procs PROVE Unused(q)' /\ Exiting(q)'
    <3>1. CASE q = p \/ q = c
      BY ZenonT(40), <1>9, <3>1 DEF Unused, Exiting
    <3>2. CASE q # p /\ q # c
      <4>1. pc'[q] = pc[q] /\ fd'[q] = fd[q] /\ Unused(q) /\ Exiting(q)
        BY ZenonT(40), <1>1, <1>9, <3>2 DEF Loops
      <4>2. Unused(q)'
        BY ZenonT(40), <1>2, <4>1 DEF Unused
      <4>3. Exiting(q)'
        BY ZenonT(40), <1>2, <4>1 DEF Exiting
      <4> QED BY ZenonT(40), <4>2, <4>3
    <3> QED BY ZenonT(40), <3>1, <3>2
  <2>2. ASSUME NEW q \in Procs, pc'[q] = "fork"
        PROVE  q # p /\ q # c /\ pc[q] = "fork" /\ child'[q] = child[q] /\ fd'[q] = fd[q]
    BY ZenonT(40), <1>9, <2>2
  <2>3. ASSUME NEW q \in Procs PROVE Forking(q)'
    <3> SUFFICES ASSUME pc'[q] = "fork"
                 PROVE  /\ pc'[child'[q]] = "embryo"
                        /\ \A r \in Procs : pc'[r] = "fork" /\ child'[r] = child'[q] => r = q
                        /\ \A d \in Fds : d >= fd'[q] => ofile'[<<child'[q], d>>] = NoFile
      BY ZenonT(40) DEF Forking
    <3>1. q # p /\ q # c /\ pc[q] = "fork" /\ child'[q] = child[q] /\ fd'[q] = fd[q]
      BY ZenonT(40), <2>2
    <3>2. /\ pc[child[q]] = "embryo" /\ child[q] \in Procs
          /\ \A r \in Procs : pc[r] = "fork" /\ child[r] = child[q] => r = q
          /\ \A d \in Fds : d >= fd[q] => ofile[<<child[q], d>>] = NoFile
      BY ZenonT(40), <1>1, <3>1 DEF Loops, Forking, Types
    <3>3. child[q] # p /\ child[q] # c
      BY ZenonT(40), <1>1, <1>3, <3>1, <3>2
    <3>4. pc'[child'[q]] = "embryo"
      BY ZenonT(40), <1>9, <3>1, <3>2, <3>3
    <3>5. \A d \in Fds : d >= fd'[q] => ofile'[<<child'[q], d>>] = NoFile
      BY ZenonT(40), <1>2, <3>1, <3>2
    <3>6. \A r \in Procs : pc'[r] = "fork" /\ child'[r] = child'[q] => r = q
      BY ZenonT(40), <2>2, <3>1, <3>2
    <3> QED BY ZenonT(40), <3>4, <3>5, <3>6
  <2> QED BY ZenonT(40), <2>1, <2>3 DEF Loops
<1> QED BY ZenonT(40), <1>5, <1>6, <1>7, <1>10, <1>11 DEF IInv

(* A turn of the loop of fork(). *)
LEMMA ForkDupStep ==
  ASSUME IInv, NEW p \in Procs, ForkDup(p)
  PROVE  IInv'
<1> DEFINE c == child[p]
           d == fd[p]
           f == ofile[<<p, d>>]
<1>1. /\ Types /\ Counted /\ Ends /\ Inodes /\ FreeAreNone /\ Calls /\ Loops
      /\ pc[p] = "fork" /\ c \in Procs
  BY ZenonT(40) DEF IInv, ForkDup, Types
<1>2. d \in 0 .. NOFILE /\ d < NOFILE
  BY ZenonT(40), <1>1 DEF Types, ForkDup
<1>3. /\ d \in Fds /\ d + 1 \in 0 .. NOFILE
      /\ \A e \in Fds : e >= d + 1 => e >= d /\ e # d
  BY ZenonT(40), <1>2, FdLoop
<1>4. /\ pc[c] = "embryo" /\ c # p
      /\ \A q \in Procs : pc[q] = "fork" /\ child[q] = c => q = p
      /\ \A e \in Fds : e >= d => ofile[<<c, e>>] = NoFile
  BY ZenonT(40), <1>1 DEF Loops, Forking
<1>5. /\ fd' = [fd EXCEPT ![p] = d + 1]
      /\ UNCHANGED <<file, pipe, iref, pc, ret, tmp, ff, ip, child>>
      /\ \/ f = NoFile /\ UNCHANGED <<ref, ofile, panic>>
         \/ f # NoFile /\ filedup(f) /\ ofile' = [ofile EXCEPT ![<<c, d>>] = f]
  BY ZenonT(40) DEF ForkDup
<1>6. <<p, d>> \in FdPlaces /\ <<c, d>> \in FdPlaces /\ Old(f, p)
  BY ZenonT(40), <1>1, <1>3, Places, OldNames
<1>7. /\ panic' = "no" /\ ref' \in [Files -> Nat] /\ Counted'
      /\ \A g \in Files : ref'[g] = 0 => ref[g] = 0
      /\ ofile' \in [FdPlaces -> FilePtr]
      /\ \A s \in FdPlaces : s # <<c, d>> => ofile'[s] = ofile[s]
      /\ \A s \in FdPlaces : ofile'[s] = ofile[s] \/ ofile'[s] = f
  <2>1. CASE f = NoFile /\ UNCHANGED <<ref, ofile, panic>>
    <3>1. Counted'
      BY ZenonT(40), <1>1, <1>5, <2>1 DEF Counted
    <3> QED BY ZenonT(40), <1>1, <2>1, <3>1 DEF Types
  <2>2. CASE f # NoFile /\ filedup(f) /\ ofile' = [ofile EXCEPT ![<<c, d>>] = f]
    <3>1. /\ f \in Files /\ panic' = "no"
          /\ ref' = [ref EXCEPT ![f] = @ + 1] /\ ref' \in [Files -> Nat]
          /\ \A g \in Files : ref'[g] = 0 => ref[g] = 0
      BY ZenonT(40), <1>1, <1>6, <2>2, Filedup
    <3>2. ofile[<<c, d>>] = NoFile
      <4>1. d >= d
        BY <1>2
      <4> QED BY ZenonT(40), <1>3, <1>4, <4>1
    <3> HIDE DEF f, c, d
    <3>3. Counted'
      BY ZenonT(40), <1>1, <1>5, <1>6, <2>2, <3>1, <3>2, TakeFd
    <3>4. /\ ofile' \in [FdPlaces -> FilePtr]
          /\ \A s \in FdPlaces : s # <<c, d>> => ofile'[s] = ofile[s]
          /\ \A s \in FdPlaces : ofile'[s] = ofile[s] \/ ofile'[s] = f
      BY ZenonT(40), <1>1, <2>2, <3>1, Upd DEF Types, FilePtr
    <3> QED BY ZenonT(40), <3>1, <3>3, <3>4
  <2> QED BY ZenonT(40), <1>5, <2>1, <2>2
<1> HIDE DEF f, c
<1>8. /\ fd' \in [Procs -> 0 .. NOFILE] /\ fd'[p] = d + 1
      /\ \A q \in Procs : q # p => fd'[q] = fd[q]
  <2> HIDE DEF d
  <2> QED BY ZenonT(40), <1>1, <1>3, <1>5, Upd DEF Types
<1> HIDE DEF d
<1>9. Types'
  BY ZenonT(40), <1>1, <1>5, <1>7, <1>8 DEF Types
<1>10. Ends' /\ Inodes'
  BY ZenonT(40), <1>1, <1>5, SameLedgers
<1>11. FreeAreNone'
  BY ZenonT(40), <1>1, <1>5, <1>7 DEF FreeAreNone
<1>12. \A q \in Procs, e \in Fds : q # c \/ e # d => ofile'[<<q, e>>] = ofile[<<q, e>>]
  BY ZenonT(40), <1>7, Places
<1>13. Calls'
  <2>1. Writes(p)
    BY ZenonT(40), <1>5, <1>6, <1>7 DEF Writes
  <2>2. ASSUME NEW q \in Procs PROVE (pc'[q] = "pipe" => Fresh(q)') /\ InCall(q)'
    <3>1. InCall(q) /\ (pc[q] = "pipe" => q # p /\ Fresh(q))
      BY ZenonT(40), <1>1 DEF Calls
    <3>2. InCall(q)'
      BY ZenonT(40), <1>5, <3>1 DEF InCall
    <3>3. pc'[q] = "pipe" => Fresh(q)'
      BY ZenonT(40), <1>1, <1>5, <2>1, <3>1, FreshKept
    <3> QED BY ZenonT(40), <3>2, <3>3
  <2> QED BY ZenonT(40), <2>2 DEF Calls
<1>14. Loops'
  <2>1. ASSUME NEW q \in Procs PROVE Unused(q)' /\ Exiting(q)'
    <3>1. CASE q = p \/ q = c
      BY ZenonT(40), <1>1, <1>4, <1>5, <3>1 DEF Unused, Exiting
    <3>2. CASE q # p /\ q # c
      <4>1. /\ pc'[q] = pc[q] /\ ret'[q] = ret[q] /\ fd'[q] = fd[q] /\ Unused(q) /\ Exiting(q)
            /\ \A e \in Fds : ofile'[<<q, e>>] = ofile[<<q, e>>]
        BY ZenonT(40), <1>1, <1>5, <1>8, <1>12, <3>2 DEF Loops
      <4>2. Unused(q)'
        BY ZenonT(40), <4>1 DEF Unused
      <4>3. Exiting(q)'
        BY ZenonT(40), <4>1 DEF Exiting
      <4> QED BY ZenonT(40), <4>2, <4>3
    <3> QED BY ZenonT(40), <3>1, <3>2
  <2>2. Forking(p)'
    <3>1. \A e \in Fds : e >= fd'[p] => ofile'[<<c, e>>] = NoFile
      BY ZenonT(40), <1>1, <1>3, <1>4, <1>8, <1>12
    <3>2. pc'[c] = "embryo" /\ child'[p] = c
      BY ZenonT(40), <1>4, <1>5 DEF c
    <3>3. \A q \in Procs : pc'[q] = "fork" /\ child'[q] = child'[p] => q = p
      BY ZenonT(40), <1>4, <1>5, <3>2
    <3> QED BY ZenonT(40), <3>1, <3>2, <3>3 DEF Forking
  <2>3. ASSUME NEW q \in Procs, q # p PROVE Forking(q)'
    <3> SUFFICES ASSUME pc'[q] = "fork"
                 PROVE  /\ pc'[child'[q]] = "embryo"
                        /\ \A r \in Procs : pc'[r] = "fork" /\ child'[r] = child'[q] => r = q
                        /\ \A e \in Fds : e >= fd'[q] => ofile'[<<child'[q], e>>] = NoFile
      BY ZenonT(40) DEF Forking
    <3>1. pc[q] = "fork" /\ child[q] \in Procs /\ fd'[q] = fd[q] /\ child' = child /\ pc' = pc
      BY ZenonT(40), <1>1, <1>5, <1>8, <2>3 DEF Types
    <3>2. /\ pc[child[q]] = "embryo"
          /\ \A r \in Procs : pc[r] = "fork" /\ child[r] = child[q] => r = q
          /\ \A e \in Fds : e >= fd[q] => ofile[<<child[q], e>>] = NoFile
      BY ZenonT(40), <1>1, <3>1 DEF Loops, Forking
    <3>3. child[q] # c
      BY ZenonT(40), <1>4, <2>3, <3>1
    <3>4. \A e \in Fds : e >= fd'[q] => ofile'[<<child'[q], e>>] = NoFile
      BY ZenonT(40), <1>12, <3>1, <3>2, <3>3
    <3> QED BY ZenonT(40), <3>1, <3>2, <3>4
  <2> QED BY ZenonT(40), <2>1, <2>2, <2>3 DEF Loops
<1> QED BY ZenonT(40), <1>7, <1>9, <1>10, <1>11, <1>13, <1>14 DEF IInv

-----------------------------------------------------------------------------
(* The invariant, and what follows *)

(* The tables as fileinit(), pinit() and iinit() leave them. *)
LEMMA InitInv == Init => IInv
<1> SUFFICES ASSUME Init PROVE IInv
  OBVIOUS
<1>1. Types
  <2>1. \A p \in Procs : (IF p = initproc THEN "user" ELSE "unused") \in Pcs
    BY ZenonT(40) DEF Pcs
  <2>2. /\ ref \in [Files -> Nat] /\ file \in [Files -> Contents]
        /\ ofile \in [FdPlaces -> FilePtr] /\ tmp \in [Slots -> FilePtr]
        /\ ff \in [Procs -> Contents] /\ ip \in [Procs -> Inums \cup {0}]
    BY ZenonT(40), ContentsAre DEF Init, FilePtr
  <2>3. /\ iref \in [Inums -> Nat]
        /\ pipe \in [Pipes -> [readopen : BOOLEAN, writeopen : BOOLEAN]]
    BY DEF Init, NoPipe
  <2>4. /\ child \in [Procs -> Procs] /\ fd \in [Procs -> 0 .. NOFILE]
        /\ ret \in [Procs -> {"user", "iput", "exit"}] /\ pc \in [Procs -> Pcs]
    BY ZenonT(40), <2>1, FdLoop DEF Init
  <2>5. panic = "no"
    BY ZenonT(40) DEF Init
  <2> QED BY ZenonT(40), <2>2, <2>3, <2>4, <2>5 DEF Types
<1>2. /\ \A f \in Files : ref[f] = 0 /\ file[f] = None
      /\ \A s \in FdPlaces : ofile[s] = NoFile
      /\ \A s \in Slots : tmp[s] = NoFile
      /\ \A i \in Inums : iref[i] = 0
      /\ \A q \in Pipes : pipe[q] = NoPipe
      /\ \A p \in Procs : /\ ff[p] = None /\ ip[p] = 0 /\ pc[p] \in {"user", "unused"}
                          /\ ret[p] = "user"
  BY ZenonT(40) DEF Init
<1>3. Counted
  <2> SUFFICES ASSUME NEW f \in Files
               PROVE  ref[f] = Count(FdPlaces, ofile, f) + Count(Slots, tmp, f)
    BY ZenonT(40) DEF Counted
  <2>1. Count(FdPlaces, ofile, f) = 0 /\ Count(Slots, tmp, f) = 0 /\ ref[f] = 0
    <3>1. /\ \A s \in FdPlaces : ofile[s] # f
          /\ \A s \in Slots : tmp[s] # f
      BY ZenonT(40), <1>2, NotNull
    <3> QED BY ZenonT(40), <1>2, <3>1, CountZero
  <2> QED BY <2>1
<1>4. ASSUME NEW v, v # None PROVE Owners(file, ff, v) = 0
  <2>1. Count(Files, file, v) = 0 /\ Count(Procs, ff, v) = 0
    BY ZenonT(40), <1>2, <1>4, CountZero
  <2> QED BY <2>1 DEF Owners
<1>5. \A x, w : Owners(file, ff, Inode(x, w)) = 0 /\ Owners(file, ff, End(x, w)) = 0
  BY ZenonT(40), <1>4, NotNone
<1>6. Ends
  <2>1. ASSUME NEW q \in Pipes, NEW w \in BOOLEAN PROVE ~EndIsOpen(q, w)
    <3>1. pipe[q] = NoPipe
      BY ZenonT(40), <1>2
    <3> QED BY <3>1 DEF EndIsOpen, NoPipe
  <2> QED BY ZenonT(40), <1>5, <2>1 DEF Ends
<1>7. Inodes
  <2> SUFFICES ASSUME NEW i \in Inums
               PROVE  iref[i] = Count(Procs, ip, i) + Owners(file, ff, Inode(i, TRUE))
                                + Owners(file, ff, Inode(i, FALSE))
    BY ZenonT(40) DEF Inodes
  <2>1. /\ Count(Procs, ip, i) = 0 /\ iref[i] = 0
        /\ Owners(file, ff, Inode(i, TRUE)) = 0 /\ Owners(file, ff, Inode(i, FALSE)) = 0
    <3>1. \A p \in Procs : ip[p] # i
      BY ZenonT(40), <1>2, FileTableAssumption
    <3>2. Count(Procs, ip, i) = 0
      BY ZenonT(40), <3>1, CountZero
    <3> QED BY ZenonT(40), <1>2, <1>5, <3>2
  <2>2. 0 = 0 + 0 + 0
    OBVIOUS
  <2> QED BY ZenonT(40), <2>1, <2>2
<1>8. FreeAreNone
  BY ZenonT(40), <1>2 DEF FreeAreNone
<1>9. Calls
  <2>1. ASSUME NEW p \in Procs PROVE pc[p] # "pipe" /\ InCall(p)
    BY ZenonT(40), <1>2, Places DEF InCall
  <2> QED BY ZenonT(40), <2>1 DEF Calls
<1>10. Loops
  BY ZenonT(40), <1>2, Places DEF Loops, Unused, Forking, Exiting
<1> QED BY ZenonT(40), <1>1, <1>3, <1>6, <1>7, <1>8, <1>9, <1>10 DEF IInv

(* Every step of every process keeps the invariant. *)
LEMMA NextInv == IInv /\ [Next]_vars => IInv'
<1> SUFFICES ASSUME IInv, [Next]_vars PROVE IInv'
  OBVIOUS
<1>1. ASSUME Next PROVE IInv'
  <2>1. PICK p \in Procs :
          \/ Fileclose(p) \/ LetGo(p)
          \/ \E i \in Inums : Open(p, i)
          \/ OpenFile(p) \/ OpenClose(p) \/ OpenIput(p)
          \/ \E d \in Fds : Dup(p, d) \/ Close(p, d)
          \/ \E c \in Procs : Fork(p, c)
          \/ ForkDup(p) \/ Forked(p)
          \/ Exit(p) \/ ExitClose(p) \/ Exited(p)
          \/ Pipe(p) \/ PipeBad(p) \/ PipeDone(p) \/ PipeUndo(p)
    BY ZenonT(40), <1>1 DEF Next
  <2>2. CASE Fileclose(p) \/ LetGo(p)
    BY ZenonT(40), <2>2, FilecloseStep, LetGoStep
  <2>3. CASE OpenFile(p) \/ OpenClose(p) \/ OpenIput(p) \/ \E i \in Inums : Open(p, i)
    BY ZenonT(40), <2>3, OpenFileStep, OpenCloseStep, OpenIputStep, OpenStep
  <2>4. CASE \E d \in Fds : Dup(p, d) \/ Close(p, d)
    BY ZenonT(40), <2>4, DupStep, CloseStep
  <2>5. CASE ForkDup(p) \/ Forked(p) \/ \E c \in Procs : Fork(p, c)
    BY ZenonT(40), <2>5, ForkDupStep, ForkedStep, ForkStep
  <2>6. CASE Exit(p) \/ ExitClose(p) \/ Exited(p)
    BY ZenonT(40), <2>6, ExitStep, ExitCloseStep, ExitedStep
  <2>7. CASE Pipe(p) \/ PipeBad(p) \/ PipeDone(p) \/ PipeUndo(p)
    BY ZenonT(40), <2>7, PipeStep, PipeBadStep, PipeDoneStep, PipeUndoStep
  <2> QED BY ZenonT(40), <2>1, <2>2, <2>3, <2>4, <2>5, <2>6, <2>7
<1>2. ASSUME UNCHANGED vars PROVE IInv'
  <2>1. UNCHANGED <<ref, file, ofile, pipe, iref, panic, pc, ret, tmp, ff, ip, child, fd>>
    BY ZenonT(40), <1>2 DEF vars, locals
  <2>2. Types' /\ Counted' /\ FreeAreNone'
    BY ZenonT(40), <2>1 DEF IInv, Types, Counted, FreeAreNone
  <2>3. Ends' /\ Inodes'
    BY ZenonT(40), <2>1, SameLedgers DEF IInv
  <2>4. Calls'
    BY ZenonT(40), <2>1 DEF IInv, Calls, Fresh, InCall
  <2>5. Loops'
    BY ZenonT(40), <2>1 DEF IInv, Loops, Unused, Forking, Exiting
  <2> QED BY ZenonT(40), <2>2, <2>3, <2>4, <2>5 DEF IInv
<1> QED BY ZenonT(40), <1>1, <1>2

(* The counts of the inductive invariant always hold. *)
THEOREM LedgersBalance == Spec => []IInv
BY InitInv, NextInv, PTL DEF Spec

(* An entry of the table that stands for something is in use. *)
LEMMA StandingOwners ==
  ASSUME Types, FreeAreNone, NEW c, c # None
  PROVE  Standing(c) = Owners(file, ff, c)
<1>1. \A f \in Files : ref[f] \in Nat /\ (ref[f] = 0 => file[f] = None)
  BY ZenonT(40) DEF Types, FreeAreNone
<1>2. \A n \in Nat : n > 0 <=> n # 0
  OBVIOUS
<1>3. \A f \in Files : (ref[f] > 0 /\ file[f] = c) <=> file[f] = c
  BY ZenonT(40), <1>1, <1>2
<1>4. {f \in Files : ref[f] > 0 /\ file[f] = c} = {f \in Files : file[f] = c}
  BY ZenonT(40), <1>3
<1> QED BY ZenonT(40), <1>4 DEF Standing, Owners, Count

(* f->ref is exact whatever the processes do: the table of open files is   *)
(* shared without leaks and without an early close, filedup() and          *)
(* fileclose() never panic, and exit() leaves no descriptor open.          *)
THEOREM RefsCounted == Spec => []TypeOK
<1>1. IInv => TypeOK
  <2> SUFFICES ASSUME IInv PROVE TypeOK
    OBVIOUS
  <2>1. Types /\ Counted /\ Loops
    BY ZenonT(40) DEF IInv
  <2>2. \A f \in Files : ref[f] = Cardinality(Descriptors(f)) + Cardinality(Locals(f))
    BY ZenonT(40), <2>1 DEF Counted, Count, Descriptors, Locals
  <2>3. ASSUME NEW p \in Procs, pc[p] = "unused" PROVE FreeFds(p) = Fds
    <3>1. \A d \in Fds : ofile[<<p, d>>] = NoFile
      BY ZenonT(40), <2>1, <2>3 DEF Loops, Unused
    <3> QED BY ZenonT(40), <3>1 DEF FreeFds
  <2> QED BY ZenonT(40), <2>1, <2>2, <2>3 DEF TypeOK, Types
<1> QED BY <1>1, LedgersBalance, PTL

(* pipeclose() is called exactly once for each end, by the last close of   *)
(* the last process that shares it.                                        *)
THEOREM PipeEndsClosedOnce == Spec => []EndsOpen
<1>1. IInv => EndsOpen
  <2> SUFFICES ASSUME IInv PROVE EndsOpen
    OBVIOUS
  <2>1. Types /\ FreeAreNone /\ Ends
    BY ZenonT(40) DEF IInv
  <2>2. \A q, w : Standing(End(q, w)) = Owners(file, ff, End(q, w))
    BY ZenonT(40), <2>1, StandingOwners, NotNone
  <2> QED BY ZenonT(40), <2>1, <2>2 DEF EndsOpen, Ends
<1> QED BY <1>1, LedgersBalance, PTL

(* iput() is called exactly once for every inode that open() took, on each *)
(* of its paths and after the last close.                                  *)
THEOREM InodesPutOnce == Spec => []InodeRefs
<1>1. IInv => InodeRefs
  <2> SUFFICES ASSUME IInv PROVE InodeRefs
    OBVIOUS
  <2>1. Types /\ FreeAreNone /\ Inodes
    BY ZenonT(40) DEF IInv
  <2>2. \A i, w : Standing(Inode(i, w)) = Owners(file, ff, Inode(i, w))
    BY ZenonT(40), <2>1, StandingOwners, NotNone
  <2> QED BY ZenonT(40), <2>1, <2>2 DEF InodeRefs, Inodes, Count
<1> QED BY <1>1, LedgersBalance, PTL
=============================================================================
