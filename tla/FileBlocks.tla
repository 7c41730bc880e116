---------------------------- MODULE FileBlocks ------------------------------
(***************************************************************************)
(* The contents of files: balloc, bfree, bmap, itrunc, readi and writei of *)
(* kernel/fs.c, under fileread and filewrite of kernel/file.c, which cut a *)
(* long write into transactions.  Processes share struct files, and with   *)
(* them offsets; files share the blocks of the disk, which run out.        *)
(*                                                                         *)
(* The data itself is left out: what matters is which block a byte is in.  *)
(* A step is one turn of the loop of writei(), or all of another call's    *)
(* work under the lock of the inode.                                       *)
(***************************************************************************)
EXTENDS Integers, FiniteSets, FiniteSetsExt

CONSTANTS Procs, NoProc,
          Inums, Files,
          Ino,          \* Ino[f]: the inode of an open file
          NBLOCKS,      \* data blocks of the disk
          NDIRECT, NINDIRECT, BSIZE, MAXOPBLOCKS,
          ReadSizes, WriteSizes   \* lengths of reads and of writes

Blocks == 1 .. NBLOCKS
MAXFILE == NDIRECT + NINDIRECT

(* The block of the inode and the block of the bitmap (the disk is so      *)
(* small that there is one).                                               *)
INODE == -1
BITMAP == -2

ASSUME FileBlocksAssumption ==
  /\ Ino \in [Files -> Inums] /\ NoProc \notin Procs
  /\ {NBLOCKS, NDIRECT, NINDIRECT, BSIZE} \subseteq Nat \ {0}
  /\ MAXOPBLOCKS \in Nat /\ MAXOPBLOCKS >= 6
  /\ ReadSizes \cup WriteSizes \subseteq Nat \ {0}

VARIABLES
  bitmap,   \* the blocks in use
  addrs,    \* addrs[i][bn]: the blocks of an inode, those of its indirect
            \* block included; 0 for none
  ind,      \* ind[i]: the indirect block, addrs[NDIRECT] of the code
  size,     \* ip->size
  lock,     \* ip->lock
  off,      \* f->off
  pc, loc,  \* where a process is in filewrite(), and its locals
  panic

vars == <<bitmap, addrs, ind, size, lock, off, pc, loc, panic>>

(* f, n: the call's file and what it has not written yet; start, off, n1:  *)
(* the writei() at work; tx: the blocks that its transaction has written   *)
Idle == [f |-> 0, n |-> 0, start |-> 0, off |-> 0, n1 |-> 0, tx |-> {}]

Init ==
  /\ bitmap = {}
  /\ addrs = [i \in Inums |-> [bn \in 0 .. MAXFILE - 1 |-> 0]]
  /\ ind = [i \in Inums |-> 0]
  /\ size = [i \in Inums |-> 0]
  /\ lock = [i \in Inums |-> NoProc]
  /\ off = [f \in Files |-> 0]
  /\ pc = [p \in Procs |-> "user"]
  /\ loc = [p \in Procs |-> Idle]
  /\ panic = "no"

-----------------------------------------------------------------------------
(* balloc() takes the first free block, or fails with 0. *)
balloc(used) == IF Blocks \subseteq used THEN 0 ELSE Min(Blocks \ used)

(* bmap(i, bn): first the indirect block if bn needs one, then the block.  *)
NewInd(i, bn) == IF bn < NDIRECT \/ ind[i] # 0 THEN ind[i] ELSE balloc(bitmap)

NewBlock(i, bn) ==
  IF bn < MAXFILE /\ addrs[i][bn] # 0 THEN addrs[i][bn]
  ELSE IF bn >= NDIRECT /\ NewInd(i, bn) = 0 THEN 0
  ELSE balloc(bitmap \cup {NewInd(i, bn)})

(* The blocks that bmap() writes: the bitmap, the new blocks, and the      *)
(* indirect block that names one of them.                                  *)
BmapWrites(i, bn) ==
  LET b == NewBlock(i, bn)
      new == ({b, NewInd(i, bn)} \ {0}) \ bitmap
  IN  IF new = {} THEN {}
      ELSE new \cup {BITMAP} \cup (IF bn >= NDIRECT THEN {NewInd(i, bn)} ELSE {})

(* itrunc(): every block of i; the variant forgets the indirect block.     *)
BlocksOf_NoIndirect(i) == {addrs[i][bn] : bn \in 0 .. MAXFILE - 1} \ {0}
BlocksOf(i) == ({addrs[i][bn] : bn \in 0 .. MAXFILE - 1} \cup {ind[i]}) \ {0}

bfree(S) ==
  /\ panic' = IF S \subseteq bitmap THEN panic ELSE "freeing free block"
  /\ bitmap' = bitmap \ S

itrunc(i) ==
  /\ bfree(BlocksOf(i))
  /\ addrs' = [addrs EXCEPT ![i] = [bn \in 0 .. MAXFILE - 1 |-> 0]]
  /\ ind' = [ind EXCEPT ![i] = 0]
  /\ size' = [size EXCEPT ![i] = 0]

-----------------------------------------------------------------------------
InUse(f) == \E p \in Procs : pc[p] # "user" /\ loc[p].f = f

(* The file is closed and opened again. *)
Open(f) ==
  /\ ~InUse(f)
  /\ off' = [off EXCEPT ![f] = 0]
  /\ UNCHANGED <<bitmap, addrs, ind, size, lock, pc, loc, panic>>

(* Somebody opens it with O_TRUNC; the offsets of others stay. *)
Truncate(i) ==
  /\ lock[i] = NoProc
  /\ itrunc(i)
  /\ UNCHANGED <<lock, off, pc, loc>>

(* How many bytes readi() delivers; it fails as a whole if copyout() does. *)
readi(i, o, n) == IF o > size[i] THEN 0 ELSE Min({n, size[i] - o})

(* fileread() *)
Read(f, n) ==
  LET i == Ino[f]
      r == readi(i, off[f], n)
  IN  /\ lock[i] = NoProc /\ r > 0
      /\ off' = [off EXCEPT ![f] = @ + r]
      /\ UNCHANGED <<bitmap, addrs, ind, size, lock, pc, loc, panic>>

(* filewrite() is called for n bytes. *)
Write(p, f, n) ==
  /\ pc[p] = "user"
  /\ pc' = [pc EXCEPT ![p] = "chunk"]
  /\ loc' = [loc EXCEPT ![p] = [Idle EXCEPT !.f = f, !.n = n]]
  /\ UNCHANGED <<bitmap, addrs, ind, size, lock, off, panic>>

(* What one transaction may write; the variant leaves no room for blocks   *)
(* other than those of the data.                                           *)
MaxChunk_NoSlop == (MAXOPBLOCKS - 1 - 1) * BSIZE
MaxChunk == ((MAXOPBLOCKS - 1 - 1 - 2) \div 2) * BSIZE

(* writei() refuses an offset past the end and a file that is too large.   *)
Refused(i, o, n) == o > size[i] \/ o + n > MAXFILE * BSIZE

(* ilock() and its absence *)
Locked_Not(i, p) == lock
Locked(i, p) == [lock EXCEPT ![i] = p]

Return(p) ==
  /\ pc' = [pc EXCEPT ![p] = "user"]
  /\ loc' = [loc EXCEPT ![p] = Idle]

(* begin_op(), ilock() and the tests at the head of writei(). *)
Chunk(p) ==
  LET i == Ino[loc[p].f]
      n1 == Min({loc[p].n, MaxChunk})
      o == off[loc[p].f]
  IN  /\ pc[p] = "chunk" /\ lock[i] = NoProc
      /\ IF Refused(i, o, n1)
         THEN Return(p) /\ UNCHANGED lock
         ELSE /\ lock' = Locked(i, p)
              /\ pc' = [pc EXCEPT ![p] = "writei"]
              /\ loc' = [loc EXCEPT ![p].start = o, ![p].off = o,
                                    ![p].n1 = n1, ![p].tx = {INODE}]
      /\ UNCHANGED <<bitmap, addrs, ind, size, off, panic>>

(* One block: bmap(), and either_copyin() unless the disk is full or the   *)
(* user's memory is missing.                                               *)
WriteBlock(p) ==
  LET l == loc[p]
      i == Ino[l.f]
      bn == l.off \div BSIZE
      b == NewBlock(i, bn)
      m == Min({l.start + l.n1 - l.off, BSIZE - (l.off % BSIZE)})
  IN  /\ pc[p] = "writei" /\ l.off < l.start + l.n1
      /\ panic' = IF bn >= MAXFILE THEN "bmap: out of range" ELSE panic
      /\ addrs' = [addrs EXCEPT ![i][bn] = b]
      /\ ind' = [ind EXCEPT ![i] = NewInd(i, bn)]
      /\ bitmap' = bitmap \cup ({b, NewInd(i, bn)} \ {0})
      /\ \/ /\ b # 0
            /\ loc' = [loc EXCEPT ![p].off = @ + m,
                         ![p].tx = @ \cup BmapWrites(i, bn) \cup {b}]
            /\ UNCHANGED pc
         \/ /\ loc' = [loc EXCEPT ![p].tx = @ \cup BmapWrites(i, bn)]
            /\ pc' = [pc EXCEPT ![p] = "short"]
      /\ UNCHANGED <<size, lock, off>>

(* ip->size after writei(); the variant takes what was asked for. *)
NewSize_Asked(l) == Max({size[Ino[l.f]], l.start + l.n1})
NewSize(l) == Max({size[Ino[l.f]], l.off})

(* The end of writei() and of this turn of filewrite(). *)
WriteDone(p) ==
  LET l == loc[p]
      i == Ino[l.f]
      done == l.off - l.start
  IN  /\ \/ pc[p] = "writei" /\ done = l.n1
         \/ pc[p] = "short"
      /\ size' = [size EXCEPT ![i] = NewSize(l)]
      /\ off' = [off EXCEPT ![l.f] = @ + done]
      /\ lock' = [lock EXCEPT ![i] = NoProc]
      /\ IF pc[p] = "short" \/ done = l.n
         THEN Return(p)
         ELSE /\ pc' = [pc EXCEPT ![p] = "chunk"]
              /\ loc' = [loc EXCEPT ![p] = [Idle EXCEPT !.f = l.f, !.n = l.n - done]]
      /\ UNCHANGED <<bitmap, addrs, ind, panic>>

-----------------------------------------------------------------------------
Next ==
  /\ panic = "no"
  /\ \/ \E f \in Files : Open(f)
     \/ \E i \in Inums : Truncate(i)
     \/ \E f \in Files, n \in ReadSizes : Read(f, n)
     \/ \E p \in Procs :
          \/ \E f \in Files, n \in WriteSizes : Write(p, f, n)
          \/ Chunk(p) \/ WriteBlock(p) \/ WriteDone(p)

Spec == Init /\ [][Next]_vars

-----------------------------------------------------------------------------
(* The block that an inode names at a place: those of the file, and last   *)
(* the indirect block.                                                     *)
Places == 0 .. MAXFILE
Named(i, s) == IF s = MAXFILE THEN ind[i] ELSE addrs[i][s]

(* A block is marked in the bitmap exactly if one inode has it, once: two  *)
(* files never share a block, and no block is lost, whatever writes fail   *)
(* half-way and whichever files are truncated.                             *)
BlocksOwned ==
  /\ \A b \in Blocks : b \in bitmap <=> \E i \in Inums, s \in Places : Named(i, s) = b
  /\ \A i, j \in Inums, s, t \in Places :
       Named(i, s) = Named(j, t) /\ Named(i, s) # 0 => i = j /\ s = t

(* Every byte below ip->size has a block, so that readi() allocates none   *)
(* and returns no byte that was never written; a block of the indirect     *)
(* part implies the indirect block.                                        *)
Mapped ==
  \A i \in Inums, bn \in 0 .. MAXFILE - 1 :
    /\ bn * BSIZE < size[i] => addrs[i][bn] # 0
    /\ bn >= NDIRECT /\ addrs[i][bn] # 0 => ind[i] # 0

(* No transaction of filewrite() writes more blocks than begin_op() has    *)
(* reserved for it, however the write is aligned.                          *)
TxFits == \A p \in Procs : Cardinality(loc[p].tx) <= MAXOPBLOCKS

(* Writes through one struct file follow each other: the bytes that a      *)
(* transaction wrote begin where f->off was, and f->off moves over exactly *)
(* these bytes, although other processes use the same offset.              *)
WritesAppend ==
  [][\A p \in Procs :
       pc[p] \in {"writei", "short"} /\ pc'[p] \in {"user", "chunk"}
         => LET l == loc[p]
            IN off[l.f] = l.start /\ off'[l.f] = l.off]_vars
=============================================================================
