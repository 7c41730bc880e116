------------------------------- MODULE Inode --------------------------------
(***************************************************************************)
(* Inodes, directories and path names: the upper half of kernel/fs.c and   *)
(* the calls of kernel/sysfile.c that change the tree (open with O_CREATE, *)
(* mkdir, mknod, link, unlink, chdir), between processes that race for the *)
(* same names.  An inode number stands for its slot in the inode table.    *)
(*                                                                         *)
(* A step begins where a call waits for the sleep-lock of an inode or      *)
(* enters iput(); what it does until the lock is free again is one step,   *)
(* except that create and unlink keep a directory locked while they wait   *)
(* for a second inode, and that iput() frees an inode in three steps.      *)
(***************************************************************************)
EXTENDS Integers, FiniteSets, FiniteSetsExt, Sequences

CONSTANTS Threads, NoThread,
          Inums,      \* inode numbers of the disk, from 1 on
          Names,      \* names of directory entries
          Calls,      \* the system calls that processes make
          Paths       \* the paths they give: [abs, elems]

ROOTINO == 1
DotDot == ".."

ASSUME InodeAssumption ==
  /\ ROOTINO \in Inums /\ 0 \notin Inums
  /\ DotDot \notin Names /\ NoThread \notin Threads
  /\ \A p \in Paths : p.elems # <<>>

VARIABLES
  dinode,   \* type and nlink on the disk
  entries,  \* the contents of a directory, ".." included; 0 for none
  itable,   \* struct inode: ref, valid and the copy of the dinode
  lock,     \* ip->lock
  cwd, fd,  \* of each process: its directory, and an open file or 0
  pc, loc,  \* of each process: where it is in a call, and its locals
  panic

diskVars == <<dinode, entries>>
vars == <<dinode, entries, itable, lock, cwd, fd, pc, loc, panic>>

NoInode == [ref |-> 0, valid |-> FALSE, type |-> "free", nlink |-> 0]
NoEntries == [n \in Names \cup {DotDot} |-> 0]
NoPath == [abs |-> FALSE, elems |-> <<>>]
Idle == [call |-> "none", path |-> <<>>, new |-> NoPath, ip |-> 0, dp |-> 0,
         old |-> 0, puts |-> <<>>, then |-> "user"]

(* An empty file system; every process is in its root. *)
Init ==
  /\ dinode = [i \in Inums |-> IF i = ROOTINO THEN [type |-> "dir", nlink |-> 1]
                               ELSE [type |-> "free", nlink |-> 0]]
  /\ entries = [i \in Inums |-> IF i = ROOTINO
                                THEN [NoEntries EXCEPT ![DotDot] = ROOTINO]
                                ELSE NoEntries]
  /\ itable = [i \in Inums |-> IF i = ROOTINO
                 THEN [NoInode EXCEPT !.ref = Cardinality(Threads)] ELSE NoInode]
  /\ lock = [i \in Inums |-> NoThread]
  /\ cwd = [t \in Threads |-> ROOTINO]
  /\ fd = [t \in Threads |-> 0]
  /\ pc = [t \in Threads |-> "user"]
  /\ loc = [t \in Threads |-> Idle]
  /\ panic = "no"

-----------------------------------------------------------------------------
(* The inode table, as functions from tables to tables *)

(* iget(), and idup() of an inode that has references; the variant forgets *)
(* to count.                                                               *)
iget_NotCounted(tab, i) ==
  [tab EXCEPT ![i] = IF @.ref > 0 THEN @ ELSE [NoInode EXCEPT !.ref = 1]]
iget(tab, i) ==
  [tab EXCEPT ![i] = IF @.ref > 0 THEN [@ EXCEPT !.ref = @ + 1]
                     ELSE [NoInode EXCEPT !.ref = 1]]

(* ref--; a slot without references will be recycled. *)
Drop(tab, i) ==
  [tab EXCEPT ![i] = IF @.ref = 1 THEN NoInode ELSE [@ EXCEPT !.ref = @ - 1]]

(* ilock(i) waits for the lock, and reads the inode if it is not valid.    *)
Lockable(i) == lock[i] = NoThread
ilock(tab, i) ==
  [tab EXCEPT ![i] = IF @.valid THEN @
                        ELSE [ref |-> @.ref, valid |-> TRUE,
                              type |-> dinode[i].type, nlink |-> dinode[i].nlink]]
ilockPanic(tab, i) ==
  IF tab[i].ref < 1 THEN "ilock"
  ELSE IF ~tab[i].valid /\ dinode[i].type = "free" THEN "ilock: no type"
  ELSE panic

(* iupdate() after a change of i. *)
iupdate(d, tab, i) ==
  [d EXCEPT ![i] = [type |-> tab[i].type, nlink |-> tab[i].nlink]]

Goto(t, l, label) ==
  /\ loc' = [loc EXCEPT ![t] = l]
  /\ pc' = [pc EXCEPT ![t] = label]

(* The process goes on at label after it has called iput() for each of     *)
(* puts; what a call that ends does not use any more is cleared.           *)
Put(t, l, puts, label) ==
  Goto(t, IF label \in {"user", "bad"}
          THEN [Idle EXCEPT !.old = IF label = "bad" THEN l.old ELSE 0,
                            !.puts = puts, !.then = label]
          ELSE [l EXCEPT !.dp = 0, !.puts = puts, !.then = label],
       "iput")

Return(t) == Goto(t, Idle, "user")

(* The next inode to put has been put. *)
NextPut(t) ==
  LET rest == Tail(loc[t].puts)
  IN  IF rest # <<>> THEN Goto(t, [loc[t] EXCEPT !.puts = rest], "iput")
      ELSE IF loc[t].then = "user" THEN Return(t)
      ELSE Goto(t, [loc[t] EXCEPT !.puts = <<>>, !.then = "user"], loc[t].then)

(* The reference is the last one and the inode has no link; the variant    *)
(* does not look for other references.                                     *)
LastPut_AnyRef(i) == itable[i].valid /\ itable[i].nlink = 0
LastPut(i) == itable[i].ref = 1 /\ itable[i].valid /\ itable[i].nlink = 0

(* iput(): the last reference to an inode without links truncates it and   *)
(* frees it on disk.                                                       *)
Iput(t) ==
  /\ pc[t] = "iput"
  /\ LET i == Head(loc[t].puts)
     IN  IF LastPut(i)
         THEN /\ Lockable(i)
              /\ lock' = [lock EXCEPT ![i] = t]
              /\ entries' = [entries EXCEPT ![i] = NoEntries]
              /\ itable' = [itable EXCEPT ![i].type = "free"]
              /\ dinode' = iupdate(dinode, itable', i)
              /\ Goto(t, loc[t], "iput_free")
         ELSE /\ itable' = Drop(itable, i)
              /\ NextPut(t)
              /\ UNCHANGED <<dinode, entries, lock>>
  /\ UNCHANGED <<cwd, fd, panic>>

(* The freed inode may already have been allocated again: its copy in the  *)
(* table is no longer valid.  The variant leaves it valid.                 *)
Invalidated_Not(i) == itable
Invalidated(i) == [itable EXCEPT ![i].valid = FALSE]

IputFree(t) ==
  /\ pc[t] = "iput_free"
  /\ LET i == Head(loc[t].puts)
     IN  /\ itable' = Invalidated(i)
         /\ lock' = [lock EXCEPT ![i] = NoThread]
  /\ Goto(t, loc[t], "iput_drop")
  /\ UNCHANGED <<diskVars, cwd, fd, panic>>

IputDrop(t) ==
  /\ pc[t] = "iput_drop"
  /\ itable' = Drop(itable, Head(loc[t].puts))
  /\ NextPut(t)
  /\ UNCHANGED <<diskVars, lock, cwd, fd, panic>>

-----------------------------------------------------------------------------
(* namex() *)

Start(t, p) == IF p.abs THEN ROOTINO ELSE cwd[t]

(* The call needs the parent of the path that is being walked. *)
WantsParent(l) == l.call \in {"create", "mkdir", "mknod", "unlink"} \/ l.old # 0

(* What a call does when its path leads nowhere. *)
Failed(l) == IF l.old # 0 THEN "bad" ELSE "user"

(* The inode number under a name of directory i, or 0; and the contents of *)
(* the directories after a new entry of d.                                 *)
dirlookup(i, name) == entries[i][name]
dirlink(es, d, name, inum) == [es EXCEPT ![d][name] = inum]

(* One turn of the loop of namex() with locals l and inode table tab0:     *)
(* ilock, dirlookup and iunlock; iput follows.                             *)
Walk(t, l, tab0) ==
  LET name == Head(l.path)
      rest == Tail(l.path)
      next == dirlookup(l.ip, name)
      tab == ilock(tab0, l.ip)
  IN  /\ Lockable(l.ip)
      /\ panic' = ilockPanic(tab0, l.ip)
      /\ IF WantsParent(l) /\ rest = <<>> /\ tab[l.ip].type = "dir"
         THEN /\ itable' = tab
              /\ Goto(t, [l EXCEPT !.dp = l.ip, !.ip = 0], "parent")
         ELSE IF tab[l.ip].type # "dir" \/ next = 0
         THEN itable' = tab /\ Put(t, l, <<l.ip>>, Failed(l))
         ELSE /\ itable' = iget(tab, next)
              /\ Put(t, [l EXCEPT !.ip = next, !.path = rest], <<l.ip>>,
                     IF rest = <<>> THEN "found" ELSE "namex")
      /\ UNCHANGED <<diskVars, lock, cwd, fd>>

(* A system call with a path, and for link() a second one, up to the first *)
(* turn of namex().                                                        *)
Begin(t, c, p, q) ==
  /\ pc[t] = "user"
  /\ Walk(t, [Idle EXCEPT !.call = c, !.path = p.elems, !.new = q,
                          !.ip = Start(t, p)], iget(itable, Start(t, p)))

Namex(t) == pc[t] = "namex" /\ Walk(t, loc[t], itable)

-----------------------------------------------------------------------------
(* create(), for open with O_CREATE, mkdir and mknod *)

TypeFor(call) ==
  CASE call = "mkdir" -> "dir" [] call = "mknod" -> "device" [] OTHER -> "file"

(* ialloc() takes the first free inode. *)
Free == {i \in Inums : dinode[i].type = "free"}
ialloc == Min(Free)

(* dirlookup() of the last name in the locked parent dp *)
DirPanic(dp) == IF ilock(itable, dp)[dp].type # "dir" THEN "dirlookup not DIR"
                ELSE ilockPanic(itable, dp)

(* dp stays locked while the call waits for the second inode. *)
KeepLocked(t, dp) == [lock EXCEPT ![dp] = t]

(* The name exists, or ialloc() takes the first free inode, or there is    *)
(* none.  In the second case dp stays locked.                              *)
Create(t) ==
  LET l == loc[t]
      e == dirlookup(l.dp, Head(l.path))
      tab == ilock(itable, l.dp)
  IN  /\ pc[t] = "parent" /\ l.call \in {"create", "mkdir", "mknod"}
      /\ Lockable(l.dp)
      /\ panic' = DirPanic(l.dp)
      /\ IF e # 0
         THEN /\ itable' = iget(tab, e)
              /\ Put(t, [l EXCEPT !.ip = e], <<l.dp>>, "exists")
              /\ UNCHANGED <<dinode, lock>>
         ELSE IF Free = {}
         THEN /\ itable' = tab
              /\ Put(t, l, <<l.dp>>, "user")
              /\ UNCHANGED <<dinode, lock>>
         ELSE /\ dinode' = [dinode EXCEPT ![ialloc] =
                              [type |-> TypeFor(l.call), nlink |-> 0]]
              /\ itable' = iget(tab, ialloc)
              /\ lock' = KeepLocked(t, l.dp)
              /\ Goto(t, [l EXCEPT !.ip = ialloc], "new")
      /\ UNCHANGED <<entries, cwd, fd>>

(* sys_open() gets a file for ip, or finds no free file or descriptor, or  *)
(* refuses to write a directory or to open a device that does not exist.   *)
(* It first puts the inodes of puts.                                       *)
OpenFile(t, l, puts) ==
  \/ /\ fd[t] = 0
     /\ fd' = [fd EXCEPT ![t] = l.ip]
     /\ IF puts = <<>> THEN Return(t) ELSE Put(t, l, puts, "user")
  \/ Put(t, l, Append(puts, l.ip), "user") /\ UNCHANGED fd

(* The name was there: open() takes a file or device, the others fail. *)
Exists(t) ==
  LET l == loc[t]
      tab == ilock(itable, l.ip)
  IN  /\ pc[t] = "exists" /\ Lockable(l.ip)
      /\ panic' = ilockPanic(itable, l.ip)
      /\ itable' = tab
      /\ IF l.call = "create" /\ tab[l.ip].type \in {"file", "device"}
         THEN OpenFile(t, l, <<>>)
         ELSE Put(t, l, <<l.ip>>, "user") /\ UNCHANGED fd
      /\ UNCHANGED <<diskVars, lock, cwd>>

(* The ".." of a new directory is a link to its parent; the variant does   *)
(* not count it.                                                           *)
ParentLinks_Same(n, isdir) == n
ParentLinks(n, isdir) == IF isdir THEN n + 1 ELSE n

(* The new inode is locked, filled in and linked into dp; or the disk has  *)
(* no block for the entry, and it is given up.                             *)
CreateNew(t) ==
  LET l == loc[t]
      isdir == l.call = "mkdir"
      tab == [ilock(itable, l.ip) EXCEPT ![l.ip].nlink = 1,
                                 ![l.dp].nlink = ParentLinks(@, isdir)]
  IN  /\ pc[t] = "new" /\ Lockable(l.ip)
      /\ panic' = ilockPanic(itable, l.ip)
      /\ itable' = tab
      /\ dinode' = iupdate(iupdate(dinode, tab, l.ip), tab, l.dp)
      /\ LET es == IF isdir THEN dirlink(entries, l.ip, DotDot, l.dp) ELSE entries
         IN  entries' = dirlink(es, l.dp, Head(l.path), l.ip)
      /\ lock' = [lock EXCEPT ![l.dp] = NoThread]
      /\ IF l.call = "create" THEN OpenFile(t, l, <<l.dp>>)
         ELSE Put(t, l, <<l.dp, l.ip>>, "user") /\ UNCHANGED fd
      /\ UNCHANGED cwd

CreateFails(t) ==
  LET l == loc[t]
      tab == [ilock(itable, l.ip) EXCEPT ![l.ip].nlink = 0]
  IN  /\ pc[t] = "new" /\ Lockable(l.ip)
      /\ panic' = ilockPanic(itable, l.ip)
      /\ itable' = tab
      /\ dinode' = iupdate(dinode, tab, l.ip)
      /\ lock' = [lock EXCEPT ![l.dp] = NoThread]
      /\ Put(t, l, <<l.ip, l.dp>>, "user")
      /\ UNCHANGED <<entries, cwd, fd>>

-----------------------------------------------------------------------------
(* unlink() *)

(* Up to ilock(ip): dp stays locked if the name exists. *)
UnlinkLookup(t) ==
  LET l == loc[t]
      e == dirlookup(l.dp, Head(l.path))
      tab == ilock(itable, l.dp)
  IN  /\ pc[t] = "parent" /\ l.call = "unlink" /\ Lockable(l.dp)
      /\ panic' = DirPanic(l.dp)
      /\ IF Head(l.path) = DotDot \/ e = 0
         THEN /\ itable' = tab
              /\ Put(t, l, <<l.dp>>, "user")
              /\ UNCHANGED lock
         ELSE /\ itable' = iget(tab, e)
              /\ lock' = KeepLocked(t, l.dp)
              /\ Goto(t, [l EXCEPT !.ip = e], "unlink")
      /\ UNCHANGED <<diskVars, cwd, fd>>

(* isdirempty() *)
IsDirEmpty(i) == \A n \in Names : entries[i][n] = 0

Unlink(t) ==
  LET l == loc[t]
      tab0 == ilock(itable, l.ip)
      isdir == tab0[l.ip].type = "dir"
      tab == [tab0 EXCEPT ![l.ip].nlink = @ - 1,
                          ![l.dp].nlink = IF isdir THEN @ - 1 ELSE @]
  IN  /\ pc[t] = "unlink" /\ Lockable(l.ip)
      /\ panic' = IF tab0[l.ip].nlink < 1 THEN "unlink: nlink < 1"
                  ELSE ilockPanic(itable, l.ip)
      /\ lock' = [lock EXCEPT ![l.dp] = NoThread]
      /\ IF isdir /\ ~IsDirEmpty(l.ip)
         THEN /\ itable' = tab0
              /\ Put(t, l, <<l.ip, l.dp>>, "user")
              /\ UNCHANGED <<dinode, entries>>
         ELSE /\ itable' = tab
              /\ entries' = [entries EXCEPT ![l.dp][Head(l.path)] = 0]
              /\ dinode' = iupdate(iupdate(dinode, tab, l.ip), tab, l.dp)
              /\ Put(t, l, <<l.dp, l.ip>>, "user")
      /\ UNCHANGED <<cwd, fd>>

-----------------------------------------------------------------------------
(* link() *)

(* nlink++ comes first. *)
LinkCount(tab, i) == [tab EXCEPT ![i].nlink = @ + 1]

LinkOld(t) ==
  LET l == loc[t]
      tab == ilock(itable, l.ip)
      up == LinkCount(tab, l.ip)
  IN  /\ pc[t] = "found" /\ l.call = "link" /\ Lockable(l.ip)
      /\ panic' = ilockPanic(itable, l.ip)
      /\ IF tab[l.ip].type = "dir"
         THEN /\ itable' = tab
              /\ Put(t, l, <<l.ip>>, "user")
              /\ UNCHANGED dinode
         ELSE /\ itable' = iget(up, Start(t, l.new))
              /\ dinode' = iupdate(dinode, up, l.ip)
              /\ Goto(t, [l EXCEPT !.old = l.ip, !.ip = Start(t, l.new),
                                   !.path = l.new.elems], "namex")
      /\ UNCHANGED <<entries, lock, cwd, fd>>

(* dirlink() of the new name; it fails if the name exists or the disk has  *)
(* no block.                                                               *)
LinkNew(t) ==
  LET l == loc[t]
      e == dirlookup(l.dp, Head(l.path))
      tab == ilock(itable, l.dp)
  IN  /\ pc[t] = "parent" /\ l.call = "link" /\ Lockable(l.dp)
      /\ panic' = DirPanic(l.dp)
      /\ \/ /\ e = 0
            /\ entries' = dirlink(entries, l.dp, Head(l.path), l.old)
            /\ itable' = tab
            /\ Put(t, l, <<l.dp, l.old>>, "user")
         \/ /\ itable' = IF e = 0 THEN tab ELSE iget(tab, e)
            /\ Put(t, l, IF e = 0 THEN <<l.dp>> ELSE <<e, l.dp>>, "bad")
            /\ UNCHANGED entries
      /\ UNCHANGED <<dinode, lock, cwd, fd>>

LinkBad(t) ==
  LET l == loc[t]
      tab == [ilock(itable, l.old) EXCEPT ![l.old].nlink = @ - 1]
  IN  /\ pc[t] = "bad" /\ Lockable(l.old)
      /\ panic' = ilockPanic(itable, l.old)
      /\ itable' = tab
      /\ dinode' = iupdate(dinode, tab, l.old)
      /\ Put(t, l, <<l.old>>, "user")
      /\ UNCHANGED <<entries, lock, cwd, fd>>

-----------------------------------------------------------------------------
(* open(), close() and chdir() *)

Open(t) ==
  LET l == loc[t]
  IN  /\ pc[t] = "found" /\ l.call = "open" /\ Lockable(l.ip)
      /\ panic' = ilockPanic(itable, l.ip)
      /\ itable' = ilock(itable, l.ip)
      /\ OpenFile(t, l, <<>>)
      /\ UNCHANGED <<diskVars, lock, cwd>>

Close(t) ==
  /\ pc[t] = "user" /\ fd[t] # 0
  /\ Put(t, Idle, <<fd[t]>>, "user")
  /\ fd' = [fd EXCEPT ![t] = 0]
  /\ UNCHANGED <<diskVars, itable, lock, cwd, panic>>

Chdir(t) ==
  LET l == loc[t]
      isdir == ilock(itable, l.ip)[l.ip].type = "dir"
  IN  /\ pc[t] = "found" /\ l.call = "chdir" /\ Lockable(l.ip)
      /\ panic' = ilockPanic(itable, l.ip)
      /\ itable' = ilock(itable, l.ip)
      /\ cwd' = IF isdir THEN [cwd EXCEPT ![t] = l.ip] ELSE cwd
      /\ Put(t, l, IF isdir THEN <<cwd[t]>> ELSE <<l.ip>>, "user")
      /\ UNCHANGED <<diskVars, lock, fd>>

-----------------------------------------------------------------------------
Step(t) ==
  \/ Namex(t) \/ Iput(t) \/ IputFree(t) \/ IputDrop(t)
  \/ Create(t) \/ Exists(t) \/ CreateNew(t) \/ CreateFails(t)
  \/ UnlinkLookup(t) \/ Unlink(t)
  \/ LinkOld(t) \/ LinkNew(t) \/ LinkBad(t)
  \/ Open(t) \/ Chdir(t)

Next ==
  /\ panic = "no"
  /\ \E t \in Threads :
       \/ \E c \in Calls, p \in Paths :
            \E q \in IF c = "link" THEN Paths ELSE {NoPath} : Begin(t, c, p, q)
       \/ Close(t)
       \/ Step(t)

Spec == Init /\ [][Next]_vars

-----------------------------------------------------------------------------
Dirs == {i \in Inums : dinode[i].type = "dir"}

(* The references that process t holds to inode i. *)
Holds(t, i) ==
  LET l == loc[t]
      held == <<cwd[t], fd[t], l.ip, l.dp, l.old>> \o l.puts
  IN  Cardinality({k \in DOMAIN held : held[k] = i})

(* Types, and ip->ref counts exactly the references that processes hold    *)
(* in cwd, in open files and in the locals of calls.                       *)
TypeOK ==
  /\ dinode \in [Inums -> [type : {"free", "file", "dir", "device"}, nlink : Nat]]
  /\ entries \in [Inums -> [Names \cup {DotDot} -> Inums \cup {0}]]
  /\ lock \in [Inums -> Threads \cup {NoThread}]
  /\ \A i \in Inums : itable[i].ref = MapThenSumSet(LAMBDA t : Holds(t, i), Threads)

(* The names of an inode, and for a directory the directories it names (by *)
(* their ".."), never exceed its nlink, so that unlink() cannot free it    *)
(* early; link() counts first and adds the name later.                     *)
NlinkCovers ==
  \A i \in Inums :
    Cardinality({<<d, n>> \in Dirs \X Names : entries[d][n] = i})
    + Cardinality({n \in Names : entries[i][n] \in Dirs}) <= dinode[i].nlink

(* An inode that a process has open or works in is never freed, even when  *)
(* its last name is gone and others put it at the same time.               *)
InUse ==
  \A t \in Threads : \A i \in {cwd[t], fd[t], loc[t].old} \ {0} :
    dinode[i].type # "free"

(* The copy of an inode in the table agrees with the disk, also when the   *)
(* inode is freed and allocated again while iput() is still at work on it. *)
CopiesAgree ==
  \A i \in Inums : itable[i].valid /\ lock[i] = NoThread =>
    itable[i].type = dinode[i].type /\ itable[i].nlink = dinode[i].nlink

(* What the comment above iput() says and the code does not do: "If that   *)
(* was the last reference and the inode has no links to it, free the inode *)
(* (and its content) on disk."                                             *)
OrphansFreed ==
  \A i \in Inums : dinode[i].type # "free" /\ dinode[i].nlink = 0
                     => itable[i].ref > 0
=============================================================================
