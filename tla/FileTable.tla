----------------------------- MODULE FileTable ------------------------------
(***************************************************************************)
(* Open files: the table of struct file in kernel/file.c, the descriptors  *)
(* of the processes, and the calls that move references between them       *)
(* (open, dup, close, pipe, fork, exit), down to the references that an    *)
(* open file has to its inode or to one end of a pipe.                     *)
(*                                                                         *)
(* A step is what a call does under ftable.lock, or under the lock of the  *)
(* pipe or of the inode table when the last reference is gone.             *)
(***************************************************************************)
EXTENDS Integers, FiniteSets

CONSTANTS Procs,      \* processes
          initproc,   \* the one that runs at first
          NoFile,
          NFILE, NOFILE,
          Pipes, Inums

Files == 1 .. NFILE
Fds == 0 .. NOFILE - 1
FilePtr == Files \cup {NoFile}
FdPlaces == Procs \X Fds
Slots == Procs \X {0, 1}

ASSUME FileTableAssumption ==
  /\ IsFiniteSet(Procs) /\ initproc \in Procs
  /\ NFILE \in Nat \ {0} /\ NOFILE \in Nat \ {0}
  /\ NoFile \notin Files /\ 0 \notin Inums

VARIABLES
  ref,      \* f->ref
  file,     \* the rest of struct file: type, obj (the pipe or inode), writable
  ofile,    \* ofile[<<p, fd>>]
  pipe,     \* struct pipe: readopen and writeopen; neither is a free page
  iref,     \* ip->ref, as far as open files and calls to open() hold it
  panic,
  (* where each process is in a call, and its locals *)
  pc,
  ret,      \* where fileclose() returns to
  tmp,      \* rf and wf of sys_pipe(), f of sys_open() and sys_close()
  ff,       \* the copy that fileclose() lets go of
  ip,       \* the inode that is opened, or 0
  child,    \* the process that fork() makes
  fd        \* the loop variable of fork() and exit()

locals == <<pc, ret, tmp, ff, ip, child, fd>>
vars == <<ref, file, ofile, pipe, iref, panic, locals>>

Content(t, x, w) == [type |-> t, obj |-> x, writable |-> w]
None == Content("none", 0, FALSE)
Inode(i, w) == Content("inode", i, w)
End(q, w) == Content("pipe", q, w)
NoPipe == [readopen |-> FALSE, writeopen |-> FALSE]

Init ==
  /\ ref = [f \in Files |-> 0] /\ file = [f \in Files |-> None]
  /\ ofile = [s \in FdPlaces |-> NoFile]
  /\ pipe = [q \in Pipes |-> NoPipe]
  /\ iref = [i \in Inums |-> 0]
  /\ panic = "no"
  /\ pc = [p \in Procs |-> IF p = initproc THEN "user" ELSE "unused"]
  /\ ret = [p \in Procs |-> "user"]
  /\ tmp = [s \in Slots |-> NoFile]
  /\ ff = [p \in Procs |-> None] /\ ip = [p \in Procs |-> 0]
  /\ child = [p \in Procs |-> p] /\ fd = [p \in Procs |-> 0]

-----------------------------------------------------------------------------
FreeFiles == {f \in Files : ref[f] = 0}
FreeFds(p) == {d \in Fds : ofile[<<p, d>>] = NoFile}
FreePipes == {q \in Pipes : pipe[q] = NoPipe}

(* The loops of filealloc() and fdalloc() stop at the first free entry. *)
First(S) == {x \in S : \A y \in S : x <= y}

Goto(p, l) == pc' = [pc EXCEPT ![p] = l]

(* The process goes on with fileclose() of a file in its locals, or        *)
(* returns.                                                                *)
CloseRest(p) ==
  Goto(p, IF \A k \in {0, 1} : tmp'[<<p, k>>] = NoFile THEN ret[p] ELSE "fileclose")

(* What fileclose() leaves in the entry at the last reference (obj and     *)
(* writable are not read again); the variant leaves its type.              *)
Closed_KeepsType(f) == file
Closed(f) == [file EXCEPT ![f] = None]

(* fileclose() up to its release of ftable.lock. *)
Fileclose(p) ==
  /\ pc[p] = "fileclose"
  /\ \E k \in First({k \in {0, 1} : tmp[<<p, k>>] # NoFile}) :
       LET f == tmp[<<p, k>>]
       IN  /\ panic' = IF ref[f] < 1 THEN "fileclose" ELSE panic
           /\ tmp' = [tmp EXCEPT ![<<p, k>>] = NoFile]
           /\ IF ref[f] > 1
              THEN /\ ref' = [ref EXCEPT ![f] = @ - 1]
                   /\ CloseRest(p)
                   /\ UNCHANGED <<file, ff>>
              ELSE /\ ref' = [ref EXCEPT ![f] = 0]
                   /\ file' = Closed(f)
                   /\ ff' = [ff EXCEPT ![p] = file[f]]
                   /\ Goto(p, "letgo")
  /\ UNCHANGED <<ofile, pipe, iref, ret, ip, child, fd>>

(* pipeclose() of one end; the page is freed when both are closed. *)
pipeclose(q, writable) ==
  IF writable THEN [pipe EXCEPT ![q].writeopen = FALSE]
  ELSE [pipe EXCEPT ![q].readopen = FALSE]

(* The rest of fileclose(): pipeclose() or iput() of the copy. *)
LetGo(p) ==
  /\ pc[p] = "letgo"
  /\ pipe' = IF ff[p].type = "pipe" THEN pipeclose(ff[p].obj, ff[p].writable) ELSE pipe
  /\ iref' = IF ff[p].type = "inode" THEN [iref EXCEPT ![ff[p].obj] = @ - 1] ELSE iref
  /\ ff' = [ff EXCEPT ![p] = None]
  /\ UNCHANGED <<ref, file, ofile, panic, ret, tmp, ip, child, fd>>
  /\ CloseRest(p)

-----------------------------------------------------------------------------
(* open(): namei() or create() has a reference to the inode; then a file   *)
(* and a descriptor, or neither.                                           *)
Open(p, i) ==
  /\ pc[p] = "user"
  /\ iref' = [iref EXCEPT ![i] = @ + 1]
  /\ ip' = [ip EXCEPT ![p] = i]
  /\ Goto(p, "open")
  /\ UNCHANGED <<ref, file, ofile, pipe, panic, ret, tmp, ff, child, fd>>

OpenFile(p) ==
  /\ pc[p] = "open"
  /\ \E f \in First(FreeFiles), d \in First(FreeFds(p)), w \in BOOLEAN :
       /\ ref' = [ref EXCEPT ![f] = 1]
       /\ file' = [file EXCEPT ![f] = Inode(ip[p], w)]
       /\ ofile' = [ofile EXCEPT ![<<p, d>>] = f]
  /\ ip' = [ip EXCEPT ![p] = 0]
  /\ Goto(p, "user")
  /\ UNCHANGED <<pipe, iref, panic, ret, tmp, ff, child, fd>>

(* There is a file but no descriptor. *)
OpenClose(p) ==
  /\ pc[p] = "open" /\ FreeFds(p) = {}
  /\ \E f \in First(FreeFiles) :
       /\ ref' = [ref EXCEPT ![f] = 1]
       /\ tmp' = [tmp EXCEPT ![<<p, 0>>] = f]
  /\ ret' = [ret EXCEPT ![p] = "iput"]
  /\ Goto(p, "fileclose")
  /\ UNCHANGED <<file, ofile, pipe, iref, panic, ff, ip, child, fd>>

(* iunlockput() of an inode that is refused (a directory to be written to, *)
(* a device that does not exist), or that no file or descriptor is left    *)
(* for.                                                                    *)
OpenIput(p) ==
  /\ pc[p] \in {"open", "iput"}
  /\ iref' = [iref EXCEPT ![ip[p]] = @ - 1]
  /\ ip' = [ip EXCEPT ![p] = 0]
  /\ Goto(p, "user")
  /\ UNCHANGED <<ref, file, ofile, pipe, panic, ret, tmp, ff, child, fd>>

(* filedup(); the variant shares the file without counting. *)
filedup_Shared(f) == UNCHANGED <<ref, panic>>
filedup(f) ==
  /\ panic' = IF ref[f] < 1 THEN "filedup" ELSE panic
  /\ ref' = [ref EXCEPT ![f] = @ + 1]

(* dup() of an open descriptor, see argfd(). *)
Dup(p, d) ==
  LET f == ofile[<<p, d>>]
  IN  /\ pc[p] = "user" /\ f # NoFile
      /\ \E e \in First(FreeFds(p)) : ofile' = [ofile EXCEPT ![<<p, e>>] = f]
      /\ filedup(f)
      /\ UNCHANGED <<file, pipe, iref, locals>>

(* p gives the reference of a descriptor to fileclose(), which returns to l. *)
CloseFd(p, d, l) ==
  /\ ofile' = [ofile EXCEPT ![<<p, d>>] = NoFile]
  /\ tmp' = [tmp EXCEPT ![<<p, 0>>] = ofile[<<p, d>>]]
  /\ ret' = [ret EXCEPT ![p] = l]
  /\ Goto(p, "fileclose")

(* close() *)
Close(p, d) ==
  /\ pc[p] = "user" /\ ofile[<<p, d>>] # NoFile
  /\ CloseFd(p, d, "user")
  /\ UNCHANGED <<ref, file, pipe, iref, panic, ff, ip, child, fd>>

-----------------------------------------------------------------------------
(* fork() and clone(): the child c gets every file of its parent. *)
Fork(p, c) ==
  /\ pc[p] = "user" /\ pc[c] = "unused"
  /\ pc' = [pc EXCEPT ![p] = "fork", ![c] = "embryo"]
  /\ child' = [child EXCEPT ![p] = c]
  /\ fd' = [fd EXCEPT ![p] = 0]
  /\ UNCHANGED <<ref, file, ofile, pipe, iref, panic, ret, tmp, ff, ip>>

(* A turn of the loop over the descriptors. *)
ForkDup(p) ==
  /\ pc[p] = "fork" /\ fd[p] < NOFILE
  /\ LET f == ofile[<<p, fd[p]>>]
     IN  IF f = NoFile
         THEN UNCHANGED <<ref, ofile, panic>>
         ELSE filedup(f) /\ ofile' = [ofile EXCEPT ![<<child[p], fd[p]>>] = f]
  /\ fd' = [fd EXCEPT ![p] = @ + 1]
  /\ UNCHANGED <<file, pipe, iref, pc, ret, tmp, ff, ip, child>>

Forked(p) ==
  /\ pc[p] = "fork" /\ fd[p] = NOFILE
  /\ pc' = [pc EXCEPT ![p] = "user", ![child[p]] = "user"]
  /\ child' = [child EXCEPT ![p] = p]
  /\ fd' = [fd EXCEPT ![p] = 0]
  /\ UNCHANGED <<ref, file, ofile, pipe, iref, panic, ret, tmp, ff, ip>>

(* exit() *)
Exit(p) ==
  /\ pc[p] = "user" /\ p # initproc
  /\ Goto(p, "exit")
  /\ fd' = [fd EXCEPT ![p] = 0]
  /\ UNCHANGED <<ref, file, ofile, pipe, iref, panic, ret, tmp, ff, ip, child>>

(* A turn of its loop over the descriptors.  The entry of ofile is cleared *)
(* after fileclose() in the code; nobody else looks at it.                 *)
ExitClose(p) ==
  /\ pc[p] = "exit" /\ fd[p] < NOFILE
  /\ IF ofile[<<p, fd[p]>>] = NoFile
     THEN UNCHANGED <<ofile, tmp, ret, pc>>
     ELSE CloseFd(p, fd[p], "exit")
  /\ fd' = [fd EXCEPT ![p] = @ + 1]
  /\ UNCHANGED <<ref, file, pipe, iref, panic, ff, ip, child>>

(* The entry can be used again. *)
Exited(p) ==
  /\ pc[p] = "exit" /\ fd[p] = NOFILE
  /\ Goto(p, "unused")
  /\ fd' = [fd EXCEPT ![p] = 0]
  /\ UNCHANGED <<ref, file, ofile, pipe, iref, panic, ret, tmp, ff, ip, child>>

-----------------------------------------------------------------------------
(* pipe(): two files (another process may take one in between), a page,    *)
(* two descriptors and two words of user memory, or nothing.               *)
Pipe(p) ==
  /\ pc[p] = "user"
  /\ \E f \in First(FreeFiles) :
       /\ ref' = [ref EXCEPT ![f] = 1]
       /\ tmp' = [tmp EXCEPT ![<<p, 0>>] = f]
  /\ ret' = [ret EXCEPT ![p] = "user"]
  /\ Goto(p, "pipe")
  /\ UNCHANGED <<file, ofile, pipe, iref, panic, ff, ip, child, fd>>

(* pipealloc() fails: no second file, or no page. *)
PipeBad(p) ==
  /\ pc[p] = "pipe"
  /\ \/ /\ FreeFiles = {}
        /\ UNCHANGED <<ref, tmp>>
     \/ \E f \in First(FreeFiles) :
          /\ ref' = [ref EXCEPT ![f] = 1]
          /\ tmp' = [tmp EXCEPT ![<<p, 1>>] = f]
  /\ Goto(p, "fileclose")
  /\ UNCHANGED <<file, ofile, pipe, iref, panic, ret, ff, ip, child, fd>>

(* The files of a pipe are set up; the page may be any free one. *)
pipealloc(rf, wf) ==
  \E q \in FreePipes :
    /\ pipe' = [pipe EXCEPT ![q] = [readopen |-> TRUE, writeopen |-> TRUE]]
    /\ ref' = [ref EXCEPT ![wf] = 1]
    /\ file' = [file EXCEPT ![rf] = End(q, FALSE), ![wf] = End(q, TRUE)]

PipeDone(p) ==
  /\ pc[p] = "pipe"
  /\ \E wf \in First(FreeFiles), d0 \in First(FreeFds(p)) :
       \E d1 \in First(FreeFds(p) \ {d0}) :
         /\ pipealloc(tmp[<<p, 0>>], wf)
         /\ ofile' = [ofile EXCEPT ![<<p, d0>>] = tmp[<<p, 0>>], ![<<p, d1>>] = wf]
  /\ tmp' = [tmp EXCEPT ![<<p, 0>>] = NoFile]
  /\ Goto(p, "user")
  /\ UNCHANGED <<iref, panic, ret, ff, ip, child, fd>>

(* Without descriptors, or if copyout() fails, sys_pipe() closes both      *)
(* files again.                                                            *)
PipeUndo(p) ==
  /\ pc[p] = "pipe"
  /\ \E wf \in First(FreeFiles) :
       /\ pipealloc(tmp[<<p, 0>>], wf)
       /\ tmp' = [tmp EXCEPT ![<<p, 1>>] = wf]
  /\ Goto(p, "fileclose")
  /\ UNCHANGED <<ofile, iref, panic, ret, ff, ip, child, fd>>

-----------------------------------------------------------------------------
Next ==
  /\ panic = "no"
  /\ \E p \in Procs :
       \/ Fileclose(p) \/ LetGo(p)
       \/ \E i \in Inums : Open(p, i)
       \/ OpenFile(p) \/ OpenClose(p) \/ OpenIput(p)
       \/ \E d \in Fds : Dup(p, d) \/ Close(p, d)
       \/ \E c \in Procs : Fork(p, c)
       \/ ForkDup(p) \/ Forked(p)
       \/ Exit(p) \/ ExitClose(p) \/ Exited(p)
       \/ Pipe(p) \/ PipeBad(p) \/ PipeDone(p) \/ PipeUndo(p)

Spec == Init /\ [][Next]_vars

-----------------------------------------------------------------------------
(* The descriptors and the locals that name a file. *)
Descriptors(f) == {s \in FdPlaces : ofile[s] = f}
Locals(f) == {s \in Slots : tmp[s] = f}

(* How many open files, and calls of fileclose(), stand for c. *)
Standing(c) == Cardinality({f \in Files : ref[f] > 0 /\ file[f] = c})
               + Cardinality({p \in Procs : ff[p] = c})

(* f->ref counts exactly the descriptors, of all processes, and the locals *)
(* of calls that name the file; filedup() and fileclose() do not panic,    *)
(* and a process that is gone has left no file open.                       *)
TypeOK ==
  /\ \A f \in Files : ref[f] = Cardinality(Descriptors(f)) + Cardinality(Locals(f))
  /\ ofile \in [FdPlaces -> FilePtr]
  /\ iref \in [Inums -> Nat] /\ pipe \in [Pipes -> [readopen : BOOLEAN, writeopen : BOOLEAN]]
  /\ panic = "no"
  /\ \A p \in Procs : pc[p] = "unused" => FreeFds(p) = Fds

EndIsOpen(q, w) == IF w THEN pipe[q].writeopen ELSE pipe[q].readopen

(* An end of a pipe is open exactly while a file, or a fileclose() that is *)
(* not through, stands for it: readers get their end of file when the last *)
(* descriptor for writing is closed, and not before; no file refers to a   *)
(* page that was freed.                                                    *)
EndsOpen ==
  \A q \in Pipes, w \in BOOLEAN :
    Standing(End(q, w)) = IF EndIsOpen(q, w) THEN 1 ELSE 0

(* An inode has one reference for every open file and for every call that  *)
(* opens or closes it: it is put exactly once, also when open() fails.     *)
InodeRefs ==
  \A i \in Inums :
    iref[i] = Cardinality({p \in Procs : ip[p] = i})
              + Standing(Inode(i, TRUE)) + Standing(Inode(i, FALSE))
=============================================================================
