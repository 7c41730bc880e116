--------------------------------- MODULE Vm ---------------------------------
(***************************************************************************)
(* Physical pages and user address spaces: kernel/kalloc.c, the user half  *)
(* of kernel/vm.c, kernel/exec.c, and the callers in proc.c and sysfile.c  *)
(* that build and tear down address spaces (fork, exec, sbrk, wait).       *)
(*                                                                         *)
(* A step ends at each kalloc(), the only point where processes meet: what *)
(* another process takes meanwhile decides which kalloc() fails.  Freeing  *)
(* is one step, since pages that come back early or late look the same to  *)
(* everybody else.                                                         *)
(*                                                                         *)
(* A page table is a record: the page that holds each of its nodes (0 for  *)
(* a node that does not exist) and the leaf entry of each virtual page.    *)
(* The contents of user pages are left out.                                *)
(***************************************************************************)
EXTENDS Integers, FiniteSets, FiniteSetsExt, Sequences

CONSTANTS Procs,     \* entries of the process table
          initproc,  \* the first of them
          NPAGES,    \* pages of physical memory between end and PHYSTOP
          LEVELS,    \* levels of a page table (3 in Sv39)
          FANOUT,    \* entries of a page-table page (512 in Sv39)
          PGSIZE,    \* bytes of a page
          UINT64,    \* addresses are computed modulo this
          Programs,  \* what exec() may find: sequences of segments
          Args,      \* how many arguments exec() may be given
          Increments \* what sbrk() may be asked for

Pages == 1 .. NPAGES
VPages == 0 .. FANOUT ^ LEVELS - 1
MAXVA == PGSIZE * FANOUT ^ LEVELS
TRAMPOLINE == MAXVA - PGSIZE
TRAPFRAME == TRAMPOLINE - PGSIZE

(* The node of a page table that walk() consults at level l for page v. *)
NodeAt(l, v) == <<l, v \div FANOUT ^ (l + 1)>>
Nodes == UNION {{NodeAt(l, v) : v \in VPages} : l \in 0 .. LEVELS - 1}

ASSUME VmAssumption ==
  /\ initproc \in Procs
  /\ LEVELS > 0 /\ FANOUT > 1 /\ PGSIZE > 0
  /\ UINT64 > 2 * MAXVA
  \* memory runs out before the addresses below the trapframe do
  /\ NPAGES <= TRAPFRAME \div PGSIZE + Cardinality(Nodes) + 1

NoPte == [pa |-> 0, perm |-> {}]
NoTable == [tab |-> [n \in Nodes |-> 0], pte |-> [v \in VPages |-> NoPte]]

(* Each process has its own page table and, during exec() or fork(), one   *)
(* under construction.                                                     *)
Images == Procs \X {"own", "new"}

VARIABLES
  freelist,   \* kmem.freelist, as a set
  image,      \* the page tables
  sz,         \* p->sz
  trapframe,  \* p->trapframe, or 0
  pc, job,    \* each kernel thread: where it is, and its locals
  before,     \* history: mappings and size after the last successful call
  panic

vars == <<freelist, image, sz, trapframe, pc, job, before, panic>>

Idle == [stage |-> "none", np |-> initproc, va |-> 0, base |-> 0, end |-> 0,
         perm |-> {}, mem |-> 0, nsz |-> 0, segs |-> <<>>, argc |-> 0,
         argv |-> {}]

(* kinit() gives every page to the allocator. *)
kinit == freelist = Pages

(* The kernel enters userinit(). *)
Init ==
  /\ kinit
  /\ image = [i \in Images |-> NoTable]
  /\ sz = [p \in Procs |-> 0]
  /\ trapframe = [p \in Procs |-> 0]
  /\ pc = [p \in Procs |-> IF p = initproc THEN "trapframe" ELSE "unused"]
  /\ job = [p \in Procs |-> Idle]
  /\ before = [p \in Procs |-> <<NoTable.pte, 0>>]
  /\ panic = "no"

-----------------------------------------------------------------------------
(* Helpers *)

PGROUNDUP(a) == ((a + PGSIZE - 1) \div PGSIZE) * PGSIZE
PGROUNDDOWN(a) == (a \div PGSIZE) * PGSIZE

(* The next page kalloc() returns; which one does not matter. *)
kalloc == Min(freelist)

kfree(pages) == freelist' = freelist \cup pages

Goto(p, label) == pc' = [pc EXCEPT ![p] = label]

(* The page table that p is working on. *)
Target(p) == <<p, IF job[p].stage = "sbrk" THEN "own" ELSE "new">>

(* walk(t, va, 0) finds no entry, or an invalid one, or one without U. *)
walkaddr(t, va) ==
  IF va < MAXVA /\ "U" \in t.pte[va \div PGSIZE].perm
  THEN t.pte[va \div PGSIZE].pa ELSE 0

RECURSIVE copyout(_, _, _)

(* Variant that ignores the offset in the first page. *)
copyout_NoOffset(t, va, len) ==
  LET va0 == PGROUNDDOWN(va)
      n == Min({PGSIZE, len})
      rest == copyout(t, va0 + PGSIZE, len - n)
  IN  IF len = 0 THEN [ok |-> TRUE, at |-> <<>>]
      ELSE IF walkaddr(t, va0) = 0 THEN [ok |-> FALSE, at |-> <<>>]
      ELSE [ok |-> rest.ok,
            at |-> [k \in 1 .. n |-> <<walkaddr(t, va0), va - va0 + k - 1>>]
                   \o rest.at]

(* copyout(): page by page; at lists the bytes it moved. *)
copyout(t, va, len) ==
  LET va0 == PGROUNDDOWN(va)
      pa0 == walkaddr(t, va0)
      n == Min({PGSIZE - (va - va0), len})
      rest == copyout(t, va0 + PGSIZE, len - n)
  IN  IF len = 0 THEN [ok |-> TRUE, at |-> <<>>]
      ELSE IF pa0 = 0 THEN [ok |-> FALSE, at |-> <<>>]
      ELSE [ok |-> rest.ok,
            at |-> [k \in 1 .. n |-> <<pa0, va - va0 + k - 1>>] \o rest.at]

(* copyin(): the same loop in the other direction. *)
copyin(t, srcva, len) == copyout(t, srcva, len)

(* copyinstr() of a string whose NUL is at address nul: is it found?       *)
RECURSIVE copyinstr(_, _, _, _)
copyinstr(t, va, max, nul) ==
  LET va0 == PGROUNDDOWN(va)
      n == Min({PGSIZE - (va - va0), max})
  IN  /\ max > 0
      /\ walkaddr(t, va0) # 0
      /\ \/ nul \in va .. va + n - 1
         \/ copyinstr(t, va0 + PGSIZE, max - n, nul)

(* fetchstr() of a string that ends at nul *)
fetchstr(p, addr, max, nul) == copyinstr(image[<<p, "own">>], addr, max, nul)

(* fetchaddr() of a word of len bytes *)
fetchaddr(p, addr, len) ==
  /\ ~(addr >= sz[p] \/ addr + len > sz[p])
  /\ copyin(image[<<p, "own">>], addr, len).ok

VRange(va, npages) == {va \div PGSIZE + k : k \in 0 .. npages - 1}

(* uvmunmap(t, va, npages, do_free): the pages it frees, the table it      *)
(* leaves, and whether it panics because a page was not mapped.            *)
Unmapped(t, va, npages) ==
  {t.pte[v].pa : v \in VRange(va, npages)}
uvmunmap(t, va, npages) ==
  [t EXCEPT !.pte = [v \in VPages |->
                       IF v \in VRange(va, npages) THEN NoPte ELSE t.pte[v]]]
NotMapped(t, va, npages) ==
  \E v \in VRange(va, npages) : t.pte[v] = NoPte

(* freewalk(t) frees all nodes, and panics at a leaf. *)
freewalk(t) == {t.tab[n] : n \in Nodes} \ {0}
HasLeaf(t) == \E v \in VPages : t.pte[v] # NoPte

(* proc_freepagetable(t, size): what it frees and the panic it may meet. *)
NPagesOf(size) == PGROUNDUP(size) \div PGSIZE
proc_freepagetable(t, size) == Unmapped(t, 0, NPagesOf(size)) \cup freewalk(t)
FreePanic(t, size) ==
  LET t1 == uvmunmap(t, TRAPFRAME, 2)
  IN  IF NotMapped(t, TRAPFRAME, 2) \/ NotMapped(t1, 0, NPagesOf(size))
      THEN "uvmunmap: not mapped"
      ELSE IF HasLeaf(uvmunmap(t1, 0, NPagesOf(size)))
           THEN "freewalk: leaf" ELSE panic

(* p enters the kernel by a system call; with no memory left it can only  *)
(* fault and be killed.                                                    *)
InCall(p) == pc[p] = "user" /\ sz[p] > 0

(* The call of p is over; a successful one is what p sees from now on. *)
Return(p) == pc' = [pc EXCEPT ![p] = "user"] /\ job' = [job EXCEPT ![p] = Idle]
Fails(p) == Return(p) /\ UNCHANGED before

-----------------------------------------------------------------------------
(* mappages() of one page: walk() allocates the missing nodes from the top *)

Missing(t, va) ==
  {l \in 0 .. LEVELS - 1 : t.tab[NodeAt(l, va \div PGSIZE)] = 0}

CanMap(p) == pc[p] = "map" /\ Missing(image[Target(p)], job[p].va) = {}

CannotMap(p) ==
  pc[p] = "map" /\ Missing(image[Target(p)], job[p].va) # {} /\ freelist = {}

WalkAlloc(p) ==
  /\ pc[p] = "map"
  /\ freelist # {}
  /\ LET va == job[p].va
         todo == Missing(image[Target(p)], va)
     IN  /\ todo # {}
         /\ image' = [image EXCEPT ![Target(p)].tab
                                    [NodeAt(Max(todo), va \div PGSIZE)] = kalloc]
  /\ freelist' = freelist \ {kalloc}
  /\ UNCHANGED <<sz, trapframe, pc, job, before, panic>>

(* The last lines of mappages(): the entry must not be in use. *)
SetPte(t, va, pa, perm) ==
  [t EXCEPT !.pte[va \div PGSIZE] = [pa |-> pa, perm |-> perm]]
RemapPanic(t, va) ==
  IF t.pte[va \div PGSIZE] # NoPte THEN "mappages: remap" ELSE panic

-----------------------------------------------------------------------------
(* allocproc() and proc_pagetable(), for fork(), exec() and userinit() *)

(* The table is for a new process: a child, or the first one. *)
NewChild(p) == job[p].np # p \/ image[<<p, "own">>] = NoTable

(* allocproc(): kalloc() of the trapframe page of np. *)
AllocTrapframe(p) ==
  /\ pc[p] = "trapframe"
  /\ IF freelist = {}
     THEN /\ pc' = [pc EXCEPT ![p] = "user", ![job[p].np] = "unused"]
          /\ job' = [job EXCEPT ![p] = Idle]
          /\ UNCHANGED <<freelist, trapframe>>
     ELSE /\ trapframe' = [trapframe EXCEPT ![job[p].np] = kalloc]
          /\ freelist' = freelist \ {kalloc}
          /\ Goto(p, "pagetable")
          /\ UNCHANGED job
  /\ UNCHANGED <<image, sz, before, panic>>

(* freeproc(np) in allocproc() or fork(): np->sz is still 0. *)
FreeChild(p, pages) ==
  /\ kfree(pages \cup {trapframe[job[p].np]})
  /\ trapframe' = [trapframe EXCEPT ![job[p].np] = 0]
  /\ pc' = [pc EXCEPT ![p] = "user", ![job[p].np] = "unused"]
  /\ job' = [job EXCEPT ![p] = Idle]

(* sys_exec() frees the argument strings, whether exec() succeeds or not. *)
FreeArgv(p) == job[p].argv

(* exec() goes to bad, and sys_exec() frees the argument strings. *)
ExecBad(p, pages) ==
  /\ kfree(pages \cup FreeArgv(p))
  /\ Fails(p)
  /\ UNCHANGED trapframe

(* proc_pagetable() returned 0 after giving back pages. *)
NoPagetable(p, pages) ==
  /\ IF NewChild(p) THEN FreeChild(p, pages) ELSE ExecBad(p, pages)
  /\ image' = [image EXCEPT ![<<p, "new">>] = NoTable]
  /\ UNCHANGED <<sz, before>>

(* uvmcreate() *)
ProcPagetable(p) ==
  /\ pc[p] = "pagetable"
  /\ IF freelist = {}
     THEN NoPagetable(p, {})
     ELSE /\ image' = [image EXCEPT ![<<p, "new">>].tab
                                     [NodeAt(LEVELS - 1, 0)] = kalloc]
          /\ freelist' = freelist \ {kalloc}
          /\ Goto(p, "map")
          /\ job' = [job EXCEPT ![p].stage = "trampoline", ![p].va = TRAMPOLINE]
          /\ UNCHANGED <<sz, trapframe, before>>
  /\ UNCHANGED panic

(* The trapframe that proc_pagetable(np) maps; the variant takes the one of *)
(* the caller.                                                             *)
FrameOf_Caller(p) == trapframe[p]
FrameOf(p) == trapframe[job[p].np]

MapTrampoline(p) ==
  /\ CanMap(p)
  /\ job[p].stage = "trampoline"
  /\ image' = [image EXCEPT ![<<p, "new">>] = SetPte(@, TRAMPOLINE, 0, {"R", "X"})]
  /\ panic' = RemapPanic(image[<<p, "new">>], TRAMPOLINE)
  /\ job' = [job EXCEPT ![p].stage = "trapframe", ![p].va = TRAPFRAME]
  /\ UNCHANGED <<freelist, sz, trapframe, pc, before>>

MapTrapframe(p) ==
  /\ CanMap(p)
  /\ job[p].stage = "trapframe"
  /\ image' = [image EXCEPT ![<<p, "new">>] =
                 SetPte(@, TRAPFRAME, FrameOf(p), {"R", "W"})]
  /\ panic' = RemapPanic(image[<<p, "new">>], TRAPFRAME)
  /\ job' = [job EXCEPT ![p].stage =
               CASE job[p].np # p -> "copy" [] ~NewChild(p) -> "segment"
                 [] OTHER -> "first",
               ![p].va = 0]
  /\ Goto(p, IF NewChild(p) THEN "alloc" ELSE "segment")
  /\ UNCHANGED <<freelist, sz, trapframe, before>>

(* A node is missing: the trampoline is unmapped again if need be, and     *)
(* uvmfree(pagetable, 0) frees the nodes.                                  *)
PagetableFails(p) ==
  /\ CannotMap(p)
  /\ job[p].stage \in {"trampoline", "trapframe"}
  /\ LET t == IF job[p].stage = "trampoline" THEN image[<<p, "new">>]
              ELSE uvmunmap(image[<<p, "new">>], TRAMPOLINE, 1)
     IN  /\ NoPagetable(p, freewalk(t))
         /\ panic' = IF HasLeaf(t) THEN "freewalk: leaf" ELSE panic

-----------------------------------------------------------------------------
(* uvmalloc() and uvmdealloc(), for sbrk() and exec() *)

(* uvmalloc(Target, oldsz, newsz, xperm) begins. *)
uvmalloc(p, st, oldsz, newsz, xperm) ==
  /\ job' = [job EXCEPT ![p].stage = st, ![p].va = PGROUNDUP(oldsz),
                        ![p].base = PGROUNDUP(oldsz), ![p].end = newsz,
                        ![p].perm = xperm \cup {"R", "U"}]
  /\ Goto(p, "alloc")

(* Variant of uvmalloc's second error path that forgets kfree(mem). *)
GiveBack_KeepMem(p) == Unmapped(image[Target(p)], job[p].base,
                         (job[p].va - job[p].base) \div PGSIZE)

(* uvmdealloc(pagetable, a, oldsz), after kfree(mem) if there is one. *)
GiveBack(p) ==
  Unmapped(image[Target(p)], job[p].base,
           (job[p].va - job[p].base) \div PGSIZE) \cup ({job[p].mem} \ {0})

(* The table after that; the variant leaves the new entries. *)
Undone_Nothing(p) == image[Target(p)]
Undone(p) ==
  uvmunmap(image[Target(p)], job[p].base,
           (job[p].va - job[p].base) \div PGSIZE)

Growing(p) == job[p].stage \in {"sbrk", "segment", "stack"}

(* mem = kalloc() in the loops of uvmalloc() and uvmcopy(), and uvmfirst(). *)
AllocPage(p) ==
  /\ pc[p] = "alloc"
  /\ Growing(p) => job[p].va < job[p].end
  /\ job[p].stage = "copy" => job[p].va < sz[p]
  /\ freelist # {}
  /\ freelist' = freelist \ {kalloc}
  /\ job' = [job EXCEPT ![p].mem = kalloc]
  /\ Goto(p, "map")
  /\ UNCHANGED <<image, sz, trapframe, before, panic>>

GrowMapped(p) ==
  /\ CanMap(p)
  /\ Growing(p)
  /\ image' = [image EXCEPT ![Target(p)] =
                 SetPte(@, job[p].va, job[p].mem, job[p].perm)]
  /\ panic' = RemapPanic(image[Target(p)], job[p].va)
  /\ job' = [job EXCEPT ![p].va = @ + PGSIZE, ![p].mem = 0]
  /\ Goto(p, "alloc")
  /\ UNCHANGED <<freelist, sz, trapframe, before>>

(* kalloc() or mappages() failed: uvmalloc() undoes what it did and returns *)
(* 0; sbrk() fails, exec() frees its page table.                           *)
GrowFails(p) ==
  /\ Growing(p)
  /\ \/ pc[p] = "alloc" /\ job[p].va < job[p].end /\ freelist = {}
     \/ CannotMap(p)
  /\ IF job[p].stage = "sbrk"
     THEN /\ image' = [image EXCEPT ![<<p, "own">>] = Undone(p)]
          /\ kfree(GiveBack(p))
          /\ Fails(p)
          /\ UNCHANGED <<trapframe, panic>>
     ELSE /\ image' = [image EXCEPT ![<<p, "new">>] = NoTable]
          /\ ExecBad(p, GiveBack(p)
                        \cup proc_freepagetable(Undone(p), job[p].nsz))
          /\ panic' = FreePanic(Undone(p), job[p].nsz)
  /\ UNCHANGED <<sz, before>>

(* growproc(n) for n > 0 *)
Grow(p, n) ==
  /\ InCall(p)
  /\ n > 0
  /\ uvmalloc(p, "sbrk", sz[p], sz[p] + n, {"W"})
  /\ UNCHANGED <<freelist, image, sz, trapframe, before, panic>>

GrowDone(p) ==
  /\ pc[p] = "alloc"
  /\ job[p].stage = "sbrk"
  /\ job[p].va >= job[p].end
  /\ sz' = [sz EXCEPT ![p] = job[p].end]
  /\ before' = [before EXCEPT ![p] = <<image[<<p, "own">>].pte, job[p].end>>]
  /\ Return(p)
  /\ UNCHANGED <<freelist, image, trapframe, panic>>

(* The sum is unsigned. *)
Shrunk(size, n) == (size + n) % UINT64

(* growproc(n) for n < 0: uvmdealloc().  An n below -sz wraps around to a  *)
(* large newsz and changes nothing.  initproc never gives memory back.     *)
Shrink(p, n) ==
  /\ InCall(p)
  /\ p # initproc
  /\ n < 0
  /\ LET t == image[<<p, "own">>]
         newsz == Shrunk(sz[p], n)
         from == PGROUNDUP(newsz)
         npages == (PGROUNDUP(sz[p]) - from) \div PGSIZE
     IN  IF newsz >= sz[p]
         THEN UNCHANGED <<freelist, image, sz, before, panic>>
         ELSE /\ kfree(Unmapped(t, from, npages))
              /\ image' = [image EXCEPT ![<<p, "own">>] = uvmunmap(t, from, npages)]
              /\ sz' = [sz EXCEPT ![p] = newsz]
              /\ before' = [before EXCEPT ![p] =
                              <<uvmunmap(t, from, npages).pte, newsz>>]
              /\ panic' = IF NotMapped(t, from, npages)
                          THEN "uvmunmap: not mapped" ELSE panic
  /\ UNCHANGED <<trapframe, pc, job>>

-----------------------------------------------------------------------------
(* exec() *)

Exec(p, segs, argc) ==
  /\ InCall(p)
  /\ job' = [job EXCEPT ![p] = [Idle EXCEPT !.np = p, !.segs = segs,
                                            !.argc = argc]]
  /\ Goto(p, "argv")
  /\ UNCHANGED <<freelist, image, sz, trapframe, before, panic>>

(* sys_exec() copies one argument string into a page of its own; exec()    *)
(* begins when there is none left.                                         *)
FetchArg(p) ==
  /\ pc[p] = "argv"
  /\ IF Cardinality(job[p].argv) = job[p].argc
     THEN Goto(p, "pagetable") /\ UNCHANGED <<freelist, job>>
     ELSE /\ freelist # {}
          /\ freelist' = freelist \ {kalloc}
          /\ job' = [job EXCEPT ![p].argv = @ \cup {kalloc}]
          /\ UNCHANGED pc
  /\ UNCHANGED <<image, sz, trapframe, before, panic>>

(* No page for an argument, a bad argument pointer, more than MAXARG       *)
(* arguments; or no such file, no ELF header.                              *)
ExecFailsEarly(p) ==
  /\ pc[p] = "argv"
  /\ ExecBad(p, {})
  /\ UNCHANGED <<image, sz, before, panic>>

(* The next ELF_PROG_LOAD segment, or else the stack: two more pages. *)
NextSegment(p) ==
  /\ pc[p] = "segment"
  /\ IF job[p].segs = <<>>
     THEN LET top == PGROUNDUP(job[p].nsz)
          IN  uvmalloc(p, "stack", top, top + 2 * PGSIZE, {"W"})
     ELSE LET ph == Head(job[p].segs)
          IN  uvmalloc(p, "segment", job[p].nsz,
                       IF ph.end < job[p].nsz THEN job[p].nsz ELSE ph.end,
                       ph.perm)
  /\ UNCHANGED <<freelist, image, sz, trapframe, before, panic>>

(* uvmalloc() of a segment returns its new size, and loadseg() finds every *)
(* page of the segment.                                                    *)
LoadSegment(p) ==
  /\ pc[p] = "alloc"
  /\ job[p].stage = "segment"
  /\ job[p].va >= job[p].end
  /\ job[p].end # 0
  /\ LET ph == Head(job[p].segs)
     IN  panic' = IF \E v \in ph.vaddr \div PGSIZE .. (ph.end - 1) \div PGSIZE :
                       walkaddr(image[<<p, "new">>], v * PGSIZE) = 0
                  THEN "loadseg: address should exist" ELSE panic
  /\ job' = [job EXCEPT ![p].nsz = job[p].end, ![p].segs = Tail(@)]
  /\ Goto(p, "segment")
  /\ UNCHANGED <<freelist, image, sz, trapframe, before>>

(* goto bad: a header or the contents of a segment cannot be read, or it   *)
(* is malformed; uvmalloc() returned 0 for an empty image; the arguments   *)
(* do not fit the stack page.                                              *)
ExecFailsLate(p) ==
  /\ \/ pc[p] = "segment" /\ job[p].segs # <<>>
     \/ /\ pc[p] = "alloc"
        /\ job[p].va >= job[p].end
        /\ job[p].stage \in {"segment", "stack"}
  /\ LET size == IF pc[p] = "alloc" THEN job[p].end ELSE job[p].nsz
     IN  /\ ExecBad(p, proc_freepagetable(image[<<p, "new">>], size))
         /\ panic' = FreePanic(image[<<p, "new">>], size)
  /\ image' = [image EXCEPT ![<<p, "new">>] = NoTable]
  /\ UNCHANGED <<sz, before>>

uvmclear(t, va) == [t EXCEPT !.pte[va \div PGSIZE].perm = @ \ {"U"}]

(* uvmclear() of the guard page, then the commit; the old image is freed.  *)
Commit(p) ==
  /\ pc[p] = "alloc"
  /\ job[p].stage = "stack"
  /\ job[p].va >= job[p].end
  /\ LET new == image[<<p, "new">>]
         t == uvmclear(new, job[p].end - 2 * PGSIZE)
     IN  /\ image' = [image EXCEPT ![<<p, "own">>] = t, ![<<p, "new">>] = NoTable]
         /\ before' = [before EXCEPT ![p] = <<t.pte, job[p].end>>]
  /\ sz' = [sz EXCEPT ![p] = job[p].end]
  /\ kfree(FreeArgv(p) \cup proc_freepagetable(image[<<p, "own">>], sz[p]))
  /\ panic' = FreePanic(image[<<p, "own">>], sz[p])
  /\ Return(p)
  /\ UNCHANGED trapframe

-----------------------------------------------------------------------------
(* fork(), userinit(), exit() and wait() *)

Fork(p) ==
  /\ InCall(p)
  /\ \E c \in Procs :
       /\ pc[c] = "unused"
       /\ pc' = [pc EXCEPT ![p] = "trapframe", ![c] = "used"]
       /\ job' = [job EXCEPT ![p] = [Idle EXCEPT !.np = c]]
  /\ UNCHANGED <<freelist, image, sz, trapframe, before, panic>>

uvmfirst == {"R", "W", "X", "U"}

(* One page of uvmcopy(), with the flags of the parent's entry; or the one *)
(* page of uvmfirst().                                                     *)
CopyMapped(p) ==
  /\ CanMap(p)
  /\ job[p].stage \in {"copy", "first"}
  /\ LET from == image[<<p, "own">>].pte[job[p].va \div PGSIZE]
     IN  /\ image' = [image EXCEPT ![<<p, "new">>] =
                        SetPte(@, job[p].va, job[p].mem,
                               IF job[p].stage = "copy" THEN from.perm
                               ELSE uvmfirst)]
         /\ panic' = IF job[p].stage = "copy" /\ from = NoPte
                     THEN "uvmcopy: page not present"
                     ELSE RemapPanic(image[<<p, "new">>], job[p].va)
  /\ job' = [job EXCEPT ![p].va = @ + PGSIZE, ![p].mem = 0]
  /\ Goto(p, IF job[p].stage = "copy" THEN "alloc" ELSE "built")
  /\ UNCHANGED <<freelist, sz, trapframe, before>>

(* uvmcopy() unmaps what it has copied, and freeproc(np). *)
CopyFails(p) ==
  /\ job[p].stage = "copy"
  /\ \/ pc[p] = "alloc" /\ job[p].va < sz[p] /\ freelist = {}
     \/ CannotMap(p)
  /\ FreeChild(p, GiveBack(p) \cup proc_freepagetable(Undone(p), 0))
  /\ panic' = FreePanic(Undone(p), 0)
  /\ image' = [image EXCEPT ![<<p, "new">>] = NoTable]
  /\ UNCHANGED <<sz, before>>

(* np is runnable with a page table and a size of its own. *)
ChildReady(p) ==
  /\ \/ pc[p] = "alloc" /\ job[p].stage = "copy" /\ job[p].va >= sz[p]
     \/ pc[p] = "built"
  /\ LET c == job[p].np
         size == IF pc[p] = "built" THEN PGSIZE ELSE sz[p]
     IN  /\ image' = [image EXCEPT ![<<c, "own">>] = image[<<p, "new">>],
                                   ![<<p, "new">>] = NoTable]
         /\ sz' = [sz EXCEPT ![c] = size]
         /\ before' = [before EXCEPT ![c] = <<image[<<p, "new">>].pte, size>>]
         /\ pc' = [pc EXCEPT ![p] = "user", ![c] = "user"]
  /\ job' = [job EXCEPT ![p] = Idle]
  /\ UNCHANGED <<freelist, trapframe, panic>>

Exit(p) ==
  /\ pc[p] = "user"
  /\ p # initproc
  /\ Goto(p, "zombie")
  /\ UNCHANGED <<freelist, image, sz, trapframe, job, before, panic>>

(* wait() in p frees the zombie c: freeproc(). *)
Reap(p, c) ==
  /\ InCall(p)
  /\ pc[c] = "zombie"
  /\ kfree({trapframe[c]} \cup proc_freepagetable(image[<<c, "own">>], sz[c]))
  /\ panic' = FreePanic(image[<<c, "own">>], sz[c])
  /\ image' = [image EXCEPT ![<<c, "own">>] = NoTable]
  /\ sz' = [sz EXCEPT ![c] = 0]
  /\ trapframe' = [trapframe EXCEPT ![c] = 0]
  /\ before' = [before EXCEPT ![c] = <<NoTable.pte, 0>>]
  /\ Goto(c, "unused")
  /\ UNCHANGED job

-----------------------------------------------------------------------------
Next ==
  /\ panic = "no"
  /\ \E p \in Procs :
       \/ WalkAlloc(p) \/ AllocTrapframe(p) \/ ProcPagetable(p)
       \/ MapTrampoline(p) \/ MapTrapframe(p) \/ PagetableFails(p)
       \/ AllocPage(p) \/ GrowMapped(p) \/ GrowFails(p) \/ GrowDone(p)
       \/ \E n \in Increments : Grow(p, n) \/ Shrink(p, n)
       \/ \E segs \in Programs, argc \in Args : Exec(p, segs, argc)
       \/ FetchArg(p) \/ ExecFailsEarly(p) \/ NextSegment(p)
       \/ LoadSegment(p) \/ ExecFailsLate(p) \/ Commit(p)
       \/ Fork(p) \/ CopyMapped(p) \/ CopyFails(p) \/ ChildReady(p)
       \/ Exit(p)
       \/ \E c \in Procs : Reap(p, c)

Spec == Init /\ [][Next]_vars

-----------------------------------------------------------------------------
(* Every page between end and PHYSTOP has exactly one owner at all times:  *)
(* the free list, one node of one page table, one leaf entry of one page   *)
(* table, the trapframe of one process, or one local variable of uvmalloc, *)
(* uvmcopy or sys_exec.  So kalloc.c never hands out a page that is in     *)
(* use, and no error path of fork, exec or sbrk loses or frees twice one.  *)
PagesOwned ==
  LET leaves == {<<i, v>> \in Images \X (VPages \ {TRAPFRAME \div PGSIZE}) :
                   image[i].pte[v].pa # 0}
      nodes == {<<i, n>> \in Images \X Nodes : image[i].tab[n] # 0}
      frames == {p \in Procs : trapframe[p] # 0}
      mems == {p \in Procs : job[p].mem # 0}
      owned == freelist \cup UNION {job[p].argv : p \in Procs}
                 \cup {image[x[1]].pte[x[2]].pa : x \in leaves}
                 \cup {image[x[1]].tab[x[2]] : x \in nodes}
                 \cup {trapframe[p] : p \in frames}
                 \cup {job[p].mem : p \in mems}
  IN  /\ owned = Pages
      /\ NPAGES = Cardinality(freelist) + Cardinality(leaves)
                  + Cardinality(nodes) + Cardinality(frames)
                  + Cardinality(mems)
                  + MapThenSumSet(LAMBDA p : Cardinality(job[p].argv), Procs)

(* What a process sees whenever it runs: exactly the pages below sz are    *)
(* mapped, and above them its own trapframe and the trampoline, neither    *)
(* of them accessible to the user; a page table has no other leaf.         *)
UserView ==
  \A p \in Procs : pc[p] \in {"user", "zombie"} =>
    LET t == image[<<p, "own">>]
    IN  /\ {v \in VPages : t.pte[v].pa # 0} \ {TRAPFRAME \div PGSIZE}
             = VRange(0, NPagesOf(sz[p]))
        /\ t.pte[TRAPFRAME \div PGSIZE] = [pa |-> trapframe[p], perm |-> {"R", "W"}]
        /\ t.pte[TRAMPOLINE \div PGSIZE] = [pa |-> 0, perm |-> {"R", "X"}]
        /\ trapframe[p] # 0

(* A fork, exec or sbrk that fails leaves the caller with the mappings and *)
(* the size that its last successful call gave it, whichever kalloc()      *)
(* failed.                                                                 *)
FailedCallKeepsImage ==
  \A p \in Procs : pc[p] = "user" => before[p] = <<image[<<p, "own">>].pte, sz[p]>>

(* copyout() and copyin() move a range of user addresses exactly when all  *)
(* of its pages are accessible to the user, and otherwise the bytes before *)
(* the first page that is not; copyinstr() additionally stops after a NUL. *)
CopyExact ==
  \A p \in Procs : pc[p] = "user" =>
    LET t == image[<<p, "own">>]
    IN  \A va \in 0 .. MAXVA - 1, len \in 0 .. 2 * PGSIZE + 1 :
          LET good == {k \in 0 .. len - 1 : \A j \in 0 .. k :
                         walkaddr(t, PGROUNDDOWN(va + j)) # 0}
              got == Cardinality(good)
          IN  /\ copyout(t, va, len) =
                   [ok |-> got = len,
                    at |-> [k \in 1 .. got |->
                              <<walkaddr(t, PGROUNDDOWN(va + k - 1)),
                                (va + k - 1) % PGSIZE>>]]
              /\ \A nul \in 0 .. len :
                   fetchstr(p, va, len, va + nul) = (nul < got)
              /\ fetchaddr(p, va, len) => va + len <= sz[p] /\ got = len
=============================================================================
