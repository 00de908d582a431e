------------------------------- MODULE Memory -------------------------------
(* Pages of physical memory and who owns them: kalloc.c, vm.c, exec.c and    *)
(* the memory side of fork, exit, wait, sbrk (proc.c), the pipe's page       *)
(* (pipe.c) and the tests of system call arguments (syscall.c).              *)
(*                                                                           *)
(* Pages are alike, so the free list is its length and an owner is what the  *)
(* tables hold; addresses are counted in units, Pg to a page, and are taken  *)
(* modulo Word as unsigned integers are.  Every kalloc() and every kfree()   *)
(* is a step of its own: processes compete for the last pages in the middle  *)
(* of their calls.                                                           *)
EXTENDS Integers, FiniteSetsExt, Sequences

CONSTANTS
  Slots, InitSlot,   \* process slots, and that of init
  NPages,            \* physical pages
  Pg, PTab,          \* units in a page, pages a page table page maps
  KTabs,             \* page table pages of the kernel's part
  KernBase, Word,    \* KERNBASE, and 2^32, in units
  KernTop, DevSpace, \* KERNBASE + PHYSTOP, where the kernel's map ends, and DEVSPACE,
                     \* where it goes on
  Deltas,            \* arguments of sbrk()
  Programs,          \* files to exec(): sequences of segments
  ArgLists, MaxArg   \* argument lists: the lengths of the strings; MAXARG

VARIABLES
  nfree,    \* length of kmem.freelist
  state,    \* p->state
  parent,   \* p->parent
  kstack,   \* p->kstack is a page
  vm, sz,   \* p->pgdir as a record of tables and pages, p->sz
  esp,      \* tf->esp as exec() leaves it
  npipe,    \* pages that are pipes
  job,      \* the system call each process is in
  astray    \* copyout() has written who knows where

vars == <<nfree, state, parent, kstack, vm, sz, esp, npipe, job, astray>>

VPages == 0 .. (KernBase \div Pg) - 1

(* A page table: the directory page, kernel table pages, the user table      *)
(* pages, the user pages present, the ones without PTE_U.                    *)
NoVm == [dir |-> 0, ktabs |-> 0, tabs |-> {}, pages |-> {}, guard |-> {}]

PagesOf(v) == v.dir + v.ktabs + Cardinality(v.tabs) + Cardinality(v.pages)

(* A call under way: where it is, the page table it builds and the size that *)
(* has, the range allocuvm() has still to map, the page it has in hand       *)
(* (mem), the pages it is about to kfree(), what is left of the file, and    *)
(* whether it holds the inode and the log operation of exec().               *)
NoJob == [op |-> "user", at |-> "", child |-> InitSlot, new |-> NoVm, nsz |-> 0, lim |-> 0,
          mem |-> 0, dead |-> 0, segs |-> <<>>, ip |-> FALSE]

RoundUp(a) == ((a + Pg - 1) \div Pg)

Table(v) == v \div PTab

Unsigned(n) == n % Word

(* userinit(): init runs with one page.                                      *)
Init ==
  /\ vm = [p \in Slots |-> IF p = InitSlot THEN [dir |-> 1, ktabs |-> KTabs, tabs |-> {0}, pages |-> {0}, guard |-> {}] ELSE NoVm]
  /\ nfree = NPages - 3 - KTabs - 1
  /\ state = [p \in Slots |-> IF p = InitSlot THEN "RUNNABLE" ELSE "UNUSED"]
  /\ parent = [p \in Slots |-> InitSlot]
  /\ kstack = [p \in Slots |-> IF p = InitSlot THEN 1 ELSE 0]
  /\ sz = [p \in Slots |-> IF p = InitSlot THEN Pg ELSE 0]
  /\ esp = [p \in Slots |-> Pg]
  /\ npipe = 0
  /\ job = [p \in Slots |-> NoJob]
  /\ astray = FALSE

Set(p, j) == job' = [job EXCEPT ![p] = j]

(* A process in user space whose first page is gone, or not for user code,   *)
(* can only fault.                                                           *)
InUser(p) == state[p] = "RUNNABLE" /\ job[p] = NoJob

Calls(p) == InUser(p) /\ 0 \in vm[p].pages \ vm[p].guard

Doing(p, at) == state[p] = "RUNNABLE" /\ job[p].at = at /\ job[p].dead = 0

(* kfree() of one of the pages a call has taken out of its tables.           *)
Kfree(p) ==
  /\ job[p].dead > 0
  /\ nfree' = nfree + 1
  /\ job' = [job EXCEPT ![p].dead = @ - 1]
  /\ UNCHANGED <<state, parent, kstack, vm, sz, esp, npipe, astray>>

-----------------------------------------------------------------------------

(* deallocuvm(v, old, new): the pages from PGROUNDUP(new) up to old go.      *)
Gone(v, old, new) == {n \in v.pages : RoundUp(new) <= n /\ n < RoundUp(old)}

Without(v, P) == [v EXCEPT !.pages = @ \ P, !.guard = @ \ P]

(* What allocuvm() does first, with the range left to it in the job.  A      *)
(* failure (0) and a size that is not larger are its early returns.          *)
TooLarge(new) == new >= KernBase

(* Mutant: the page in hand is not given back (kfree(mem) missing).          *)
AllocFails_Leak(j) ==
  LET G == Gone(j.new, j.lim, j.nsz)
  IN  [j EXCEPT !.new = Without(@, G), !.dead = Cardinality(G), !.mem = 0, !.at = "bad"]

(* The pages kfree'd when allocuvm() of j fails.                             *)
AllocFails(j) ==
  LET G == Gone(j.new, j.lim, j.nsz)
  IN  [j EXCEPT !.new = Without(@, G), !.dead = Cardinality(G) + j.mem, !.mem = 0, !.at = "bad"]

(* The next page allocuvm() or copyuvm() maps: the lowest one of the range   *)
(* that is not there.                                                        *)
Missing(j) == {n \in VPages : RoundUp(j.nsz) <= n /\ n * Pg < j.lim} \ j.new.pages

NextPage(j) == CHOOSE n \in Missing(j) : \A m \in Missing(j) : n <= m

(* One turn of their loops: kalloc() of the page, and mappages(), which      *)
(* needs no memory if walkpgdir() finds the page table page.                 *)
Mapped(j) ==
  IF Table(NextPage(j)) \in j.new.tabs
  THEN [j EXCEPT !.new.pages = @ \cup {NextPage(j)}, !.mem = 0]
  ELSE [j EXCEPT !.mem = 1]

AllocPage(p) ==
  LET j == job[p] IN
  /\ Doing(p, "alloc") /\ Missing(j) # {} /\ j.mem = 0
  /\ IF nfree = 0 THEN Set(p, AllocFails(j)) /\ nfree' = nfree
                  ELSE Set(p, Mapped(j)) /\ nfree' = nfree - 1
  /\ UNCHANGED <<state, parent, kstack, vm, sz, esp, npipe, astray>>

(* walkpgdir() makes a page table page.                                      *)
AllocTable(p) ==
  LET j == job[p] IN
  /\ Doing(p, "alloc") /\ j.mem = 1
  /\ IF nfree = 0 THEN Set(p, AllocFails(j)) /\ nfree' = nfree
     ELSE /\ Set(p, Mapped([j EXCEPT !.new.tabs = @ \cup {Table(NextPage(j))}]))
          /\ nfree' = nfree - 1
  /\ UNCHANGED <<state, parent, kstack, vm, sz, esp, npipe, astray>>

(* setupkvm(): the directory, then the kernel's table pages; freevm() if     *)
(* there is no memory for one of these.                                      *)
Setupkvm(p) ==
  LET j == job[p] IN
  /\ Doing(p, "setup")
  /\ IF nfree = 0 THEN Set(p, [j EXCEPT !.at = "bad"]) /\ nfree' = nfree
     ELSE /\ nfree' = nfree - 1
          /\ IF j.new.dir = 0 THEN Set(p, [j EXCEPT !.new.dir = 1])
             ELSE Set(p, [j EXCEPT !.new.ktabs = @ + 1,
                                   !.at = IF j.new.ktabs + 1 < KTabs THEN "setup"
                                          ELSE IF j.op = "fork" THEN "alloc" ELSE "load"])
  /\ UNCHANGED <<state, parent, kstack, vm, sz, esp, npipe, astray>>

-----------------------------------------------------------------------------

(* sys_sbrk() and growproc(): the job's table stands for p->pgdir, which     *)
(* growproc() changes in place.  A size of 0 makes growproc() return -1 with *)
(* the pages gone and p->sz as before (init.c does not do that).             *)
Sbrk(p) == \E n \in Deltas :
  LET new == Unsigned(sz[p] + n)
      G == Gone(vm[p], sz[p], new)
  IN
  /\ Calls(p)
  /\ \/ /\ n > 0 /\ ~TooLarge(new)
        /\ Set(p, [NoJob EXCEPT !.op = "sbrk", !.at = "alloc", !.new = vm[p], !.nsz = sz[p], !.lim = new])
        /\ vm' = [vm EXCEPT ![p] = NoVm]
        /\ UNCHANGED sz
     \/ /\ n < 0 /\ new < sz[p] /\ (new = 0 => p # InitSlot)
        /\ vm' = [vm EXCEPT ![p] = Without(@, G)]
        /\ sz' = [sz EXCEPT ![p] = IF new = 0 THEN @ ELSE new]
        /\ Set(p, [NoJob EXCEPT !.op = "sbrk", !.at = "done", !.dead = Cardinality(G)])
  /\ UNCHANGED <<nfree, state, parent, kstack, esp, npipe, astray>>

(* Mutant: growproc() sets p->sz although allocuvm() failed.                 *)
SbrkEnds_Grown(p) ==
  LET j == job[p] IN
  /\ j.op = "sbrk" /\ j.new.dir = 1
  /\ (Doing(p, "alloc") /\ Missing(j) = {}) \/ Doing(p, "bad")
  /\ sz' = [sz EXCEPT ![p] = j.lim]
  /\ vm' = [vm EXCEPT ![p] = j.new]
  /\ Set(p, NoJob)
  /\ UNCHANGED <<nfree, state, parent, kstack, esp, npipe, astray>>

(* allocuvm() of growproc() has come to its end, one way or the other.       *)
SbrkEnds(p) ==
  LET j == job[p] IN
  /\ j.op = "sbrk" /\ j.new.dir = 1
  /\ \/ Doing(p, "alloc") /\ Missing(j) = {} /\ sz' = [sz EXCEPT ![p] = j.lim]
     \/ Doing(p, "bad") /\ sz' = sz
  /\ vm' = [vm EXCEPT ![p] = j.new]
  /\ Set(p, NoJob)
  /\ UNCHANGED <<nfree, state, parent, kstack, esp, npipe, astray>>

(* A call that has freed its pages returns.                                  *)
Return(p) ==
  /\ Doing(p, "done") \/ Doing(p, "committed")
  /\ Set(p, NoJob)
  /\ UNCHANGED <<nfree, state, parent, kstack, vm, sz, esp, npipe, astray>>

(* pipealloc() takes a page, the last pipeclose() returns it.                *)
PipePage(p) ==
  /\ Calls(p)
  /\ \/ npipe = 0 /\ nfree > 0 /\ npipe' = 1 /\ nfree' = nfree - 1
     \/ npipe = 1 /\ npipe' = 0 /\ nfree' = nfree + 1
  /\ UNCHANGED <<state, parent, kstack, vm, sz, esp, job, astray>>

-----------------------------------------------------------------------------

(* fork(): allocproc() takes a slot,                                         *)
Fork(p) == \E q \in Slots :
  /\ Calls(p) /\ state[q] = "UNUSED"
  /\ state' = [state EXCEPT ![q] = "EMBRYO"]
  /\ Set(p, [NoJob EXCEPT !.op = "fork", !.at = "kstack", !.child = q, !.lim = sz[p]])
  /\ UNCHANGED <<nfree, parent, kstack, vm, sz, esp, npipe, astray>>

(* and a page for the kernel stack, or gives the slot back;                  *)
Allocproc(p) ==
  LET j == job[p] IN
  /\ Doing(p, "kstack")
  /\ \/ /\ nfree = 0 /\ state' = [state EXCEPT ![j.child] = "UNUSED"]
        /\ Set(p, NoJob) /\ UNCHANGED <<nfree, kstack>>
     \/ /\ nfree > 0 /\ nfree' = nfree - 1
        /\ kstack' = [kstack EXCEPT ![j.child] = 1]
        /\ Set(p, [j EXCEPT !.at = "setup"]) /\ UNCHANGED state
  /\ UNCHANGED <<parent, vm, sz, esp, npipe, astray>>

(* copyuvm() copies the flags of a page too;                                 *)
Forked(p) ==
  LET j == job[p] IN
  /\ Doing(p, "alloc") /\ j.op = "fork" /\ Missing(j) = {}
  /\ vm' = [vm EXCEPT ![j.child] = [j.new EXCEPT !.guard = vm[p].guard]]
  /\ sz' = [sz EXCEPT ![j.child] = sz[p]]
  /\ esp' = [esp EXCEPT ![j.child] = esp[p]]
  /\ parent' = [parent EXCEPT ![j.child] = p]
  /\ state' = [state EXCEPT ![j.child] = "RUNNABLE"]
  /\ Set(p, NoJob)
  /\ UNCHANGED <<nfree, kstack, npipe, astray>>

(* and a fork() whose copyuvm() failed frees the stack.                      *)
ForkFails(p) ==
  LET j == job[p] IN
  /\ Doing(p, "unfork")
  /\ nfree' = nfree + 1
  /\ kstack' = [kstack EXCEPT ![j.child] = 0]
  /\ state' = [state EXCEPT ![j.child] = "UNUSED"]
  /\ Set(p, NoJob)
  /\ UNCHANGED <<parent, vm, sz, esp, npipe, astray>>

(* freevm() of the new table where copyuvm() or exec() give up; exec() lets  *)
(* go of the inode if it still has it.                                       *)
Bad(j) == [j EXCEPT !.dead = PagesOf(j.new), !.new = NoVm, !.ip = FALSE,
                    !.at = IF j.op = "fork" THEN "unfork" ELSE "done"]

GivesUp(p) ==
  /\ Doing(p, "bad") /\ job[p].op # "sbrk"
  /\ Set(p, Bad(job[p]))
  /\ UNCHANGED <<nfree, state, parent, kstack, vm, sz, esp, npipe, astray>>

(* exit(), by choice or after a page fault in user space; the memory stays.  *)
Exit(p) ==
  /\ InUser(p) /\ p # InitSlot
  /\ state' = [state EXCEPT ![p] = "ZOMBIE"]
  /\ parent' = [q \in Slots |-> IF parent[q] = p THEN InitSlot ELSE parent[q]]
  /\ UNCHANGED <<nfree, kstack, vm, sz, esp, npipe, job, astray>>

(* wait() finds a zombie, frees its stack and its page table,                *)
Wait(p) == \E q \in Slots :
  /\ Calls(p) /\ parent[q] = p /\ state[q] = "ZOMBIE"
  /\ kstack' = [kstack EXCEPT ![q] = 0]
  /\ vm' = [vm EXCEPT ![q] = NoVm]
  /\ Set(p, [NoJob EXCEPT !.op = "wait", !.at = "reap", !.child = q,
                          !.dead = kstack[q] + PagesOf(vm[q])])
  /\ UNCHANGED <<nfree, state, parent, sz, esp, npipe, astray>>

(* and then gives the slot back.                                             *)
Reaped(p) ==
  /\ Doing(p, "reap")
  /\ state' = [state EXCEPT ![job[p].child] = "UNUSED"]
  /\ Set(p, NoJob)
  /\ UNCHANGED <<nfree, parent, kstack, vm, sz, esp, npipe, astray>>

-----------------------------------------------------------------------------

(* sys_exec() has fetched the arguments, exec() has found the file, and its  *)
(* header is that of a program.  It builds a new image beside the old one.   *)
Exec(p) == \E prog \in Programs :
  /\ Calls(p)
  /\ Set(p, [NoJob EXCEPT !.op = "exec", !.at = "setup", !.segs = prog, !.ip = TRUE])
  /\ UNCHANGED <<nfree, state, parent, kstack, vm, sz, esp, npipe, astray>>

(* The header of the next segment: not to be loaded, wrong, or a range for   *)
(* allocuvm(), which returns the old size if that is larger and 0, a         *)
(* failure, for an empty image.                                              *)
Segment(j) ==
  LET s == Head(j.segs)
      new == Unsigned(s.va + s.memsz)
  IN  IF s.kind = "note" THEN [j EXCEPT !.segs = Tail(@)]
      ELSE IF s.kind = "header" \/ new < s.va \/ TooLarge(new) \/ (new = 0 /\ j.nsz = 0)
      THEN [j EXCEPT !.at = "bad"]
      ELSE [j EXCEPT !.at = "alloc", !.lim = IF new < j.nsz THEN j.nsz ELSE new]

(* The program is in memory: exec() lets go of the inode and asks for two    *)
(* pages above it.                                                           *)
AskStack(j) ==
  LET top == RoundUp(j.nsz) * Pg IN
  [j EXCEPT !.ip = FALSE, !.nsz = top, !.lim = top + 2 * Pg,
            !.at = IF TooLarge(top + 2 * Pg) THEN "bad" ELSE "alloc"]

Load(p) ==
  /\ Doing(p, "load")
  /\ Set(p, IF job[p].segs = <<>> THEN AskStack(job[p]) ELSE Segment(job[p]))
  /\ UNCHANGED <<nfree, state, parent, kstack, vm, sz, esp, npipe, astray>>

(* The test for alignment, and loaduvm(), come after allocuvm().             *)
Loaded(p) ==
  LET j == job[p] IN
  /\ Doing(p, "alloc") /\ j.ip /\ Missing(j) = {}
  /\ Set(p, IF Head(j.segs).va % Pg # 0 \/ Head(j.segs).kind = "short"
            THEN [j EXCEPT !.at = "bad"]
            ELSE [j EXCEPT !.at = "load", !.nsz = j.lim, !.segs = Tail(@)])
  /\ UNCHANGED <<nfree, state, parent, kstack, vm, sz, esp, npipe, astray>>

(* walkpgdir() finds the page table page for page n: of the image or, for    *)
(* addresses the kernel maps, of the kernel's part.                          *)
HasPte(v, n) ==
  \/ Table(n) \in v.tabs
  \/ KernBase <= n * Pg /\ n * Pg < KernTop
  \/ DevSpace <= n * Pg

(* What copyout() may come to.  uva2ka() accepts pages that are present for  *)
(* user code; the first other page decides.  Where walkpgdir() returns 0     *)
(* uva2ka() does not look: the word at address 0, whatever that is, passes   *)
(* for the page's entry, to be refused or to be the place of the copy.       *)
Copyout(v, va, len) ==
  LET page(i) == Unsigned(va + i) \div Pg
      bad == {i \in 0 .. len - 1 : page(i) \notin v.pages \ v.guard}
  IN  IF bad = {} THEN {"ok"}
      ELSE IF HasPte(v, page(Min(bad))) THEN {"fail"} ELSE {"fail", "astray"}

(* The stack pointer after the first i things pushed, by their lengths.      *)
Sp(j, lens) ==
  LET sp[i \in 0 .. Len(lens)] == IF i = 0 THEN j.lim ELSE Unsigned(sp[i - 1] - lens[i])
  IN  sp

(* Mutant: no clearpteu().                                                   *)
Guarded_Not(j) == j.new

(* clearpteu(): the lower page of the stack is not for user code.            *)
Guarded(j) == [j.new EXCEPT !.guard = {RoundUp(j.lim) - 2}]

(* What pushing comes to: the first copyout() that is not "ok" decides.      *)
Pushes(j, lens) ==
  LET copy(i) == Copyout(Guarded(j), Sp(j, lens)[i], lens[i])
      bad == {i \in DOMAIN lens : copy(i) # {"ok"}}
  IN  IF bad = {} THEN {"ok"} ELSE copy(Min(bad))

(* The argument strings (fewer than MAXARG, each within the old image, as    *)
(* sys_exec() has seen), then the vector of their addresses (one unit), are  *)
(* pushed; only then does exec() commit, and free the old image.             *)
Commit(p) == \E args \in ArgLists :
  LET j == job[p]
      lens == Append(args, 1)
  IN
  /\ Doing(p, "alloc") /\ j.op = "exec" /\ ~j.ip /\ Missing(j) = {}
  /\ Len(args) < MaxArg /\ \A i \in DOMAIN args : args[i] <= sz[p]
  /\ \/ /\ "fail" \in Pushes(j, lens) /\ Set(p, [j EXCEPT !.at = "bad"])
        /\ UNCHANGED <<vm, sz, esp, astray>>
     \/ /\ "astray" \in Pushes(j, lens) /\ astray' = TRUE
        /\ UNCHANGED <<job, vm, sz, esp>>
     \/ /\ "ok" \in Pushes(j, lens)
        /\ vm' = [vm EXCEPT ![p] = Guarded(j)]
        /\ sz' = [sz EXCEPT ![p] = j.lim]
        /\ esp' = [esp EXCEPT ![p] = Sp(j, lens)[Len(lens)]]
        /\ Set(p, [NoJob EXCEPT !.op = "exec", !.at = "committed", !.dead = PagesOf(vm[p])])
        /\ UNCHANGED astray
  /\ UNCHANGED <<nfree, state, parent, kstack, npipe>>

Step(p) ==
  \/ Kfree(p) \/ AllocPage(p) \/ AllocTable(p) \/ Setupkvm(p)
  \/ Sbrk(p) \/ SbrkEnds(p) \/ Return(p) \/ PipePage(p)
  \/ Fork(p) \/ Allocproc(p) \/ Forked(p) \/ ForkFails(p) \/ GivesUp(p) \/ Exit(p) \/ Wait(p) \/ Reaped(p)
  \/ Exec(p) \/ Load(p) \/ Loaded(p) \/ Commit(p)

(* Of what happens after a write astray nothing is said.                     *)
Next == ~astray /\ \E p \in Slots : Step(p)

Spec == Init /\ [][Next]_vars

-----------------------------------------------------------------------------

(* fetchint() and argptr(): tests on an address before the kernel uses it.   *)
(* An int is two units, so that it can lie across a page boundary.           *)
fetchint(p, a) == a < sz[p] /\ Unsigned(a + 2) <= sz[p]

argptr(p, a, n) == n >= 0 /\ a < sz[p] /\ Unsigned(a + n) <= sz[p]

(* Pages the process p, its call under way included, owns.                   *)
Owns(p) == kstack[p] + PagesOf(vm[p]) + PagesOf(job[p].new) + job[p].mem + job[p].dead

(* kalloc()/kfree(), kalloc.c:55-95, and every error path of vm.c, exec.c    *)
(* and fork() above them: in the middle of every call each physical page is  *)
(* free or has one owner.  None is lost, none is freed twice.                *)
Conserved ==
  LET total[S \in SUBSET Slots] ==
        IF S = {} THEN 0 ELSE LET p == CHOOSE p \in S : TRUE IN Owns(p) + total[S \ {p}]
  IN  /\ nfree \in 0 .. NPages
      /\ nfree + npipe + total[Slots] = NPages

(* argptr(), fetchint() (syscall.c:16-70) and copyuvm() (vm.c:326-329) rely  *)
(* on p->sz alone: whatever they accept, or copy, is mapped, so that the     *)
(* kernel takes no fault and copyuvm() does not panic; wrap-around included. *)
ArgsMapped == \A p \in Slots : Calls(p) =>
  /\ \A a \in 0 .. Word - 1 :
       /\ \A n \in -1 .. Word \div 2 - 1 :
            argptr(p, a, n) => \A b \in a .. a + n - 1 : b \div Pg \in vm[p].pages
       /\ fetchint(p, a) => \A b \in a .. a + 1 : b \div Pg \in vm[p].pages
  /\ \A n \in VPages : n * Pg < sz[p] => n \in vm[p].pages
  /\ \A n \in vm[p].pages : Table(n) \in vm[p].tabs

(* exec(), exec.c:63-104: an image is committed only when it is complete,    *)
(* with the guard page below the stack and all that was pushed above it.     *)
(* Argument strings may be longer than the stack, and than the whole image:  *)
(* where their place would be in the program, or wraps around to the         *)
(* kernel's pages, exec() gives up.  Nothing is said once a place between    *)
(* KERNBASE + PHYSTOP and DEVSPACE has led a copy astray (vm.c:355).         *)
ExecStack == \A p \in Slots : job[p].at = "committed" =>
  /\ vm[p].dir = 1 /\ vm[p].ktabs = KTabs
  /\ \A n \in VPages : n \in vm[p].pages <=> n * Pg < sz[p]
  /\ vm[p].guard = {sz[p] \div Pg - 2}
  /\ esp[p] \in sz[p] - Pg .. sz[p] - 1

=============================================================================
