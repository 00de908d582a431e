------------------------------- MODULE Proc -------------------------------
(***************************************************************************)
(* The process table of xv6-ASA (proc.c, trap.c, sysproc.c): creation,     *)
(* exit and reaping of processes, sleep and wakeup, kill, the timer tick,  *)
(* and the context switch, on several CPUs.                                *)
(*                                                                         *)
(* A step is one critical section of ptable.lock (or of tickslock), or one *)
(* piece of code between two of them.  Code that holds a lock across a     *)
(* context switch is cut at the switch: sched() is entered in one step and *)
(* left in another, with ptable.lock held by the CPU in between.  Which    *)
(* RUNNABLE process a CPU picks is left open here; module Sched has the    *)
(* scheduling policy.  Slots of the table are 1..NPROC, 0 is the null      *)
(* pointer, and slot 1 is initproc.                                        *)
(***************************************************************************)
EXTENDS Integers, FiniteSets

CONSTANTS
  NPROC,        \* slots in ptable.proc
  NCPU,         \* CPUs that run scheduler()
  MaxPid,       \* bound: fork stops when nextpid exceeds it
  KillPids,     \* pids that user programs give to kill()
  TicksMod,     \* ticks is a machine word: it counts modulo TicksMod
  SleepTimes    \* arguments that user programs give to sleep()

ASSUME NPROCAssumption == NPROC \in Nat \ {0}
ASSUME NCPUAssumption == NCPU \in Nat \ {0}
ASSUME MaxPidAssumption == MaxPid \in Nat \ {0}
ASSUME TicksAssumption == /\ TicksMod \in Nat \ {0}
                          /\ SleepTimes \subseteq 1 .. TicksMod - 1

Slots == 1 .. NPROC
CPUs == 0 .. NCPU - 1
Null == 0
Free == -1                      \* a spinlock no CPU holds
InitProc == 1
TicksChan == NPROC + 1          \* &ticks; the channel of wait() is the slot

States == {"UNUSED", "EMBRYO", "SLEEPING", "RUNNABLE", "RUNNING", "ZOMBIE"}

\* Where a kernel thread is, or resumes when it is switched to.
PCs == {"none",     \* no thread: the slot is unused or being set up
        "user",     \* in user space, about to trap
        "kernel",   \* in a system call, past the check of killed in trap()
        "stack",    \* fork: slot taken, kernel stack not yet allocated
        "copy",     \* fork: about to copy the address space
        "ready",    \* fork: child complete, about to become RUNNABLE
        "forkret",  \* a new process before its first run
        "waited",   \* wait: switched out in sleep()
        "tloop",    \* sys_sleep: holds tickslock, tests its loop condition
        "tsleep",   \* sys_sleep: has called sleep(), wants ptable.lock
        "tslept",   \* sys_sleep: switched out in sleep()
        "trelock",  \* sys_sleep: back from sched(), wants tickslock
        "exit",     \* exit() called
        "dead"}     \* switched out for good

Panics == {"no", "init exiting", "sched ptable.lock", "sched locks",
           "sched running", "zombie exit"}

\* Code that runs with interrupts enabled and no lock held.
Preemptible == {"user", "kernel", "stack", "copy", "ready", "trelock", "exit"}

VARIABLES
  state, pid, parent, chan, killed,   \* fields of struct proc, by slot
  nextpid,
  lock,         \* the CPU that holds ptable.lock
  tickslock,    \* the CPU that holds tickslock
  cpuproc,      \* mycpu()->proc, by CPU
  sched,        \* the CPUs that are inside sched(), before swtch
  pc,           \* the thread of each slot
  np,           \* fork's local np, by slot of the parent
  ticks,
  nap,          \* sys_sleep's locals ticks0 and n, by slot
  tick,         \* the timer handler on CPU 0: idle, wakeup called, returning
  panicked

fields == <<state, pid, parent, chan, killed, nextpid>>
locks == <<lock, tickslock>>
clock == <<ticks, nap, tick>>
vars == <<state, pid, parent, chan, killed, nextpid, lock, tickslock, cpuproc,
          sched, pc, np, ticks, nap, tick, panicked>>

NoNap == [t0 |-> 0, n |-> 0]

TypeOK ==
  /\ state \in [Slots -> States]
  /\ pid \in [Slots -> 0 .. MaxPid]
  /\ parent \in [Slots -> Slots \cup {Null}]
  /\ chan \in [Slots -> 0 .. TicksChan]
  /\ killed \in [Slots -> BOOLEAN]
  /\ nextpid \in 1 .. MaxPid + 1
  /\ lock \in CPUs \cup {Free}
  /\ tickslock \in CPUs \cup {Free}
  /\ cpuproc \in [CPUs -> Slots \cup {Null}]
  /\ sched \subseteq CPUs
  /\ pc \in [Slots -> PCs]
  /\ np \in [Slots -> Slots \cup {Null}]
  /\ ticks \in 0 .. TicksMod - 1
  /\ nap \in [Slots -> [t0 : 0 .. TicksMod - 1, n : SleepTimes \cup {0}]]
  /\ tick \in {"idle", "wake", "return"}
  /\ panicked \in Panics

----------------------------------------------------------------------------
(* userinit(): slot 1 holds the first process; every CPU is in scheduler(). *)

Init ==
  /\ state = [s \in Slots |-> IF s = InitProc THEN "RUNNABLE" ELSE "UNUSED"]
  /\ pid = [s \in Slots |-> IF s = InitProc THEN 1 ELSE 0]
  /\ parent = [s \in Slots |-> Null]
  /\ chan = [s \in Slots |-> 0]
  /\ killed = [s \in Slots |-> FALSE]
  /\ nextpid = 2
  /\ lock = Free
  /\ tickslock = Free
  /\ cpuproc = [c \in CPUs |-> Null]
  /\ sched = {}
  /\ pc = [s \in Slots |-> IF s = InitProc THEN "forkret" ELSE "none"]
  /\ np = [s \in Slots |-> Null]
  /\ ticks = 0
  /\ nap = [s \in Slots |-> NoNap]
  /\ tick = "idle"
  /\ panicked = "no"

\* Mutant: wakeup1() stops at the first sleeper.
Wakeup1_FirstOnly(ch, st) ==
  [s \in Slots |->
     IF /\ st[s] = "SLEEPING" /\ chan[s] = ch
        /\ \A t \in 1 .. s - 1 : ~(st[t] = "SLEEPING" /\ chan[t] = ch)
     THEN "RUNNABLE" ELSE st[s]]

\* The state array after wakeup1(ch), applied to st.
Wakeup1(ch, st) ==
  [s \in Slots |-> IF st[s] = "SLEEPING" /\ chan[s] = ch
                   THEN "RUNNABLE" ELSE st[s]]

\* Process p executes on CPU c; no interrupt handler is on top of it.
On(c, p) ==
  /\ cpuproc[c] = p
  /\ state[p] = "RUNNING"
  /\ c \notin sched
  /\ c = 0 => tick = "idle"

\* p executes on c at program point l and holds no lock.
At(c, p, l) == On(c, p) /\ lock # c /\ tickslock # c /\ pc[p] = l

Goto(p, l) == pc' = [pc EXCEPT ![p] = l]

\* Mutant: ptable.lock is let go before the switch.
EnterSched_Unlocked(c) == lock' = Free /\ sched' = sched \cup {c}

\* The process on c calls sched() with ptable.lock, which it took or kept.
EnterSched(c) == lock' = c /\ sched' = sched \cup {c}

----------------------------------------------------------------------------
(* trap(): entry of a system call, and a fault of a user program.           *)

Trap(c, p) ==
  /\ At(c, p, "user")
  /\ Goto(p, IF killed[p] THEN "exit" ELSE "kernel")
  /\ UNCHANGED <<fields, locks, cpuproc, sched, np, clock, panicked>>

Fault(c, p) ==
  /\ At(c, p, "user")
  /\ killed' = [killed EXCEPT ![p] = TRUE]
  /\ Goto(p, "exit")
  /\ UNCHANGED <<state, pid, parent, chan, nextpid, locks, cpuproc, sched, np,
                 clock, panicked>>

----------------------------------------------------------------------------
(* fork() and allocproc().                                                  *)

FirstUnused(q) ==
  /\ state[q] = "UNUSED"
  /\ \A s \in Slots : s < q => state[s] # "UNUSED"

\* Mutant: the increment of nextpid is lost.
NextPid_Lost == nextpid

NextPid == nextpid + 1

AllocProc(c, p) ==
  /\ At(c, p, "kernel")
  /\ lock = Free
  /\ nextpid <= MaxPid
  /\ \E q \in Slots :
       /\ FirstUnused(q)
       /\ state' = [state EXCEPT ![q] = "EMBRYO"]
       /\ pid' = [pid EXCEPT ![q] = nextpid]
       /\ np' = [np EXCEPT ![p] = q]
  /\ nextpid' = NextPid
  /\ Goto(p, "stack")
  /\ UNCHANGED <<parent, chan, killed, locks, cpuproc, sched, clock, panicked>>

\* No slot: fork returns -1.
AllocProcFull(c, p) ==
  /\ At(c, p, "kernel")
  /\ lock = Free
  /\ \A q \in Slots : state[q] # "UNUSED"
  /\ Goto(p, "user")
  /\ UNCHANGED <<fields, locks, cpuproc, sched, np, clock, panicked>>

\* kalloc() of the kernel stack gives a page; the child will start in forkret.
AllocStack(c, p) ==
  /\ At(c, p, "stack")
  /\ pc' = [pc EXCEPT ![p] = "copy", ![np[p]] = "forkret"]
  /\ UNCHANGED <<fields, locks, cpuproc, sched, np, clock, panicked>>

\* kalloc() or copyuvm() fails: the slot is given back without the lock.
\* Its pid keeps the value allocproc gave it.
ForkFails(c, p) ==
  /\ At(c, p, "stack") \/ At(c, p, "copy")
  /\ state' = [state EXCEPT ![np[p]] = "UNUSED"]
  /\ pc' = [pc EXCEPT ![p] = "user", ![np[p]] = "none"]
  /\ np' = [np EXCEPT ![p] = Null]
  /\ UNCHANGED <<pid, parent, chan, killed, nextpid, locks, cpuproc, sched,
                 clock, panicked>>

\* np->parent = curproc, without the lock.
ForkCopy(c, p) ==
  /\ At(c, p, "copy")
  /\ parent' = [parent EXCEPT ![np[p]] = p]
  /\ Goto(p, "ready")
  /\ UNCHANGED <<state, pid, chan, killed, nextpid, locks, cpuproc, sched, np,
                 clock, panicked>>

ForkReady(c, p) ==
  /\ At(c, p, "ready")
  /\ lock = Free
  /\ state' = [state EXCEPT ![np[p]] = "RUNNABLE"]
  /\ np' = [np EXCEPT ![p] = Null]
  /\ Goto(p, "user")
  /\ UNCHANGED <<pid, parent, chan, killed, nextpid, locks, cpuproc, sched,
                 clock, panicked>>

----------------------------------------------------------------------------
(* exit(), wait() and kill().                                               *)

SysExit(c, p) ==
  /\ At(c, p, "kernel")
  /\ Goto(p, "exit")
  /\ UNCHANGED <<fields, locks, cpuproc, sched, np, clock, panicked>>

InitExiting(c) ==
  /\ At(c, InitProc, "exit")
  /\ panicked' = "init exiting"
  /\ UNCHANGED <<fields, locks, cpuproc, sched, pc, np, clock>>

Children(p) == {s \in Slots : parent[s] = p}

\* Mutant: init is not woken for the zombies it inherits.
ExitWakeups_ParentOnly(p) == Wakeup1(parent[p], state)

\* wakeup1(curproc->parent), and wakeup1(initproc) if a zombie is handed over
ExitWakeups(p) ==
  LET woken == Wakeup1(parent[p], state)
  IN  IF \E s \in Children(p) : woken[s] = "ZOMBIE"
      THEN Wakeup1(InitProc, woken) ELSE woken

\* Mutant: abandoned children keep their parent.
Reparented_None(p) == parent

Reparented(p) ==
  [s \in Slots |-> IF s \in Children(p) THEN InitProc ELSE parent[s]]

Exit(c, p) ==
  /\ At(c, p, "exit")
  /\ p # InitProc
  /\ lock = Free
  /\ parent' = Reparented(p)
  /\ state' = [ExitWakeups(p) EXCEPT ![p] = "ZOMBIE"]
  /\ EnterSched(c)
  /\ Goto(p, "dead")
  /\ UNCHANGED <<pid, chan, killed, nextpid, tickslock, cpuproc, np, clock,
                 panicked>>

Zombies(p) == {s \in Children(p) : state[s] = "ZOMBIE"}

\* wait() is about to scan the table: on its first pass it takes the lock, on
\* a later one it holds it since sched() returned, and sleep() has reset chan.
Scanning(c, p) ==
  \/ At(c, p, "kernel") /\ lock = Free
  \/ On(c, p) /\ lock = c /\ pc[p] = "waited"

\* The first exited child in the table is freed.
WaitReap(c, p) ==
  /\ Scanning(c, p)
  /\ \E q \in Zombies(p) :
       /\ \A s \in Zombies(p) : q <= s
       /\ state' = [state EXCEPT ![q] = "UNUSED"]
       /\ pid' = [pid EXCEPT ![q] = 0]
       /\ parent' = [parent EXCEPT ![q] = Null]
       /\ killed' = [killed EXCEPT ![q] = FALSE]
       /\ pc' = [pc EXCEPT ![p] = "user", ![q] = "none"]
  /\ chan' = [chan EXCEPT ![p] = 0]
  /\ lock' = Free
  /\ UNCHANGED <<nextpid, tickslock, cpuproc, sched, np, clock, panicked>>

WaitFails(c, p) ==
  /\ Scanning(c, p)
  /\ Zombies(p) = {}
  /\ Children(p) = {} \/ killed[p]
  /\ Goto(p, "user")
  /\ chan' = [chan EXCEPT ![p] = 0]
  /\ lock' = Free
  /\ UNCHANGED <<state, pid, parent, killed, nextpid, tickslock, cpuproc,
                 sched, np, clock, panicked>>

\* sleep(curproc, &ptable.lock)
WaitSleep(c, p) ==
  /\ Scanning(c, p)
  /\ Zombies(p) = {}
  /\ Children(p) # {} /\ ~killed[p]
  /\ chan' = [chan EXCEPT ![p] = p]
  /\ state' = [state EXCEPT ![p] = "SLEEPING"]
  /\ EnterSched(c)
  /\ Goto(p, "waited")
  /\ UNCHANGED <<pid, parent, killed, nextpid, tickslock, cpuproc, np, clock,
                 panicked>>

\* The first slot whose pid is k, whatever the state of that slot.
Kill(c, p) ==
  /\ At(c, p, "kernel")
  /\ lock = Free
  /\ \E k \in KillPids :
       \/ \E s \in Slots :
            /\ pid[s] = k
            /\ \A t \in Slots : t < s => pid[t] # k
            /\ killed' = [killed EXCEPT ![s] = TRUE]
            /\ state' = [state EXCEPT ![s] = IF @ = "SLEEPING" THEN "RUNNABLE"
                                             ELSE @]
       \/ /\ \A s \in Slots : pid[s] # k
          /\ UNCHANGED <<killed, state>>
  /\ Goto(p, "user")
  /\ UNCHANGED <<pid, parent, chan, nextpid, locks, cpuproc, sched, np, clock,
                 panicked>>

----------------------------------------------------------------------------
(* sys_sleep(): a caller of sleep(chan, lk) with a lock of its own.         *)

SysSleep(c, p) ==
  /\ At(c, p, "kernel")
  /\ tickslock = Free
  /\ tickslock' = c
  /\ \E n \in SleepTimes : nap' = [nap EXCEPT ![p] = [t0 |-> ticks, n |-> n]]
  /\ Goto(p, "tloop")
  /\ UNCHANGED <<fields, lock, cpuproc, sched, np, ticks, tick, panicked>>

Elapsed(p) == (ticks - nap[p].t0) % TicksMod

\* The loop ends, because n ticks have passed or the process was killed.
SleepDone(c, p) ==
  /\ On(c, p) /\ tickslock = c /\ pc[p] = "tloop"
  /\ Elapsed(p) >= nap[p].n \/ killed[p]
  /\ tickslock' = Free
  /\ nap' = [nap EXCEPT ![p] = NoNap]
  /\ Goto(p, "user")
  /\ UNCHANGED <<fields, lock, cpuproc, sched, np, ticks, tick, panicked>>

SleepAgain(c, p) ==
  /\ On(c, p) /\ tickslock = c /\ pc[p] = "tloop"
  /\ Elapsed(p) < nap[p].n /\ ~killed[p]
  /\ Goto(p, "tsleep")
  /\ UNCHANGED <<fields, locks, cpuproc, sched, np, clock, panicked>>

\* sleep(&ticks, &tickslock), up to the call of sched()
Sleep(c, p) ==
  /\ On(c, p) /\ tickslock = c /\ pc[p] = "tsleep"
  /\ lock = Free
  /\ tickslock' = Free
  /\ chan' = [chan EXCEPT ![p] = TicksChan]
  /\ state' = [state EXCEPT ![p] = "SLEEPING"]
  /\ EnterSched(c)
  /\ Goto(p, "tslept")
  /\ UNCHANGED <<pid, parent, killed, nextpid, cpuproc, np, clock, panicked>>

\* ... and from its return
SleepReturns(c, p) ==
  /\ On(c, p) /\ lock = c /\ pc[p] = "tslept"
  /\ chan' = [chan EXCEPT ![p] = 0]
  /\ lock' = Free
  /\ Goto(p, "trelock")
  /\ UNCHANGED <<state, pid, parent, killed, nextpid, tickslock, cpuproc,
                 sched, np, clock, panicked>>

SleepRelock(c, p) ==
  /\ At(c, p, "trelock")
  /\ tickslock = Free
  /\ tickslock' = c
  /\ Goto(p, "tloop")
  /\ UNCHANGED <<fields, lock, cpuproc, sched, np, clock, panicked>>

----------------------------------------------------------------------------
(* The timer interrupt, and the context switch.                             *)

\* The end of trap(): a killed user process exits, any other one yields.
YieldOrExit(c, p) ==
  IF pc[p] = "user" /\ killed[p]
  THEN /\ Goto(p, "exit")
       /\ UNCHANGED <<state, lock, sched>>
  ELSE /\ lock = Free
       /\ state' = [state EXCEPT ![p] = "RUNNABLE"]
       /\ EnterSched(c)
       /\ UNCHANGED pc

Timer(c, p) ==
  /\ c # 0
  /\ On(c, p) /\ lock # c /\ tickslock # c /\ pc[p] \in Preemptible
  /\ YieldOrExit(c, p)
  /\ UNCHANGED <<pid, parent, chan, killed, nextpid, tickslock, cpuproc, np,
                 clock, panicked>>

NextTick == (ticks + 1) % TicksMod

\* CPU 0 also counts the tick.  Its handler interrupts a process or the loop
\* of the scheduler.
Tick ==
  /\ tick = "idle" /\ 0 \notin sched
  /\ lock # 0 /\ tickslock = Free
  /\ cpuproc[0] # Null => pc[cpuproc[0]] \in Preemptible
  /\ tickslock' = 0
  /\ ticks' = NextTick
  /\ tick' = "wake"
  /\ UNCHANGED <<fields, lock, cpuproc, sched, pc, np, nap, panicked>>

TickWakeup ==
  /\ tick = "wake"
  /\ lock = Free
  /\ state' = Wakeup1(TicksChan, state)
  /\ tickslock' = Free
  /\ tick' = IF cpuproc[0] = Null THEN "idle" ELSE "return"
  /\ UNCHANGED <<pid, parent, chan, killed, nextpid, lock, cpuproc, sched, pc,
                 np, ticks, nap, panicked>>

TickReturn ==
  /\ tick = "return"
  /\ YieldOrExit(0, cpuproc[0])
  /\ tick' = "idle"
  /\ UNCHANGED <<pid, parent, chan, killed, nextpid, tickslock, cpuproc, np,
                 ticks, nap, panicked>>

\* sched(): its assertions, then swtch to the scheduler, which clears c->proc.
Sched(c) ==
  /\ c \in sched
  /\ panicked' = IF lock # c THEN "sched ptable.lock"
                 ELSE IF tickslock = c THEN "sched locks"
                 ELSE IF state[cpuproc[c]] = "RUNNING" THEN "sched running"
                 ELSE "no"
  /\ cpuproc' = [cpuproc EXCEPT ![c] = Null]
  /\ sched' = sched \ {c}
  /\ UNCHANGED <<fields, locks, pc, np, clock>>

\* The scheduler of c, which holds ptable.lock or takes it, switches to p.
Dispatch(c, p) ==
  /\ cpuproc[c] = Null
  /\ c = 0 => tick = "idle"
  /\ lock \in {Free, c}
  /\ state[p] = "RUNNABLE"
  /\ lock' = c
  /\ cpuproc' = [cpuproc EXCEPT ![c] = p]
  /\ state' = [state EXCEPT ![p] = "RUNNING"]
  /\ UNCHANGED <<pid, parent, chan, killed, nextpid, tickslock, sched, pc, np,
                 clock, panicked>>

\* The loop over the table ends.
ScanEnd(c) ==
  /\ cpuproc[c] = Null
  /\ lock = c
  /\ lock' = Free
  /\ UNCHANGED <<fields, tickslock, cpuproc, sched, pc, np, clock, panicked>>

\* The thread that was switched to releases ptable.lock, in yield() or
\* forkret(); exit() panics if it gets here.
Resume(c, p) ==
  /\ On(c, p) /\ lock = c
  /\ pc[p] \in Preemptible \cup {"forkret", "dead"}
  /\ lock' = Free
  /\ pc' = [pc EXCEPT ![p] = IF @ = "forkret" THEN "user" ELSE @]
  /\ panicked' = IF pc[p] = "dead" THEN "zombie exit" ELSE "no"
  /\ UNCHANGED <<fields, tickslock, cpuproc, sched, np, clock>>

\* After panic() the machine spins.
Halted == panicked # "no" /\ UNCHANGED vars

Thread(c, p) ==
  \/ Trap(c, p) \/ Fault(c, p)
  \/ AllocProc(c, p) \/ AllocProcFull(c, p) \/ AllocStack(c, p)
  \/ ForkFails(c, p) \/ ForkCopy(c, p) \/ ForkReady(c, p)
  \/ SysExit(c, p) \/ Exit(c, p)
  \/ WaitReap(c, p) \/ WaitFails(c, p) \/ WaitSleep(c, p) \/ Kill(c, p)
  \/ SysSleep(c, p) \/ SleepDone(c, p) \/ SleepAgain(c, p) \/ Sleep(c, p)
  \/ SleepReturns(c, p) \/ SleepRelock(c, p)
  \/ Timer(c, p) \/ Resume(c, p) \/ Dispatch(c, p)

CPU(c) == InitExiting(c) \/ Sched(c) \/ ScanEnd(c)

Next ==
  \/ /\ panicked = "no"
     /\ \/ \E c \in CPUs : CPU(c) \/ \E p \in Slots : Thread(c, p)
        \/ Tick \/ TickWakeup \/ TickReturn
  \/ Halted

Spec == Init /\ [][Next]_vars

----------------------------------------------------------------------------
(* Safety.                                                                  *)

Live == {s \in Slots : state[s] \notin {"UNUSED", "EMBRYO"}}

\* A process runs on at most one CPU, and it is RUNNING exactly while a CPU
\* executes it outside sched(): the hand-over of ptable.lock from a process to
\* the scheduler and on to the next process never lets two CPUs onto one
\* kernel stack.
RunningOnOneCPU ==
  /\ \A c, d \in CPUs : cpuproc[c] = cpuproc[d] /\ cpuproc[c] # Null => c = d
  /\ \A p \in Slots : state[p] = "RUNNING" <=>
                        \E c \in CPUs \ sched : cpuproc[c] = p

\* A kernel stack is not freed under the CPU that uses it: as long as exit()
\* has not switched away, no wait() has reaped the process.
StackInUse == \A c \in CPUs : cpuproc[c] # Null => cpuproc[c] \in Live

\* wait() misses no exit and no kill: a process asleep in wait() has no zombie
\* child, its own or inherited, and has not been killed.
NoMissedExit ==
  \A p \in Slots :
    state[p] = "SLEEPING" /\ chan[p] = p => Zombies(p) = {} /\ ~killed[p]

\* sleep(&ticks, &tickslock) misses no tick although it lets go of tickslock
\* before it sleeps: who sleeps after its time is over is about to be woken by
\* the handler that counted the tick.
NoMissedTick ==
  \A p \in Slots :
    state[p] = "SLEEPING" /\ chan[p] = TicksChan
      => Elapsed(p) < nap[p].n \/ tick = "wake"

\* kill() stops at the first slot with the pid it looks for: no other slot, not
\* even a free one that keeps the pid of a failed fork, hides a process.
KillFindsProcess ==
  \A s \in Slots : state[s] # "UNUSED" =>
    pid[s] # 0 /\ \A t \in Slots \ {s} : pid[t] # pid[s]

\* The assertions of sched() and exit() hold, whatever the interleaving: the
\* only panic is that of an exiting init.
OnlyInitPanics == panicked \in {"no", "init exiting"}

\* A CPU inside sched() holds ptable.lock and not tickslock, and has given its
\* process a state other than RUNNING.
SchedLocked ==
  \A c \in sched :
    /\ lock = c
    /\ tickslock # c
    /\ cpuproc[c] # Null
    /\ state[cpuproc[c]] \in {"RUNNABLE", "SLEEPING", "ZOMBIE"}

\* A process in the middle of fork() owns an EMBRYO that no other one owns.
Forking == {p \in Slots : pc[p] \in {"stack", "copy", "ready"}}

EmbryoOwned ==
  /\ \A p \in Forking : np[p] \in Slots /\ state[np[p]] = "EMBRYO"
  /\ \A p, q \in Forking : np[p] = np[q] => p = q

\* CPU 0 leaves its timer handler before anything else happens on it.
HandlerOnTop ==
  tick # "idle" =>
    /\ 0 \notin sched
    /\ tick = "return" => cpuproc[0] # Null /\ tickslock # 0
    /\ cpuproc[0] # Null => pc[cpuproc[0]] \in Preemptible

\* tickslock is held by the timer handler or by a process in sys_sleep() that
\* executes on the CPU that holds it.
TicksLocked ==
  tickslock # Free =>
    \/ tickslock = 0 /\ tick = "wake"
    \/ /\ tickslock \notin sched
       /\ cpuproc[tickslock] # Null
       /\ pc[cpuproc[tickslock]] \in {"tloop", "tsleep"}

\* A thread that exit() has switched away from belongs to a zombie.
DeadIsZombie == \A p \in Slots : pc[p] = "dead" => state[p] = "ZOMBIE"

\* What keeps the hand-over of ptable.lock safe, and is kept by every step: a
\* CPU between sched() and the scheduler holds the lock, a half-made child and
\* tickslock have one owner, the timer handler leaves before anything else
\* happens on its CPU, and an exited thread never comes back.
SwitchInv ==
  /\ TypeOK
  /\ RunningOnOneCPU
  /\ SchedLocked
  /\ EmbryoOwned
  /\ HandlerOnTop
  /\ TicksLocked
  /\ DeadIsZombie
  /\ OnlyInitPanics

\* The process table as a tree of processes: those that a pid names, the
\* exited ones, the pid of each one's parent, and the pids given, except to a
\* child that fork() has not completed.
treeProcs == {pid[s] : s \in Live}
treeZombies == {pid[s] : s \in {t \in Slots : state[t] = "ZOMBIE"}}
parentPid(s) == IF parent[s] = Null THEN 0 ELSE pid[parent[s]]
treePar == [k \in treeProcs |-> parentPid(CHOOSE t \in Live : pid[t] = k)]
treeUsed == (1 .. nextpid - 1)
              \ {pid[s] : s \in {t \in Slots : state[t] = "EMBRYO"}}

Tree == INSTANCE ProcTree WITH
  Pids <- 1 .. MaxPid, procs <- treeProcs, zombies <- treeZombies,
  par <- treePar, used <- treeUsed

\* fork, exit and wait change the tree of processes as ProcTree says, and no
\* other step of the kernel changes it.
ImplementsTree == Tree!TreeSpec
=============================================================================
