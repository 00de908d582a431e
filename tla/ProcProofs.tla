---------------------------- MODULE ProcProofs ----------------------------
(***************************************************************************)
(* Proofs about Proc, for every number of slots, CPUs, pids and ticks: the *)
(* context switch; kill() finds the process it names, wait() misses no     *)
(* exit and sys_sleep() no tick; and Proc implements ProcTree.             *)
(***************************************************************************)
EXTENDS Proc, TLAPS

\* The counter of ticks stays within its word.
LEMMA ModRange ==
  ASSUME NEW a \in Int, NEW m \in Nat \ {0}
  PROVE  a % m \in 0 .. m - 1
  OBVIOUS

\* The slot of init is a slot of the table.
LEMMA InitSlot == InitProc \in Slots
  BY NPROCAssumption DEF InitProc, Slots

\* There is a CPU 0, which takes the timer interrupts.
LEMMA BootCPU == 0 \in CPUs
  BY NCPUAssumption DEF CPUs

\* wakeup1() gives an array of states.
LEMMA WakeupType ==
  ASSUME NEW ch, NEW st \in [Slots -> States]
  PROVE  Wakeup1(ch, st) \in [Slots -> States]
  BY DEF Wakeup1, States

\* userinit() starts with every variable in its type.
LEMMA TypeInit == Init => TypeOK
  BY NPROCAssumption, NCPUAssumption, MaxPidAssumption, TicksAssumption, SMTT(30)
  DEF Init, TypeOK, States, Slots, CPUs, Null, Free, InitProc, TicksChan, PCs,
      NoNap, Panics

\* Each step of a thread keeps every variable in its type.
LEMMA TypeThread ==
  ASSUME TypeOK, NEW c \in CPUs, NEW p \in Slots, Thread(c, p)
  PROVE  TypeOK'
<1> USE DEF TypeOK, fields, locks, clock, At, On, Goto, EnterSched
<1>1. CASE Trap(c, p)
  BY <1>1 DEF Trap, PCs
<1>2. CASE Fault(c, p)
  BY <1>2 DEF Fault, PCs
<1>3. CASE AllocProc(c, p)
  BY <1>3, MaxPidAssumption DEF AllocProc, NextPid, PCs, States
<1>4. CASE AllocProcFull(c, p)
  BY <1>4 DEF AllocProcFull, PCs
<1>5. CASE AllocStack(c, p)
  BY <1>5, Zenon DEF AllocStack, PCs
<1>6. CASE ForkFails(c, p)
  BY <1>6, Zenon DEF ForkFails, PCs, States
<1>7. CASE ForkCopy(c, p)
  BY <1>7, Zenon DEF ForkCopy, PCs
<1>8. CASE ForkReady(c, p)
  BY <1>8, Zenon DEF ForkReady, PCs, States
<1>9. CASE SysExit(c, p)
  BY <1>9 DEF SysExit, PCs
<1>10. CASE Exit(c, p)
  <2>1. ExitWakeups(p) \in [Slots -> States]
    BY WakeupType DEF ExitWakeups
  <2>2. Reparented(p) \in [Slots -> Slots \cup {Null}]
    BY InitSlot DEF Reparented
  <2> QED BY <1>10, <2>1, <2>2 DEF Exit, PCs, States
<1>11. CASE WaitReap(c, p)
  <2>1. PICK q \in Slots :
          /\ state' = [state EXCEPT ![q] = "UNUSED"]
          /\ pid' = [pid EXCEPT ![q] = 0]
          /\ parent' = [parent EXCEPT ![q] = Null]
          /\ killed' = [killed EXCEPT ![q] = FALSE]
          /\ pc' = [pc EXCEPT ![p] = "user", ![q] = "none"]
    BY <1>11 DEF WaitReap, Zombies, Children
  <2>2. chan' \in [Slots -> 0 .. TicksChan]
    BY <1>11, NPROCAssumption DEF WaitReap, TicksChan
  <2>3. state' \in [Slots -> States] /\ pc' \in [Slots -> PCs]
    BY <2>1 DEF PCs, States
  <2>4. pid' \in [Slots -> 0 .. MaxPid] /\ killed' \in [Slots -> BOOLEAN]
    BY <2>1, MaxPidAssumption
  <2>5. parent' \in [Slots -> Slots \cup {Null}]
    BY <2>1
  <2> QED
    BY <1>11, <2>2, <2>3, <2>4, <2>5 DEF WaitReap
<1>12. CASE WaitFails(c, p)
  BY <1>12, NPROCAssumption DEF WaitFails, PCs, TicksChan
<1>13. CASE WaitSleep(c, p)
  <2>1. p \in 0 .. TicksChan
    BY NPROCAssumption DEF Slots, TicksChan
  <2> QED
    BY <1>13, <2>1 DEF WaitSleep, PCs, States
<1>14. CASE Kill(c, p)
  BY <1>14, Zenon DEF Kill, PCs, States
<1>15. CASE SysSleep(c, p)
  BY <1>15 DEF SysSleep, PCs
<1>16. CASE SleepDone(c, p)
  BY <1>16, TicksAssumption DEF SleepDone, PCs, NoNap, Free
<1>17. CASE SleepAgain(c, p)
  BY <1>17 DEF SleepAgain, PCs
<1>18. CASE Sleep(c, p)
  BY <1>18, NPROCAssumption DEF Sleep, PCs, States, TicksChan
<1>19. CASE SleepReturns(c, p)
  BY <1>19, NPROCAssumption DEF SleepReturns, PCs, TicksChan
<1>20. CASE SleepRelock(c, p)
  BY <1>20 DEF SleepRelock, PCs
<1>21. CASE Timer(c, p)
  BY <1>21 DEF Timer, YieldOrExit, PCs, States
<1>22. CASE Resume(c, p)
  BY <1>22, Zenon DEF Resume, PCs, Panics
<1>23. CASE Dispatch(c, p)
  BY <1>23 DEF Dispatch, States
<1> QED
  BY <1>1, <1>2, <1>3, <1>4, <1>5, <1>6, <1>7, <1>8, <1>9, <1>10, <1>11, <1>12, <1>13,
     <1>14, <1>15, <1>16, <1>17, <1>18, <1>19, <1>20, <1>21, <1>22, <1>23, Zenon DEF
     Thread

\* No step of the kernel takes a variable out of its type.
LEMMA TypeStep == TypeOK /\ [Next]_vars => TypeOK'
<1> SUFFICES ASSUME TypeOK, [Next]_vars PROVE TypeOK'
  OBVIOUS
<1> USE DEF TypeOK, fields, locks, clock
<1>1. ASSUME NEW c \in CPUs, CPU(c) PROVE TypeOK'
  <2>1. CASE InitExiting(c)
    BY <2>1, Zenon DEF InitExiting, Panics
  <2>2. CASE Sched(c)
    BY <2>2, Zenon DEF Sched, Panics
  <2>3. CASE ScanEnd(c)
    BY <2>3 DEF ScanEnd
  <2> QED BY <1>1, <2>1, <2>2, <2>3 DEF CPU
<1>2. CASE Tick
  <2>1. ticks + 1 \in Int
    OBVIOUS
  <2>2. ticks' \in 0 .. TicksMod - 1
    BY <1>2, <2>1, ModRange, TicksAssumption DEF Tick, NextTick
  <2> QED BY <1>2, <2>2, BootCPU DEF Tick
<1>3. CASE TickWakeup
  BY <1>3, WakeupType DEF TickWakeup
<1>4. CASE TickReturn
  BY <1>4, BootCPU DEF TickReturn, YieldOrExit, EnterSched, Goto, PCs, States
<1>5. CASE UNCHANGED vars
  BY <1>5 DEF vars
<1> QED
  BY <1>1, <1>2, <1>3, <1>4, <1>5, TypeThread DEF Next, Halted

\* Every variable keeps its type, whatever the sizes of the instance.
THEOREM TypeCorrect == Spec => []TypeOK
  BY TypeInit, TypeStep, PTL DEF Spec

----------------------------------------------------------------------------
(* The inductive invariant of the context switch.                           *)

\* While a CPU inside sched() holds ptable.lock, no other one is inside it.
LEMMA SchedEmpty ==
  ASSUME TypeOK, SchedLocked, NEW c \in CPUs,
         lock = Free \/ (lock = c /\ (c \notin sched \/ cpuproc[c] = Null))
  PROVE  sched = {}
  BY NCPUAssumption DEF TypeOK, SchedLocked, Free, CPUs

\* No CPU is inside sched() while ptable.lock is free.
LEMMA SchedFree ==
  ASSUME TypeOK, SchedLocked, lock = Free
  PROVE  sched = {}
  BY DEF TypeOK, SchedLocked, Free, CPUs

\* No CPU executes a slot that is free or being set up.
LEMMA OffCPU ==
  ASSUME TypeOK, RunningOnOneCPU, SchedLocked, NEW q \in Slots,
         state[q] \in {"UNUSED", "EMBRYO"}
  PROVE  \A d \in CPUs : cpuproc[d] # q
  BY DEF TypeOK, RunningOnOneCPU, SchedLocked, Slots, Null

\* A step of a process on another CPU leaves the handler of CPU 0 alone.
LEMMA HandlerKept ==
  ASSUME TypeOK, RunningOnOneCPU, HandlerOnTop,
         NEW c \in CPUs, NEW p \in Slots, On(c, p),
         tick' = tick, cpuproc' = cpuproc, sched' \subseteq sched \cup {c},
         tickslock' \in {tickslock, c, Free},
         \A s \in Slots \ {p} : state[s] = "RUNNING" => pc'[s] = pc[s]
  PROVE  HandlerOnTop'
<1> SUFFICES ASSUME tick # "idle" PROVE HandlerOnTop'
  BY DEF HandlerOnTop
<1>1. c # 0 /\ 0 \notin sched'
  BY DEF On, HandlerOnTop
<1>2. tick = "return" => cpuproc[0] # Null /\ tickslock' # 0
  BY <1>1 DEF HandlerOnTop, Free
<1>3. ASSUME cpuproc[0] # Null PROVE pc'[cpuproc[0]] \in Preemptible
  <2>1. cpuproc[0] \in Slots \ {p}
    BY <1>1, <1>3, BootCPU DEF TypeOK, RunningOnOneCPU, On
  <2>2. state[cpuproc[0]] = "RUNNING"
    BY <2>1, BootCPU DEF RunningOnOneCPU, HandlerOnTop
  <2> QED BY <1>3, <2>1, <2>2 DEF HandlerOnTop
<1> QED BY <1>1, <1>2, <1>3 DEF HandlerOnTop, Preemptible

\* Outside the loop of sys_sleep() a process does not hold tickslock.
LEMMA NoTicksLock ==
  ASSUME TypeOK, TicksLocked, NEW c \in CPUs, NEW p \in Slots, On(c, p),
         pc[p] \notin {"tloop", "tsleep"}
  PROVE  tickslock # c
  BY DEF TypeOK, TicksLocked, On, Free, CPUs

\* A step of a process that does not hold tickslock leaves the holder alone.
LEMMA TicksKept ==
  ASSUME TypeOK, RunningOnOneCPU, TicksLocked,
         NEW c \in CPUs, NEW p \in Slots, On(c, p),
         pc[p] \notin {"tloop", "tsleep"}, tick' = tick,
         cpuproc' = cpuproc, sched' \subseteq sched \cup {c},
         tickslock' = tickslock,
         \A s \in Slots \ {p} : state[s] = "RUNNING" => pc'[s] = pc[s]
  PROVE  TicksLocked'
<1> SUFFICES ASSUME tickslock # Free, ~(tickslock = 0 /\ tick = "wake")
             PROVE  TicksLocked'
  BY DEF TicksLocked
<1>0. tickslock # c
  BY NoTicksLock
<1>1. /\ tickslock \in CPUs /\ tickslock \notin sched
      /\ cpuproc[tickslock] # Null
      /\ pc[cpuproc[tickslock]] \in {"tloop", "tsleep"}
  BY DEF TypeOK, TicksLocked
<1>2. cpuproc[tickslock] \in Slots \ {p}
  BY <1>0, <1>1 DEF TypeOK, RunningOnOneCPU, On
<1>3. state[cpuproc[tickslock]] = "RUNNING"
  BY <1>1, <1>2 DEF RunningOnOneCPU
<1> QED BY <1>0, <1>1, <1>2, <1>3 DEF TicksLocked

\* A step that leaves the CPUs alone, and RUNNING who was RUNNING, moves no
\* process to another CPU.
LEMMA RunningKept ==
  ASSUME RunningOnOneCPU, cpuproc' = cpuproc, sched' = sched,
         \A s \in Slots : state'[s] = "RUNNING" <=> state[s] = "RUNNING"
  PROVE  RunningOnOneCPU'
  BY DEF RunningOnOneCPU

\* A process that enters sched() and is no longer RUNNING gives up its CPU.
LEMMA RunningLeft ==
  ASSUME RunningOnOneCPU, NEW c \in CPUs, NEW p \in Slots,
         cpuproc[c] = p, c \notin sched, Null \notin Slots,
         cpuproc' = cpuproc, sched' = sched \cup {c}, state'[p] # "RUNNING",
         \A s \in Slots \ {p} : state'[s] = "RUNNING" <=> state[s] = "RUNNING"
  PROVE  RunningOnOneCPU'
<1>1. ASSUME NEW s \in Slots
      PROVE  state'[s] = "RUNNING" <=>
               \E d \in CPUs \ sched' : cpuproc'[d] = s
  <2>1. CASE s = p
    BY <2>1 DEF RunningOnOneCPU
  <2>2. CASE s # p
    BY <2>2 DEF RunningOnOneCPU
  <2> QED BY <2>1, <2>2
<1> QED BY <1>1 DEF RunningOnOneCPU

\* A half-made child keeps its owner when a step starts no fork and leaves the
\* EMBRYOs alone.
LEMMA EmbryoKept ==
  ASSUME EmbryoOwned, np' = np,
         \A s \in Slots : pc'[s] \in {"stack", "copy", "ready"}
                             => pc[s] \in {"stack", "copy", "ready"},
         \A s \in Slots : state[s] = "EMBRYO" => state'[s] = "EMBRYO"
  PROVE  EmbryoOwned'
  BY DEF EmbryoOwned, Forking

\* The types that the context switch depends on.
SwitchTypes ==
  /\ state \in [Slots -> States]
  /\ pc \in [Slots -> PCs]
  /\ np \in [Slots -> Slots \cup {Null}]
  /\ cpuproc \in [CPUs -> Slots \cup {Null}]
  /\ sched \subseteq CPUs
  /\ lock \in CPUs \cup {Free}
  /\ tickslock \in CPUs \cup {Free}

\* Each step of a thread, from system call to swtch(), keeps the switch
\* invariant.
LEMMA SwitchThread ==
  ASSUME SwitchInv, TypeOK', panicked = "no",
         NEW c \in CPUs, NEW p \in Slots, Thread(c, p)
  PROVE  SwitchInv'
<1> USE DEF SwitchTypes, fields, locks, clock, At, On, Goto, EnterSched
<1>0. /\ TypeOK /\ RunningOnOneCPU /\ SchedLocked /\ EmbryoOwned /\ HandlerOnTop
      /\ TicksLocked /\ DeadIsZombie /\ OnlyInitPanics /\ SwitchTypes
  BY DEF SwitchInv, TypeOK
<1>t. SwitchTypes'
  BY DEF TypeOK
<1>n. Null \notin Slots /\ Free \notin CPUs /\ 0 \in CPUs
  BY BootCPU DEF Null, Slots, Free, CPUs
<1>1. CASE Trap(c, p)
  <2>1. RunningOnOneCPU'
    BY <1>0, <1>1, RunningKept DEF Trap
  <2>2. SchedLocked'
    BY <1>0, <1>n, <1>1, <1>t DEF Trap, SchedLocked
  <2>3. EmbryoOwned'
    BY <1>0, <1>n, <1>1, <1>t DEF Trap, EmbryoOwned, Forking
  <2>4. HandlerOnTop'
    BY <1>0, <1>n, <1>1, <1>t DEF Trap, HandlerOnTop, Preemptible
  <2>5. TicksLocked'
    BY <1>0, <1>1, TicksKept DEF Trap
  <2>6. DeadIsZombie' /\ OnlyInitPanics'
    BY <1>0, <1>n, <1>1, <1>t DEF Trap, DeadIsZombie,
       OnlyInitPanics
  <2> QED BY <2>1, <2>2, <2>3, <2>4, <2>5, <2>6 DEF SwitchInv
<1>2. CASE Fault(c, p)
  <2>1. RunningOnOneCPU'
    BY <1>0, <1>2, RunningKept DEF Fault
  <2>2. SchedLocked'
    BY <1>0, <1>n, <1>2, <1>t DEF Fault, SchedLocked
  <2>3. EmbryoOwned'
    BY <1>0, <1>n, <1>2, <1>t DEF Fault, EmbryoOwned, Forking
  <2>4. HandlerOnTop'
    BY <1>0, <1>n, <1>2, <1>t DEF Fault, HandlerOnTop, Preemptible
  <2>5. TicksLocked'
    BY <1>0, <1>2, TicksKept DEF Fault
  <2>6. DeadIsZombie' /\ OnlyInitPanics'
    BY <1>0, <1>n, <1>2, <1>t DEF Fault, DeadIsZombie,
       OnlyInitPanics
  <2> QED BY <2>1, <2>2, <2>3, <2>4, <2>5, <2>6 DEF SwitchInv
<1>3. CASE AllocProc(c, p)
  <2>0. sched = {}
    BY <1>0, <1>3, SchedEmpty DEF AllocProc
  <2>1. RunningOnOneCPU'
    BY <1>0, <1>n, <1>3, <2>0, <1>t DEF FirstUnused, AllocProc,
       RunningOnOneCPU
  <2>2. SchedLocked'
    BY <1>0, <1>n, <1>3, <2>0, <1>t DEF FirstUnused, AllocProc, SchedLocked
  <2>3. EmbryoOwned'
    BY <1>0, <1>n, <1>3, <2>0, <1>t DEF FirstUnused, AllocProc,
       EmbryoOwned, Forking
  <2>4. HandlerOnTop'
    BY <1>0, <1>3, <2>0, HandlerKept DEF FirstUnused, AllocProc
  <2>5. TicksLocked'
    BY <1>0, <1>3, <2>0, TicksKept DEF FirstUnused, AllocProc
  <2>6. DeadIsZombie' /\ OnlyInitPanics'
    BY <1>0, <1>n, <1>3, <2>0, <1>t DEF FirstUnused, AllocProc,
       DeadIsZombie,
       OnlyInitPanics
  <2> QED BY <2>1, <2>2, <2>3, <2>4, <2>5, <2>6 DEF SwitchInv
<1>4. CASE AllocProcFull(c, p)
  <2>0. sched = {}
    BY <1>0, <1>4, SchedEmpty DEF AllocProcFull
  <2>1. RunningOnOneCPU'
    BY <1>0, <1>4, RunningKept, Zenon DEF AllocProcFull
  <2>2. SchedLocked'
    BY <1>0, <1>n, <1>4, <2>0, <1>t DEF AllocProcFull, SchedLocked
  <2>3. EmbryoOwned'
    BY <1>0, <1>4, EmbryoKept DEF AllocProcFull
  <2>4. HandlerOnTop'
    BY <1>0, <1>4, <2>0, HandlerKept DEF AllocProcFull
  <2>5. TicksLocked'
    BY <1>0, <1>4, <2>0, TicksKept DEF AllocProcFull
  <2>6. DeadIsZombie' /\ OnlyInitPanics'
    BY <1>0, <1>n, <1>4, <2>0, <1>t DEF AllocProcFull, DeadIsZombie,
       OnlyInitPanics
  <2> QED BY <2>1, <2>2, <2>3, <2>4, <2>5, <2>6 DEF SwitchInv
<1>5. CASE AllocStack(c, p)
  <2>e. np[p] \in Slots /\ state[np[p]] = "EMBRYO"
    BY <1>0, <1>5 DEF AllocStack, EmbryoOwned, Forking
  <2>f. \A d \in CPUs : cpuproc[d] # np[p]
    BY <1>0, <2>e, OffCPU
  <2>1. RunningOnOneCPU'
    BY <1>0, <1>n, <1>5, <2>e, <2>f, <1>t DEF AllocStack, RunningOnOneCPU
  <2>2. SchedLocked'
    BY <1>0, <1>n, <1>5, <2>e, <2>f, <1>t DEF AllocStack, SchedLocked
  <2>3. EmbryoOwned'
    BY <1>0, <1>n, <1>5, <2>e, <2>f, <1>t DEF AllocStack, EmbryoOwned,
       Forking
  <2>4. HandlerOnTop'
    BY <1>0, <1>5, <2>e, <2>f, HandlerKept DEF AllocStack
  <2>5. TicksLocked'
    BY <1>0, <1>5, <2>e, <2>f, TicksKept DEF AllocStack
  <2>6. DeadIsZombie' /\ OnlyInitPanics'
    BY <1>0, <1>n, <1>5, <2>e, <2>f, <1>t DEF AllocStack, DeadIsZombie,
       OnlyInitPanics
  <2> QED BY <2>1, <2>2, <2>3, <2>4, <2>5, <2>6 DEF SwitchInv
<1>6. CASE ForkFails(c, p)
  <2>e. np[p] \in Slots /\ state[np[p]] = "EMBRYO"
    BY <1>0, <1>6, Zenon DEF ForkFails, EmbryoOwned, Forking
  <2>f. \A d \in CPUs : cpuproc[d] # np[p]
    BY <1>0, <2>e, OffCPU
  <2>1. RunningOnOneCPU'
    BY <1>0, <1>n, <1>6, <2>e, <2>f, <1>t DEF ForkFails, RunningOnOneCPU
  <2>2. SchedLocked'
    BY <1>0, <1>n, <1>6, <2>e, <2>f, <1>t, Zenon DEF ForkFails, SchedLocked
  <2>3. EmbryoOwned'
    BY <1>0, <1>n, <1>6, <2>e, <2>f, <1>t DEF ForkFails, EmbryoOwned,
       Forking
  <2>4. HandlerOnTop'
    BY <1>0, <1>6, <2>e, <2>f, HandlerKept DEF ForkFails
  <2>5. TicksLocked'
    BY <1>0, <1>6, <2>e, <2>f, TicksKept DEF ForkFails
  <2>6. DeadIsZombie' /\ OnlyInitPanics'
    BY <1>0, <1>n, <1>6, <2>e, <2>f, <1>t DEF ForkFails, DeadIsZombie,
       OnlyInitPanics
  <2> QED BY <2>1, <2>2, <2>3, <2>4, <2>5, <2>6 DEF SwitchInv
<1>7. CASE ForkCopy(c, p)
  <2>e. np[p] \in Slots /\ state[np[p]] = "EMBRYO"
    BY <1>0, <1>7 DEF ForkCopy, EmbryoOwned, Forking
  <2>f. \A d \in CPUs : cpuproc[d] # np[p]
    BY <1>0, <2>e, OffCPU
  <2>1. RunningOnOneCPU'
    BY <1>0, <1>n, <1>7, <2>e, <2>f, <1>t DEF ForkCopy, RunningOnOneCPU
  <2>2. SchedLocked'
    BY <1>0, <1>n, <1>7, <2>e, <2>f, <1>t DEF ForkCopy, SchedLocked
  <2>3. EmbryoOwned'
    BY <1>0, <1>n, <1>7, <2>e, <2>f, <1>t DEF ForkCopy, EmbryoOwned,
       Forking
  <2>4. HandlerOnTop'
    BY <1>0, <1>7, <2>e, <2>f, HandlerKept DEF ForkCopy
  <2>5. TicksLocked'
    BY <1>0, <1>7, <2>e, <2>f, TicksKept DEF ForkCopy
  <2>6. DeadIsZombie' /\ OnlyInitPanics'
    BY <1>0, <1>n, <1>7, <2>e, <2>f, <1>t DEF ForkCopy, DeadIsZombie,
       OnlyInitPanics
  <2> QED BY <2>1, <2>2, <2>3, <2>4, <2>5, <2>6 DEF SwitchInv
<1>8. CASE ForkReady(c, p)
  <2>0. sched = {}
    BY <1>0, <1>8, SchedEmpty DEF ForkReady
  <2>e. np[p] \in Slots /\ state[np[p]] = "EMBRYO"
    BY <1>0, <1>8, Zenon DEF ForkReady, EmbryoOwned, Forking
  <2>f. \A d \in CPUs : cpuproc[d] # np[p]
    BY <1>0, <2>e, OffCPU
  <2>1. RunningOnOneCPU'
    BY <1>0, <1>n, <1>8, <2>0, <2>e, <2>f, <1>t DEF ForkReady,
       RunningOnOneCPU
  <2>2. SchedLocked'
    BY <1>0, <1>n, <1>8, <2>0, <2>e, <2>f, <1>t, Zenon DEF ForkReady, SchedLocked
  <2>3. EmbryoOwned'
    BY <1>0, <1>n, <1>8, <2>0, <2>e, <2>f, <1>t DEF ForkReady,
       EmbryoOwned, Forking
  <2>4. HandlerOnTop'
    BY <1>0, <1>8, <2>0, <2>e, <2>f, HandlerKept DEF ForkReady
  <2>5. TicksLocked'
    BY <1>0, <1>8, TicksKept DEF ForkReady
  <2>6. DeadIsZombie' /\ OnlyInitPanics'
    BY <1>0, <1>n, <1>8, <2>0, <2>e, <2>f, <1>t DEF ForkReady,
       DeadIsZombie,
       OnlyInitPanics
  <2> QED BY <2>1, <2>2, <2>3, <2>4, <2>5, <2>6 DEF SwitchInv
<1>9. CASE SysExit(c, p)
  <2>1. RunningOnOneCPU'
    BY <1>0, <1>9, RunningKept DEF SysExit
  <2>2. SchedLocked'
    BY <1>0, <1>n, <1>9, <1>t DEF SysExit, SchedLocked
  <2>3. EmbryoOwned'
    BY <1>0, <1>9, EmbryoKept DEF SysExit
  <2>4. HandlerOnTop'
    BY <1>0, <1>9, HandlerKept DEF SysExit
  <2>5. TicksLocked'
    BY <1>0, <1>9, TicksKept DEF SysExit
  <2>6. DeadIsZombie' /\ OnlyInitPanics'
    BY <1>0, <1>n, <1>9, <1>t DEF SysExit, DeadIsZombie,
       OnlyInitPanics
  <2> QED BY <2>1, <2>2, <2>3, <2>4, <2>5, <2>6 DEF SwitchInv
<1>10. CASE Exit(c, p)
  <2>0. sched = {}
    BY <1>0, <1>10, SchedEmpty, Zenon DEF Exit
  <2>1. RunningOnOneCPU'
    BY <1>0, <1>n, <1>10, <2>0, <1>t DEF ExitWakeups, Wakeup1, Exit,
       RunningOnOneCPU
  <2>2. SchedLocked'
    BY <1>0, <1>n, <1>10, <2>0, <1>t, Zenon DEF ExitWakeups, Wakeup1, Exit, SchedLocked
  <2>3. EmbryoOwned'
    BY <1>0, <1>n, <1>10, <2>0, <1>t, Zenon DEF ExitWakeups, Wakeup1, Exit, EmbryoOwned,
       Forking
  <2>4. HandlerOnTop'
    BY <1>0, <1>10, <2>0, HandlerKept DEF ExitWakeups, Wakeup1, Exit
  <2>5. TicksLocked'
    BY <1>0, <1>10, <2>0, TicksKept DEF ExitWakeups, Wakeup1, Exit
  <2>6. DeadIsZombie' /\ OnlyInitPanics'
    BY <1>0, <1>n, <1>10, <2>0, <1>t, Zenon DEF ExitWakeups, Wakeup1, Exit,
       DeadIsZombie, OnlyInitPanics
  <2> QED BY <2>1, <2>2, <2>3, <2>4, <2>5, <2>6 DEF SwitchInv
<1>11. CASE WaitReap(c, p)
  <2>0. sched = {}
    BY <1>0, <1>11, SchedEmpty DEF WaitReap, Scanning
  <2>q. PICK q \in Slots :
          /\ state[q] = "ZOMBIE"
          /\ state' = [state EXCEPT ![q] = "UNUSED"]
          /\ pc' = [pc EXCEPT ![p] = "user", ![q] = "none"]
    BY <1>11, Zenon DEF WaitReap, Zombies, Children
  <2>r. /\ On(c, p) /\ pc[p] \notin {"tloop", "tsleep"} /\ lock' = Free
        /\ UNCHANGED <<tickslock, cpuproc, sched, np, tick, panicked>>
    BY <1>11 DEF WaitReap, Scanning
  <2>1. RunningOnOneCPU'
    BY <1>0, <1>n, <1>11, <2>0, <2>q, <2>r, <1>t DEF Scanning, WaitReap,
       RunningOnOneCPU
  <2>2. SchedLocked'
    BY <1>0, <1>n, <1>11, <2>0, <2>q, <2>r, <1>t, ZenonT(30) DEF Scanning, WaitReap,
       SchedLocked
  <2>3. EmbryoOwned'
    BY <1>0, <1>n, <1>11, <2>0, <2>q, <2>r, <1>t DEF Scanning, WaitReap,
       EmbryoOwned, Forking
  <2>4. HandlerOnTop'
    BY <1>0, <1>11, <2>0, <2>q, <2>r, HandlerKept DEF Scanning, WaitReap
  <2>5. TicksLocked'
    BY <1>0, <1>11, <2>0, <2>q, <2>r, TicksKept DEF Scanning, WaitReap
  <2>6. DeadIsZombie' /\ OnlyInitPanics'
    BY <1>0, <1>n, <1>11, <2>0, <2>q, <2>r, <1>t DEF Scanning, WaitReap,
       DeadIsZombie,
       OnlyInitPanics
  <2> QED BY <2>1, <2>2, <2>3, <2>4, <2>5, <2>6 DEF SwitchInv
<1>12. CASE WaitFails(c, p)
  <2>0. sched = {}
    BY <1>0, <1>12, SchedEmpty DEF WaitFails, Scanning
  <2>1. RunningOnOneCPU'
    BY <1>0, <1>12, RunningKept, Zenon DEF WaitFails
  <2>2. SchedLocked'
    BY <1>0, <1>n, <1>12, <2>0, <1>t DEF Scanning, WaitFails, SchedLocked
  <2>3. EmbryoOwned'
    BY <1>0, <1>12, EmbryoKept DEF WaitFails, Scanning
  <2>4. HandlerOnTop'
    BY <1>0, <1>12, <2>0, HandlerKept DEF Scanning, WaitFails
  <2>5. TicksLocked'
    BY <1>0, <1>12, <2>0, TicksKept, Zenon DEF Scanning, WaitFails
  <2>6. DeadIsZombie' /\ OnlyInitPanics'
    BY <1>0, <1>n, <1>12, <2>0, <1>t DEF Scanning, WaitFails, DeadIsZombie,
       OnlyInitPanics
  <2> QED BY <2>1, <2>2, <2>3, <2>4, <2>5, <2>6 DEF SwitchInv
<1>13. CASE WaitSleep(c, p)
  <2>0. sched = {}
    BY <1>0, <1>13, SchedEmpty DEF WaitSleep, Scanning
  <2>t. tickslock # c
    BY <1>0, <1>13, NoTicksLock DEF WaitSleep, Scanning
  <2>1. RunningOnOneCPU'
    BY <1>0, <1>n, <1>13, RunningLeft, Zenon DEF WaitSleep, Scanning
  <2>2. SchedLocked'
    BY <1>0, <1>n, <1>13, <2>0, <2>t, <1>t DEF Scanning, WaitSleep,
       SchedLocked
  <2>3. EmbryoOwned'
    BY <1>0, <1>13, EmbryoKept DEF WaitSleep, Scanning
  <2>4. HandlerOnTop'
    BY <1>0, <1>13, <2>0, <2>t, HandlerKept DEF Scanning, WaitSleep
  <2>5. TicksLocked'
    BY <1>0, <1>13, <2>0, <2>t, TicksKept, ZenonT(30) DEF Scanning, WaitSleep
  <2>6. DeadIsZombie' /\ OnlyInitPanics'
    BY <1>0, <1>n, <1>13, <2>0, <2>t, <1>t DEF Scanning, WaitSleep,
       DeadIsZombie,
       OnlyInitPanics
  <2> QED BY <2>1, <2>2, <2>3, <2>4, <2>5, <2>6 DEF SwitchInv
<1>14. CASE Kill(c, p)
  <2>0. sched = {}
    BY <1>0, <1>14, SchedEmpty DEF Kill
  <2>1. RunningOnOneCPU'
    BY <1>0, <1>14, RunningKept, Zenon DEF Kill
  <2>2. SchedLocked'
    BY <1>0, <1>n, <1>14, <2>0, <1>t, Zenon DEF Kill, SchedLocked
  <2>3. EmbryoOwned'
    BY <1>0, <1>n, <1>14, <2>0, <1>t DEF Kill, EmbryoOwned, Forking
  <2>4. HandlerOnTop'
    BY <1>0, <1>14, <2>0, HandlerKept, Zenon DEF Kill
  <2>5. TicksLocked'
    BY <1>0, <1>14, <2>0, TicksKept, Zenon DEF Kill
  <2>6. DeadIsZombie' /\ OnlyInitPanics'
    BY <1>0, <1>n, <1>14, <2>0, <1>t, ZenonT(30) DEF Kill, DeadIsZombie, OnlyInitPanics
  <2> QED BY <2>1, <2>2, <2>3, <2>4, <2>5, <2>6 DEF SwitchInv
<1>15. CASE SysSleep(c, p)
  <2>1. RunningOnOneCPU'
    BY <1>0, <1>15, RunningKept, Zenon DEF SysSleep
  <2>2. SchedLocked'
    BY <1>0, <1>n, <1>15, <1>t DEF SysSleep, SchedLocked
  <2>3. EmbryoOwned'
    BY <1>0, <1>15, EmbryoKept DEF SysSleep
  <2>4. HandlerOnTop'
    BY <1>0, <1>15, HandlerKept, Zenon DEF SysSleep
  <2>5. TicksLocked'
    BY <1>0, <1>n, <1>15, <1>t, ZenonT(30) DEF SysSleep, TicksLocked
  <2>6. DeadIsZombie' /\ OnlyInitPanics'
    BY <1>0, <1>n, <1>15, <1>t DEF SysSleep, DeadIsZombie,
       OnlyInitPanics
  <2> QED BY <2>1, <2>2, <2>3, <2>4, <2>5, <2>6 DEF SwitchInv
<1>16. CASE SleepDone(c, p)
  <2>1. RunningOnOneCPU'
    BY <1>0, <1>16, RunningKept, ZenonT(30) DEF SleepDone
  <2>2. SchedLocked'
    BY <1>0, <1>n, <1>16, <1>t DEF SleepDone, SchedLocked
  <2>3. EmbryoOwned'
    BY <1>0, <1>16, EmbryoKept DEF SleepDone
  <2>4. HandlerOnTop'
    BY <1>0, <1>16, HandlerKept, Zenon DEF SleepDone
  <2>5. TicksLocked'
    BY <1>0, <1>n, <1>16, <1>t, Zenon DEF SleepDone, TicksLocked
  <2>6. DeadIsZombie' /\ OnlyInitPanics'
    BY <1>0, <1>n, <1>16, <1>t, Zenon DEF SleepDone, DeadIsZombie, OnlyInitPanics
  <2> QED BY <2>1, <2>2, <2>3, <2>4, <2>5, <2>6 DEF SwitchInv
<1>17. CASE SleepAgain(c, p)
  <2>1. RunningOnOneCPU'
    BY <1>0, <1>17, RunningKept, Zenon DEF SleepAgain
  <2>2. SchedLocked'
    BY <1>0, <1>n, <1>17, <1>t, Zenon DEF SleepAgain, SchedLocked
  <2>3. EmbryoOwned'
    BY <1>0, <1>17, EmbryoKept, Zenon DEF SleepAgain
  <2>4. HandlerOnTop'
    BY <1>0, <1>17, HandlerKept, Zenon DEF SleepAgain
  <2>5. TicksLocked'
    BY <1>0, <1>n, <1>17, <1>t, ZenonT(30) DEF SleepAgain, TicksLocked
  <2>6. DeadIsZombie' /\ OnlyInitPanics'
    BY <1>0, <1>n, <1>17, <1>t DEF SleepAgain, DeadIsZombie,
       OnlyInitPanics
  <2> QED BY <2>1, <2>2, <2>3, <2>4, <2>5, <2>6 DEF SwitchInv
<1>18. CASE Sleep(c, p)
  <2>0. sched = {}
    BY <1>0, <1>18, SchedEmpty DEF Sleep
  <2>1. RunningOnOneCPU'
    BY <1>0, <1>n, <1>18, RunningLeft, ZenonT(30) DEF Sleep
  <2>2. SchedLocked'
    BY <1>0, <1>n, <1>18, <2>0, <1>t DEF Sleep, SchedLocked
  <2>3. EmbryoOwned'
    BY <1>0, <1>18, EmbryoKept DEF Sleep
  <2>4. HandlerOnTop'
    BY <1>0, <1>18, <2>0, HandlerKept, ZenonT(30) DEF Sleep
  <2>5. TicksLocked'
    BY <1>0, <1>n, <1>18, <2>0, <1>t, Zenon DEF Sleep, TicksLocked
  <2>6. DeadIsZombie' /\ OnlyInitPanics'
    BY <1>0, <1>n, <1>18, <2>0, <1>t DEF Sleep, DeadIsZombie,
       OnlyInitPanics
  <2> QED BY <2>1, <2>2, <2>3, <2>4, <2>5, <2>6 DEF SwitchInv
<1>19. CASE SleepReturns(c, p)
  <2>0. sched = {}
    BY <1>0, <1>19, SchedEmpty DEF SleepReturns
  <2>1. RunningOnOneCPU'
    BY <1>0, <1>19, RunningKept, ZenonT(30) DEF SleepReturns
  <2>2. SchedLocked'
    BY <1>0, <1>n, <1>19, <2>0, <1>t DEF SleepReturns, SchedLocked
  <2>3. EmbryoOwned'
    BY <1>0, <1>19, EmbryoKept DEF SleepReturns
  <2>4. HandlerOnTop'
    BY <1>0, <1>19, <2>0, HandlerKept, Zenon DEF SleepReturns
  <2>5. TicksLocked'
    BY <1>0, <1>19, <2>0, TicksKept, Zenon DEF SleepReturns
  <2>6. DeadIsZombie' /\ OnlyInitPanics'
    BY <1>0, <1>n, <1>19, <2>0, <1>t, Zenon DEF SleepReturns, DeadIsZombie,
       OnlyInitPanics
  <2> QED BY <2>1, <2>2, <2>3, <2>4, <2>5, <2>6 DEF SwitchInv
<1>20. CASE SleepRelock(c, p)
  <2>1. RunningOnOneCPU'
    BY <1>0, <1>20, RunningKept, Zenon DEF SleepRelock
  <2>2. SchedLocked'
    BY <1>0, <1>n, <1>20, <1>t, Zenon DEF SleepRelock, SchedLocked
  <2>3. EmbryoOwned'
    BY <1>0, <1>20, EmbryoKept DEF SleepRelock
  <2>4. HandlerOnTop'
    BY <1>0, <1>20, HandlerKept, Zenon DEF SleepRelock
  <2>5. TicksLocked'
    BY <1>0, <1>n, <1>20, <1>t, Zenon DEF SleepRelock, TicksLocked
  <2>6. DeadIsZombie' /\ OnlyInitPanics'
    BY <1>0, <1>n, <1>20, <1>t, Zenon DEF SleepRelock, DeadIsZombie, OnlyInitPanics
  <2> QED BY <2>1, <2>2, <2>3, <2>4, <2>5, <2>6 DEF SwitchInv
<1>21. CASE Timer(c, p)
  <2>1. RunningOnOneCPU'
    BY <1>0, <1>n, <1>21, <1>t DEF YieldOrExit, Preemptible, Timer,
       RunningOnOneCPU
  <2>2. SchedLocked'
    BY <1>0, <1>n, <1>21, <1>t DEF YieldOrExit, Preemptible, Timer,
       SchedLocked
  <2>3. EmbryoOwned'
    BY <1>0, <1>n, <1>21, <1>t DEF YieldOrExit, Preemptible, Timer,
       EmbryoOwned, Forking
  <2>4. HandlerOnTop'
    BY <1>0, <1>21, HandlerKept DEF YieldOrExit, Preemptible, Timer
  <2>5. TicksLocked'
    BY <1>0, <1>21, TicksKept, Zenon DEF YieldOrExit, Preemptible, Timer
  <2>6. DeadIsZombie' /\ OnlyInitPanics'
    BY <1>0, <1>n, <1>21, <1>t, ZenonT(30) DEF YieldOrExit, Preemptible, Timer,
       DeadIsZombie, OnlyInitPanics
  <2> QED BY <2>1, <2>2, <2>3, <2>4, <2>5, <2>6 DEF SwitchInv
<1>22. CASE Resume(c, p)
  <2>0. sched = {}
    BY <1>0, <1>22, SchedEmpty, Zenon DEF Resume
  <2>u. pc[p] # "dead" /\ UNCHANGED <<state, cpuproc, sched, tickslock, tick>>
    BY <1>0, <1>22, Zenon DEF Resume, DeadIsZombie
  <2>v. pc[p] \notin {"tloop", "tsleep"}
    BY <1>22, Zenon DEF Resume, Preemptible
  <2>1. RunningOnOneCPU'
    BY <1>0, <2>u, Zenon DEF RunningOnOneCPU
  <2>2. SchedLocked'
    BY <1>0, <1>n, <1>22, <2>0, <1>t, Zenon DEF Resume, SchedLocked
  <2>3. EmbryoOwned'
    BY <1>0, <1>n, <1>22, <2>0, <1>t, ZenonT(30) DEF Resume, EmbryoOwned, Forking
  <2>4. HandlerOnTop'
    BY <1>0, <1>22, <2>0, HandlerKept, Zenon DEF Resume
  <2>5. TicksLocked'
    BY <1>0, <1>22, <2>u, <2>v, TicksKept, Zenon DEF Resume
  <2>6. DeadIsZombie' /\ OnlyInitPanics'
    BY <1>0, <1>n, <1>22, <2>0, <1>t, Zenon DEF Resume, DeadIsZombie, OnlyInitPanics
  <2> QED BY <2>1, <2>2, <2>3, <2>4, <2>5, <2>6 DEF SwitchInv
<1>23. CASE Dispatch(c, p)
  <2>0. sched = {}
    BY <1>0, <1>23, SchedEmpty, Zenon DEF Dispatch
  <2>1. RunningOnOneCPU'
    BY <1>0, <1>n, <1>23, <2>0, <1>t DEF Dispatch, RunningOnOneCPU
  <2>2. SchedLocked'
    BY <1>0, <1>n, <1>23, <2>0, <1>t, Zenon DEF Dispatch, SchedLocked
  <2>3. EmbryoOwned'
    BY <1>0, <1>n, <1>23, <2>0, <1>t, Zenon DEF Dispatch, EmbryoOwned, Forking
  <2>4. HandlerOnTop'
    BY <1>0, <1>n, <1>23, <2>0, <1>t, Zenon DEF Dispatch, HandlerOnTop, Preemptible
  <2>5. TicksLocked'
    BY <1>0, <1>n, <1>23, <2>0, <1>t, Zenon DEF Dispatch, TicksLocked
  <2>6. DeadIsZombie' /\ OnlyInitPanics'
    BY <1>0, <1>n, <1>23, <2>0, <1>t DEF Dispatch, DeadIsZombie,
       OnlyInitPanics
  <2> QED BY <2>1, <2>2, <2>3, <2>4, <2>5, <2>6 DEF SwitchInv
<1> QED
  BY <1>1, <1>2, <1>3, <1>4, <1>5, <1>6, <1>7, <1>8, <1>9, <1>10, <1>11,
     <1>12, <1>13, <1>14, <1>15, <1>16, <1>17, <1>18, <1>19, <1>20, <1>21,
     <1>22, <1>23 DEF Thread

\* The switch invariant holds when userinit() is done.
LEMMA SwitchInit == Init => SwitchInv
<1> SUFFICES ASSUME Init PROVE SwitchInv
  OBVIOUS
<1>1. TypeOK
  BY TypeInit
<1>2. RunningOnOneCPU /\ SchedLocked /\ HandlerOnTop /\ TicksLocked
  BY InitSlot DEF Init, RunningOnOneCPU, SchedLocked, HandlerOnTop, TicksLocked,
     Null, Slots
<1>3. EmbryoOwned /\ DeadIsZombie /\ OnlyInitPanics
  BY DEF Init, EmbryoOwned, Forking, DeadIsZombie, OnlyInitPanics
<1> QED BY <1>1, <1>2, <1>3 DEF SwitchInv

\* The steps of a CPU that are not those of a thread.
LEMMA SwitchCPU ==
  ASSUME SwitchInv, TypeOK', panicked = "no", NEW c \in CPUs, CPU(c)
  PROVE  SwitchInv'
<1> USE DEF SwitchTypes, fields, locks, clock
<1>0. /\ TypeOK /\ RunningOnOneCPU /\ SchedLocked /\ EmbryoOwned /\ HandlerOnTop
      /\ TicksLocked /\ DeadIsZombie /\ OnlyInitPanics /\ SwitchTypes
  BY DEF SwitchInv, TypeOK
<1>t. SwitchTypes'
  BY DEF TypeOK
<1>n. Null \notin Slots /\ Free \notin CPUs /\ 0 \in CPUs
  BY BootCPU DEF Null, Slots, Free, CPUs
<1>1. CASE InitExiting(c)
  <2>1. RunningOnOneCPU' /\ SchedLocked' /\ EmbryoOwned' /\ DeadIsZombie'
    BY <1>0, <1>1, Zenon DEF InitExiting, RunningOnOneCPU, SchedLocked, EmbryoOwned,
       Forking, DeadIsZombie
  <2>2. HandlerOnTop' /\ TicksLocked' /\ OnlyInitPanics'
    BY <1>0, <1>1, Zenon DEF InitExiting, HandlerOnTop, TicksLocked, OnlyInitPanics
  <2> QED BY <2>1, <2>2 DEF SwitchInv
<1>2. CASE Sched(c)
  <2>1. RunningOnOneCPU'
    <3>1. /\ c \in sched /\ sched' = sched \ {c} /\ state' = state
          /\ cpuproc' = [cpuproc EXCEPT ![c] = Null]
      BY <1>2, Zenon DEF Sched
    <3>2. \A q \in Slots, d \in CPUs :
            d \notin sched' /\ cpuproc'[d] = q <=> d \notin sched /\ cpuproc[d] = q
      BY <1>0, <1>n, <3>1
    <3> QED BY <1>0, <1>n, <3>1, <3>2 DEF RunningOnOneCPU
  <2>2. SchedLocked' /\ OnlyInitPanics'
    BY <1>0, <1>n, <1>2, <1>t, Zenon DEF Sched, SchedLocked, OnlyInitPanics
  <2>3. EmbryoOwned' /\ DeadIsZombie'
    BY <1>0, <1>2, Zenon DEF Sched, EmbryoOwned, Forking, DeadIsZombie
  <2>4. HandlerOnTop'
    BY <1>0, <1>n, <1>2, <1>t, Zenon DEF Sched, HandlerOnTop
  <2>5. TicksLocked'
    BY <1>0, <1>n, <1>2, <1>t, ZenonT(30) DEF Sched, SchedLocked, TicksLocked
  <2> QED BY <2>1, <2>2, <2>3, <2>4, <2>5 DEF SwitchInv
<1>3. CASE ScanEnd(c)
  <2>0. sched = {}
    BY <1>0, <1>3, SchedEmpty DEF ScanEnd
  <2> QED
    BY <1>0, <1>3, <2>0 DEF ScanEnd, SwitchInv, RunningOnOneCPU, SchedLocked,
       EmbryoOwned, Forking, HandlerOnTop, TicksLocked, DeadIsZombie,
       OnlyInitPanics
<1> QED BY <1>1, <1>2, <1>3, Zenon DEF CPU

\* The steps of the timer handler of CPU 0.
LEMMA SwitchTick ==
  ASSUME SwitchInv, TypeOK', panicked = "no", Tick \/ TickWakeup \/ TickReturn
  PROVE  SwitchInv'
<1> USE DEF SwitchTypes, fields, locks, clock
<1>0. /\ TypeOK /\ RunningOnOneCPU /\ SchedLocked /\ EmbryoOwned /\ HandlerOnTop
      /\ TicksLocked /\ DeadIsZombie /\ OnlyInitPanics /\ SwitchTypes
  BY DEF SwitchInv, TypeOK
<1>t. SwitchTypes'
  BY DEF TypeOK
<1>n. Null \notin Slots /\ Free \notin CPUs /\ 0 \in CPUs
  BY BootCPU DEF Null, Slots, Free, CPUs
<1>1. CASE Tick
  <2>1. RunningOnOneCPU' /\ SchedLocked'
    BY <1>0, <1>1, Zenon DEF Tick, RunningOnOneCPU, SchedLocked
  <2>2. EmbryoOwned' /\ DeadIsZombie' /\ OnlyInitPanics'
    BY <1>0, <1>1, ZenonT(30) DEF Tick, EmbryoOwned, Forking, DeadIsZombie,
       OnlyInitPanics
  <2>3. HandlerOnTop' /\ TicksLocked'
    BY <1>0, <1>1 DEF Tick, HandlerOnTop, TicksLocked, Preemptible
  <2> QED BY <2>1, <2>2, <2>3 DEF SwitchInv
<1>2. CASE TickWakeup
  <2>0. sched = {}
    BY <1>0, <1>2, SchedFree DEF TickWakeup
  <2>w. \A s \in Slots : state'[s] # state[s] =>
          state[s] = "SLEEPING" /\ state'[s] = "RUNNABLE"
    BY <1>0, <1>2, Zenon DEF TickWakeup, Wakeup1
  <2>1. RunningOnOneCPU' /\ SchedLocked'
    BY <1>0, <1>2, <2>0, <2>w, ZenonT(30) DEF TickWakeup, RunningOnOneCPU, SchedLocked
  <2>2. EmbryoOwned'
    BY <1>0, <1>2, <2>w DEF TickWakeup, EmbryoOwned, Forking
  <2>3. HandlerOnTop' /\ TicksLocked'
    BY <1>0, <1>n, <1>2, <2>0 DEF TickWakeup, HandlerOnTop, TicksLocked,
       Preemptible
  <2>4. DeadIsZombie' /\ OnlyInitPanics'
    BY <1>0, <1>2, <2>w DEF TickWakeup, DeadIsZombie, OnlyInitPanics
  <2> QED BY <2>1, <2>2, <2>3, <2>4 DEF SwitchInv
<1>3. CASE TickReturn
  <2> DEFINE p == cpuproc[0]
  <2>p. /\ p \in Slots /\ state[p] = "RUNNING" /\ pc[p] \in Preemptible
        /\ 0 \notin sched /\ tickslock # 0
    BY <1>0, <1>n, <1>3 DEF TickReturn, HandlerOnTop, RunningOnOneCPU
  <2>y. /\ YieldOrExit(0, p) /\ tick' = "idle"
        /\ UNCHANGED <<tickslock, cpuproc, np, panicked>>
    BY <1>3 DEF TickReturn
  <2> HIDE DEF p
  <2>k. cpuproc[0] = p
    BY DEF p
  <2>1. CASE pc[p] = "user" /\ killed[p]
    <3>1. pc' = [pc EXCEPT ![p] = "exit"] /\ UNCHANGED <<state, lock, sched>>
      BY <2>1, <2>y DEF YieldOrExit, Goto
    <3>r. RunningOnOneCPU'
      BY <1>0, <2>y, <3>1, RunningKept
    <3>2. SchedLocked' /\ HandlerOnTop' /\ OnlyInitPanics'
      BY <1>0, <2>y, <3>1 DEF SchedLocked, HandlerOnTop, OnlyInitPanics
    <3>3. EmbryoOwned' /\ DeadIsZombie'
      BY <1>0, <2>p, <2>y, <3>1, ZenonT(30) DEF EmbryoOwned, Forking, DeadIsZombie
    <3>4. TicksLocked'
      BY <1>0, <1>n, <2>p, <2>k, <2>y, <3>1 DEF TicksLocked, RunningOnOneCPU
    <3> QED BY <3>r, <3>2, <3>3, <3>4 DEF SwitchInv
  <2>2. CASE ~(pc[p] = "user" /\ killed[p])
    <3>0. sched = {}
      BY <1>0, <2>2, <2>y, SchedFree DEF YieldOrExit
    <3>1. /\ state' = [state EXCEPT ![p] = "RUNNABLE"]
          /\ lock' = 0 /\ sched' = {0} /\ pc' = pc
      BY <2>2, <2>y, <3>0, ZenonT(30) DEF YieldOrExit, EnterSched
    <3>2. RunningOnOneCPU'
      BY <1>0, <1>n, <2>p, <2>k, <2>y, <3>0, <3>1, RunningLeft
    <3>3. SchedLocked' /\ HandlerOnTop' /\ OnlyInitPanics'
      BY <1>0, <1>n, <2>p, <2>k, <2>y, <3>1 DEF SchedLocked, HandlerOnTop,
         OnlyInitPanics
    <3>4. EmbryoOwned' /\ DeadIsZombie'
      BY <1>0, <2>p, <2>y, <3>1, ZenonT(30) DEF EmbryoOwned, Forking, DeadIsZombie
    <3>5. TicksLocked'
      BY <1>0, <2>p, <2>y, <3>0, <3>1, <1>3 DEF TicksLocked, TickReturn
    <3> QED BY <3>2, <3>3, <3>4, <3>5 DEF SwitchInv
  <2> QED BY <2>1, <2>2
<1> QED BY <1>1, <1>2, <1>3, ZenonT(30)

\* No step of the kernel breaks the switch invariant.
LEMMA SwitchStep == SwitchInv /\ [Next]_vars => SwitchInv'
<1> SUFFICES ASSUME SwitchInv, [Next]_vars PROVE SwitchInv'
  OBVIOUS
<1>1. TypeOK'
  BY TypeStep DEF SwitchInv
<1>2. CASE UNCHANGED vars
  <2>1. RunningOnOneCPU' /\ SchedLocked' /\ EmbryoOwned' /\ DeadIsZombie'
    BY <1>2, ZenonT(30) DEF vars, SwitchInv, RunningOnOneCPU, SchedLocked, EmbryoOwned,
       Forking, DeadIsZombie
  <2>2. HandlerOnTop' /\ TicksLocked' /\ OnlyInitPanics'
    BY <1>2, Zenon DEF vars, SwitchInv, HandlerOnTop, TicksLocked, OnlyInitPanics
  <2> QED BY <1>1, <2>1, <2>2, Zenon DEF SwitchInv
<1> QED
  BY <1>1, <1>2, SwitchThread, SwitchCPU, SwitchTick DEF Next, Halted

\* The switch invariant holds of every behaviour of the kernel.
THEOREM SwitchInvariant == Spec => []SwitchInv
  BY SwitchInit, SwitchStep, PTL DEF Spec

\* No process runs on two CPUs, for any number of them: the state RUNNING and
\* mycpu()->proc agree through yield, sleep, exit, sched and the scheduler.
THEOREM OneCPUPerProcess == Spec => []RunningOnOneCPU
<1>1. SwitchInv => RunningOnOneCPU
  BY DEF SwitchInv
<1> QED BY <1>1, SwitchInvariant, PTL

\* No wait() frees a kernel stack that a CPU still executes on.
THEOREM StackNotFreed == Spec => []StackInUse
<1>1. SwitchInv => StackInUse
  <2> SUFFICES ASSUME SwitchInv, NEW c \in CPUs, cpuproc[c] # Null
               PROVE  cpuproc[c] \in Live
    BY DEF StackInUse
  <2>1. CASE c \in sched
    BY <2>1 DEF SwitchInv, SchedLocked, TypeOK, Live
  <2>2. CASE c \notin sched
    BY <2>2 DEF SwitchInv, RunningOnOneCPU, TypeOK, Live
  <2> QED BY <2>1, <2>2
<1> QED BY <1>1, SwitchInvariant, PTL

\* The assertions of sched() and exit() never fail.
THEOREM SchedNeverPanics == Spec => []OnlyInitPanics
<1>1. SwitchInv => OnlyInitPanics
  BY DEF SwitchInv
<1> QED BY <1>1, SwitchInvariant, PTL



\* What sets slots apart: a pid in use is in one slot only, that of a failed
\* fork included, and nextpid is above them all.
PidsApart ==
  /\ \A s \in Slots : pid[s] < nextpid
  /\ \A s, t \in Slots : s # t /\ pid[s] = pid[t] => pid[s] = 0
  /\ \A s \in Slots : state[s] # "UNUSED" => pid[s] # 0

\* A step that gives no pid and takes no slot keeps pids apart.
LEMMA PidsKept ==
  ASSUME PidsApart, pid' = pid, nextpid' = nextpid,
         \A s \in Slots : state'[s] # "UNUSED" => state[s] # "UNUSED"
  PROVE  PidsApart'
  BY Zenon DEF PidsApart

\* wakeup1() takes no free slot.
LEMMA WakeupKeepsFree ==
  ASSUME NEW ch, NEW st \in [Slots -> States], NEW s \in Slots
  PROVE  st[s] # "SLEEPING" => Wakeup1(ch, st)[s] = st[s]
  BY Zenon DEF Wakeup1

\* A step of a thread keeps pids apart: fork() takes a new one, wait() clears one.
LEMMA PidsThread ==
  ASSUME SwitchInv, PidsApart, NEW c \in CPUs, NEW p \in Slots, Thread(c, p)
  PROVE  PidsApart'
<1> USE DEF fields, locks, clock, At, On, Goto, EnterSched
<1>0. /\ state \in [Slots -> States] /\ pid \in [Slots -> 0 .. MaxPid]
      /\ nextpid \in 1 .. MaxPid + 1 /\ np \in [Slots -> Slots \cup {Null}] /\ MaxPid \in Nat
      /\ \A q \in Slots : pc[q] \in {"stack", "copy", "ready"} =>
           np[q] \in Slots /\ state[np[q]] = "EMBRYO"
  BY MaxPidAssumption, Zenon DEF SwitchInv, TypeOK, EmbryoOwned, Forking
<1>1. CASE Trap(c, p)
  BY <1>0, <1>1, PidsKept, Zenon DEF Trap
<1>2. CASE Fault(c, p)
  BY <1>0, <1>2, PidsKept, Zenon DEF Fault
<1>3. CASE AllocProc(c, p)
  BY <1>0, <1>3 DEF AllocProc, NextPid, FirstUnused, PidsApart
<1>4. CASE AllocProcFull(c, p)
  BY <1>0, <1>4, PidsKept, Zenon DEF AllocProcFull
<1>5. CASE AllocStack(c, p)
  BY <1>0, <1>5, PidsKept, Zenon DEF AllocStack
<1>6. CASE ForkFails(c, p)
  BY <1>0, <1>6, PidsKept, Zenon DEF ForkFails
<1>7. CASE ForkCopy(c, p)
  BY <1>0, <1>7, PidsKept, Zenon DEF ForkCopy
<1>8. CASE ForkReady(c, p)
  BY <1>0, <1>8, PidsKept, Zenon DEF ForkReady
<1>9. CASE SysExit(c, p)
  BY <1>0, <1>9, PidsKept, Zenon DEF SysExit
<1>10. CASE Exit(c, p)
  <2>1. \A s \in Slots : state'[s] # "UNUSED" => state[s] # "UNUSED"
    <3> DEFINE woken == Wakeup1(parent[p], state)
    <3>a. woken \in [Slots -> States]
      BY <1>0, WakeupType, Zenon
    <3>b. ASSUME NEW s \in Slots, state[s] = "UNUSED" PROVE ExitWakeups(p)[s] = "UNUSED"
      <4>1. woken[s] = "UNUSED"
        <5>1. state \in [Slots -> States] /\ state[s] # "SLEEPING"
          BY <1>0, <3>b
        <5> QED BY <3>b, <5>1, WakeupKeepsFree
      <4>2. Wakeup1(InitProc, woken)[s] = "UNUSED"
        BY <3>a, <4>1, WakeupKeepsFree, Zenon
      <4> QED BY <4>1, <4>2, Zenon DEF ExitWakeups
    <3>1. \A s \in Slots : state[s] = "UNUSED" => ExitWakeups(p)[s] = "UNUSED"
      BY <3>b, Zenon
    <3>2. ExitWakeups(p) \in [Slots -> States]
      BY <1>0, WakeupType, Zenon DEF ExitWakeups
    <3> QED BY <1>10, <3>1, <3>2, Zenon DEF Exit
  <2> QED BY <1>10, <2>1, PidsKept, Zenon DEF Exit
<1>11. CASE WaitReap(c, p)
  <2>1. PICK q \in Zombies(p) :
          state' = [state EXCEPT ![q] = "UNUSED"] /\ pid' = [pid EXCEPT ![q] = 0]
    BY <1>11, Zenon DEF WaitReap
  <2>2. q \in Slots
    BY Zenon DEF Zombies, Children
  <2>3. state'[q] = "UNUSED" /\ pid'[q] = 0 /\ nextpid' = nextpid
    BY <1>0, <1>11, <2>1, <2>2, Zenon DEF WaitReap
  <2>4. \A s \in Slots \ {q} : state'[s] = state[s] /\ pid'[s] = pid[s]
    BY <1>0, <2>1, Zenon
  <2>5. pid[q] < nextpid => 0 < nextpid
    BY <1>0, <2>2
  <2>6. \A s \in Slots : pid'[s] < nextpid'
    BY <2>2, <2>3, <2>4, <2>5, Zenon DEF PidsApart
  <2>7. \A s, t \in Slots : s # t /\ pid'[s] = pid'[t] => pid'[s] = 0
    BY <2>2, <2>3, <2>4, Zenon DEF PidsApart
  <2>8. \A s \in Slots : state'[s] # "UNUSED" => pid'[s] # 0
    BY <2>2, <2>3, <2>4, Zenon DEF PidsApart
  <2> QED BY <2>6, <2>7, <2>8, Zenon DEF PidsApart
<1>12. CASE WaitFails(c, p)
  BY <1>0, <1>12, PidsKept, Zenon DEF WaitFails
<1>13. CASE WaitSleep(c, p)
  BY <1>0, <1>13, PidsKept, Zenon DEF WaitSleep, Scanning
<1>14. CASE Kill(c, p)
  BY <1>0, <1>14, PidsKept DEF Kill
<1>15. CASE SysSleep(c, p)
  BY <1>0, <1>15, PidsKept, Zenon DEF SysSleep
<1>16. CASE SleepDone(c, p)
  BY <1>0, <1>16, PidsKept, Zenon DEF SleepDone
<1>17. CASE SleepAgain(c, p)
  BY <1>0, <1>17, PidsKept, Zenon DEF SleepAgain
<1>18. CASE Sleep(c, p)
  BY <1>0, <1>18, PidsKept, Zenon DEF Sleep
<1>19. CASE SleepReturns(c, p)
  BY <1>0, <1>19, PidsKept, Zenon DEF SleepReturns
<1>20. CASE SleepRelock(c, p)
  BY <1>0, <1>20, PidsKept, Zenon DEF SleepRelock
<1>21. CASE Timer(c, p)
  BY <1>0, <1>21, PidsKept, Zenon DEF Timer, YieldOrExit
<1>22. CASE Resume(c, p)
  BY <1>0, <1>22, PidsKept, Zenon DEF Resume
<1>23. CASE Dispatch(c, p)
  BY <1>0, <1>23, PidsKept, Zenon DEF Dispatch
<1> QED
  BY <1>1, <1>2, <1>3, <1>4, <1>5, <1>6, <1>7, <1>8, <1>9, <1>10, <1>11, <1>12, <1>13,
     <1>14, <1>15, <1>16, <1>17, <1>18, <1>19, <1>20, <1>21, <1>22, <1>23, Zenon DEF
     Thread

\* No step of the kernel brings two pids together.
LEMMA PidsStep == SwitchInv /\ PidsApart /\ [Next]_vars => PidsApart'
<1> SUFFICES ASSUME SwitchInv, PidsApart, [Next]_vars PROVE PidsApart'
  BY Zenon
<1>0. state \in [Slots -> States]
  BY Zenon DEF SwitchInv, TypeOK
<1>1. ASSUME NEW c \in CPUs, CPU(c) PROVE PidsApart'
  BY <1>1, PidsKept, Zenon DEF CPU, InitExiting, Sched, ScanEnd, fields
<1>2. CASE Tick
  BY <1>2, PidsKept, Zenon DEF Tick, fields
<1>3. CASE TickWakeup
  <2>1. \A s \in Slots : state'[s] # "UNUSED" => state[s] # "UNUSED"
    BY <1>0, <1>3, WakeupKeepsFree, Zenon DEF TickWakeup
  <2> QED BY <1>3, <2>1, PidsKept, Zenon DEF TickWakeup
<1>4. CASE TickReturn
  <2>1. cpuproc[0] \in Slots /\ state[cpuproc[0]] = "RUNNING"
    BY <1>4, BootCPU, Zenon DEF TickReturn, SwitchInv, TypeOK, HandlerOnTop,
       RunningOnOneCPU
  <2> QED BY <1>0, <1>4, <2>1, PidsKept, Zenon DEF TickReturn, YieldOrExit
<1>5. CASE UNCHANGED vars
  BY <1>5, PidsKept, Zenon DEF vars
<1> QED
  BY <1>1, <1>2, <1>3, <1>4, <1>5, PidsThread, Zenon DEF Next, Halted

\* kill() finds the process it names, for any number of slots and pids: fork()
\* and its error paths, exit() and wait() leave a pid in one slot.
THEOREM KillFinds == Spec => []KillFindsProcess
<1>1. Init => PidsApart
  BY NPROCAssumption DEF Init, PidsApart, Slots, InitProc
<1>2. SwitchInv /\ PidsApart => KillFindsProcess
  BY Zenon DEF PidsApart, KillFindsProcess
<1> QED BY <1>1, <1>2, PidsStep, SwitchInvariant, PTL DEF Spec

----------------------------------------------------------------------------
(* exit() and wait().                                                       *)

\* The slot of init is never free and has no parent; nobody is its own parent.
Family ==
  /\ parent[InitProc] = Null
  /\ state[InitProc] \notin {"UNUSED", "EMBRYO"}
  /\ \A s \in Slots : parent[s] # s

\* A step that leaves parents and the slot of init alone keeps Family.
LEMMA FamilyKept ==
  ASSUME Family, parent' = parent,
         state'[InitProc] \in {"UNUSED", "EMBRYO"} => state[InitProc] \in {"UNUSED", "EMBRYO"}
  PROVE  Family'
  BY Zenon DEF Family

\* A step that makes no zombie, no orphan and no sleeper keeps NoMissedExit.
LEMMA ExitKept ==
  ASSUME NoMissedExit,
         \A s \in Slots : state'[s] = "ZOMBIE" => state[s] = "ZOMBIE" /\ parent'[s] = parent[s],
         \A s \in Slots : state'[s] = "SLEEPING" /\ chan'[s] = s =>
           state[s] = "SLEEPING" /\ chan[s] = s /\ killed'[s] = killed[s]
  PROVE  NoMissedExit'
<1>1. ASSUME NEW p \in Slots, state'[p] = "SLEEPING", chan'[p] = p
      PROVE  Zombies(p)' = {} /\ ~killed'[p]
  <2>1. Zombies(p) = {} /\ ~killed[p] /\ killed'[p] = killed[p]
    BY <1>1, Zenon DEF NoMissedExit
  <2>2. ASSUME NEW s \in Zombies(p)' PROVE FALSE
    <3>1. s \in Slots /\ state'[s] = "ZOMBIE" /\ parent'[s] = p
      BY <2>2, Zenon DEF Zombies, Children
    <3> QED BY <2>1, <3>1, Zenon DEF Zombies, Children
  <2> QED BY <2>1, <2>2, Zenon
<1> QED BY <1>1, Zenon DEF NoMissedExit

\* The types the proofs below use, and the slot of a fork under way.
LEMMA ProcTypes ==
  ASSUME SwitchInv
  PROVE  /\ state \in [Slots -> States] /\ parent \in [Slots -> Slots \cup {Null}]
         /\ np \in [Slots -> Slots \cup {Null}] /\ chan \in [Slots -> 0 .. TicksChan]
         /\ killed \in [Slots -> BOOLEAN]
         /\ InitProc \in Slots /\ Null \notin Slots /\ TicksChan \notin Slots
         /\ \A q \in Slots : pc[q] \in {"stack", "copy", "ready"} =>
              np[q] \in Slots /\ state[np[q]] = "EMBRYO"
<1>1. Null \notin Slots /\ TicksChan \notin Slots
  BY NPROCAssumption DEF Null, Slots, TicksChan
<1>2. \A q \in Slots : pc[q] \in {"stack", "copy", "ready"} =>
        np[q] \in Slots /\ state[np[q]] = "EMBRYO"
  BY Zenon DEF SwitchInv, EmbryoOwned, Forking
<1> QED BY <1>1, <1>2, InitSlot, Zenon DEF SwitchInv, TypeOK

\* exit() hands children to init and nobody else changes parents but fork().
LEMMA FamilyThread ==
  ASSUME SwitchInv, Family, NEW c \in CPUs, NEW p \in Slots, Thread(c, p)
  PROVE  Family'
<1> USE DEF fields, locks, clock, At, On, Goto, EnterSched
<1>0. /\ state \in [Slots -> States] /\ parent \in [Slots -> Slots \cup {Null}]
      /\ np \in [Slots -> Slots \cup {Null}] /\ chan \in [Slots -> 0 .. TicksChan]
      /\ killed \in [Slots -> BOOLEAN]
      /\ InitProc \in Slots /\ Null \notin Slots /\ TicksChan \notin Slots
      /\ \A q \in Slots : pc[q] \in {"stack", "copy", "ready"} =>
           np[q] \in Slots /\ state[np[q]] = "EMBRYO"
  BY ProcTypes, Zenon
<1>1. CASE Trap(c, p)
  BY <1>0, <1>1, FamilyKept, Zenon DEF Trap
<1>2. CASE Fault(c, p)
  BY <1>0, <1>2, FamilyKept, Zenon DEF Fault
<1>3. CASE AllocProc(c, p)
  BY <1>0, <1>3, FamilyKept, Zenon DEF AllocProc, FirstUnused, Family
<1>4. CASE AllocProcFull(c, p)
  BY <1>0, <1>4, FamilyKept, Zenon DEF AllocProcFull
<1>5. CASE AllocStack(c, p)
  BY <1>0, <1>5, FamilyKept, Zenon DEF AllocStack
<1>6. CASE ForkFails(c, p)
  BY <1>0, <1>6, FamilyKept, Zenon DEF ForkFails, Family
<1>7. CASE ForkCopy(c, p)
  BY <1>0, <1>7, Zenon DEF ForkCopy, Family
<1>8. CASE ForkReady(c, p)
  BY <1>0, <1>8, FamilyKept, Zenon DEF ForkReady
<1>9. CASE SysExit(c, p)
  BY <1>0, <1>9, FamilyKept, Zenon DEF SysExit
<1>10. CASE Exit(c, p)
  <2>1. state'[InitProc] \notin {"UNUSED", "EMBRYO"}
    <3>1. \A s \in Slots : state[s] # "SLEEPING" => ExitWakeups(p)[s] = state[s]
      BY <1>0, WakeupType, WakeupKeepsFree DEF ExitWakeups
    <3>2. ExitWakeups(p) \in [Slots -> States]
      BY <1>0, WakeupType, Zenon DEF ExitWakeups
    <3>3. ExitWakeups(p)[InitProc] \notin {"UNUSED", "EMBRYO"}
      BY <1>0, <3>1, <3>2, WakeupType, Zenon DEF Family, ExitWakeups, Wakeup1
    <3> QED BY <1>0, <1>10, <3>2, <3>3, Zenon DEF Exit
  <2> QED BY <1>0, <1>10, <2>1, Zenon DEF Exit, Reparented, Children, Family
<1>11. CASE WaitReap(c, p)
  BY <1>0, <1>11 DEF WaitReap, Zombies, Children, Family
<1>12. CASE WaitFails(c, p)
  BY <1>0, <1>12, FamilyKept, Zenon DEF WaitFails
<1>13. CASE WaitSleep(c, p)
  BY <1>0, <1>13, FamilyKept, Zenon DEF WaitSleep, Scanning
<1>14. CASE Kill(c, p)
  BY <1>0, <1>14, FamilyKept DEF Kill
<1>15. CASE SysSleep(c, p)
  BY <1>0, <1>15, FamilyKept, Zenon DEF SysSleep
<1>16. CASE SleepDone(c, p)
  BY <1>0, <1>16, FamilyKept, Zenon DEF SleepDone
<1>17. CASE SleepAgain(c, p)
  BY <1>0, <1>17, FamilyKept, Zenon DEF SleepAgain
<1>18. CASE Sleep(c, p)
  BY <1>0, <1>18, FamilyKept, Zenon DEF Sleep
<1>19. CASE SleepReturns(c, p)
  BY <1>0, <1>19, FamilyKept, Zenon DEF SleepReturns
<1>20. CASE SleepRelock(c, p)
  BY <1>0, <1>20, FamilyKept, Zenon DEF SleepRelock
<1>21. CASE Timer(c, p)
  BY <1>0, <1>21, FamilyKept, Zenon DEF Timer, YieldOrExit
<1>22. CASE Resume(c, p)
  BY <1>0, <1>22, FamilyKept, Zenon DEF Resume
<1>23. CASE Dispatch(c, p)
  BY <1>0, <1>23, FamilyKept, Zenon DEF Dispatch
<1> QED
  BY <1>1, <1>2, <1>3, <1>4, <1>5, <1>6, <1>7, <1>8, <1>9, <1>10, <1>11, <1>12, <1>13,
     <1>14, <1>15, <1>16, <1>17, <1>18, <1>19, <1>20, <1>21, <1>22, <1>23, Zenon DEF
     Thread

\* exit() wakes the parent before the child is a zombie, and init for the
\* zombies it hands over; no other step makes a zombie or an orphan.
LEMMA ExitThread ==
  ASSUME SwitchInv, Family, NoMissedExit, NEW c \in CPUs, NEW p \in Slots, Thread(c, p)
  PROVE  NoMissedExit'
<1> USE DEF fields, locks, clock, At, On, Goto, EnterSched
<1>0. /\ state \in [Slots -> States] /\ parent \in [Slots -> Slots \cup {Null}]
      /\ np \in [Slots -> Slots \cup {Null}] /\ chan \in [Slots -> 0 .. TicksChan]
      /\ killed \in [Slots -> BOOLEAN]
      /\ InitProc \in Slots /\ Null \notin Slots /\ TicksChan \notin Slots
      /\ \A q \in Slots : pc[q] \in {"stack", "copy", "ready"} =>
           np[q] \in Slots /\ state[np[q]] = "EMBRYO"
  BY ProcTypes, Zenon
<1>1. CASE Trap(c, p)
  BY <1>0, <1>1, ExitKept, Zenon DEF Trap
<1>2. CASE Fault(c, p)
  BY <1>0, <1>2, ExitKept, Zenon DEF Fault
<1>3. CASE AllocProc(c, p)
  BY <1>0, <1>3, ExitKept, ZenonT(30) DEF AllocProc, FirstUnused
<1>4. CASE AllocProcFull(c, p)
  BY <1>0, <1>4, ExitKept, Zenon DEF AllocProcFull
<1>5. CASE AllocStack(c, p)
  BY <1>0, <1>5, ExitKept, Zenon DEF AllocStack
<1>6. CASE ForkFails(c, p)
  BY <1>0, <1>6, ExitKept, Zenon DEF ForkFails
<1>7. CASE ForkCopy(c, p)
  BY <1>0, <1>7, ExitKept, Zenon DEF ForkCopy
<1>8. CASE ForkReady(c, p)
  BY <1>0, <1>8, ExitKept, Zenon DEF ForkReady
<1>9. CASE SysExit(c, p)
  BY <1>0, <1>9, ExitKept, Zenon DEF SysExit
<1>10. CASE Exit(c, p)
  <2> DEFINE woken == Wakeup1(parent[p], state)
  <2>1. ExitWakeups(p) \in [Slots -> States] /\ woken \in [Slots -> States]
    BY <1>0, WakeupType, Zenon DEF ExitWakeups
  <2>2. \A s \in Slots : ExitWakeups(p)[s] = "SLEEPING" => state[s] = "SLEEPING" /\ chan[s] # parent[p]
    BY <1>0, <2>1, Zenon DEF ExitWakeups, Wakeup1
  <2>3. \A s \in Slots : s # p /\ state'[s] = "ZOMBIE" => state[s] = "ZOMBIE"
    BY <1>0, <1>10, <2>1, Zenon DEF Exit, ExitWakeups, Wakeup1
  <2>4. \A s \in Slots : s # p => state'[s] = ExitWakeups(p)[s]
    BY <1>0, <1>10, <2>1, Zenon DEF Exit
  <2>5. \A s \in Children(p) : state[s] = "ZOMBIE" =>
          ~(ExitWakeups(p)[InitProc] = "SLEEPING" /\ chan[InitProc] = InitProc)
    BY <1>0, <2>1, Zenon DEF ExitWakeups, Wakeup1, Children
  <2> SUFFICES ASSUME NEW q \in Slots, state'[q] = "SLEEPING", chan'[q] = q
               PROVE  Zombies(q)' = {} /\ ~killed'[q]
    BY Zenon DEF NoMissedExit
  <2>6. /\ q # p /\ state[q] = "SLEEPING" /\ chan[q] = q /\ ~killed'[q] /\ Zombies(q) = {}
        /\ parent[p] # q
    BY <1>0, <1>10, <2>2, <2>4 DEF Exit, NoMissedExit
  <2>7. ASSUME NEW s \in Slots, parent'[s] = q, state'[s] = "ZOMBIE" PROVE FALSE
    <3>1. CASE s = p
      BY <1>0, <1>10, <2>6, <2>7, <3>1, Zenon DEF Exit, Reparented, Children, Family
    <3>2. CASE s # p /\ s \in Children(p)
      BY <1>0, <1>10, <2>3, <2>4, <2>5, <2>6, <2>7, <3>2 DEF Exit, Reparented
    <3>3. CASE s # p /\ s \notin Children(p)
      BY <1>0, <1>10, <2>3, <2>6, <2>7, <3>3, Zenon DEF Exit, Reparented, Zombies,
         Children
    <3> QED BY <3>1, <3>2, <3>3, Zenon
  <2> QED BY <2>6, <2>7, Zenon DEF Zombies, Children
<1>11. CASE WaitReap(c, p)
  <2>0. state[p] = "RUNNING"
    BY <1>11, Zenon DEF WaitReap, Scanning
  <2>1. PICK q \in Zombies(p) :
          /\ state' = [state EXCEPT ![q] = "UNUSED"]
          /\ parent' = [parent EXCEPT ![q] = Null]
          /\ killed' = [killed EXCEPT ![q] = FALSE]
    BY <1>11, Zenon DEF WaitReap
  <2>2. chan' = [chan EXCEPT ![p] = 0]
    BY <1>11, Zenon DEF WaitReap
  <2>3. q \in Slots /\ state[q] = "ZOMBIE" /\ q # p
    BY <2>0, Zenon DEF Zombies, Children
  <2> QED BY <1>0, <2>0, <2>1, <2>2, <2>3, ExitKept, Zenon
<1>12. CASE WaitFails(c, p)
  BY <1>0, <1>12, ExitKept, Zenon DEF WaitFails, Scanning
<1>13. CASE WaitSleep(c, p)
  BY <1>0, <1>13 DEF WaitSleep, Scanning, NoMissedExit, Zombies, Children
<1>14. CASE Kill(c, p)
  BY <1>0, <1>14, ExitKept DEF Kill
<1>15. CASE SysSleep(c, p)
  BY <1>0, <1>15, ExitKept, Zenon DEF SysSleep
<1>16. CASE SleepDone(c, p)
  BY <1>0, <1>16, ExitKept, Zenon DEF SleepDone
<1>17. CASE SleepAgain(c, p)
  BY <1>0, <1>17, ExitKept, Zenon DEF SleepAgain
<1>18. CASE Sleep(c, p)
  BY <1>0, <1>18, ExitKept, Zenon DEF Sleep
<1>19. CASE SleepReturns(c, p)
  BY <1>0, <1>19, ExitKept, Zenon DEF SleepReturns
<1>20. CASE SleepRelock(c, p)
  BY <1>0, <1>20, ExitKept, Zenon DEF SleepRelock
<1>21. CASE Timer(c, p)
  BY <1>0, <1>21, ExitKept, Zenon DEF Timer, YieldOrExit
<1>22. CASE Resume(c, p)
  BY <1>0, <1>22, ExitKept, Zenon DEF Resume
<1>23. CASE Dispatch(c, p)
  BY <1>0, <1>23, ExitKept, Zenon DEF Dispatch
<1> QED
  BY <1>1, <1>2, <1>3, <1>4, <1>5, <1>6, <1>7, <1>8, <1>9, <1>10, <1>11, <1>12, <1>13,
     <1>14, <1>15, <1>16, <1>17, <1>18, <1>19, <1>20, <1>21, <1>22, <1>23, Zenon DEF
     Thread

\* The steps of the scheduler and of the timer, and stuttering, touch neither
\* parents nor zombies, and put nobody to sleep.
LEMMA ExitCPU ==
  ASSUME SwitchInv, Family, NoMissedExit,
         \/ \E c \in CPUs : InitExiting(c) \/ Sched(c) \/ ScanEnd(c)
         \/ Tick
         \/ TickWakeup
         \/ TickReturn
         \/ UNCHANGED vars
  PROVE  Family' /\ NoMissedExit'
<1>0. state \in [Slots -> States] /\ InitProc \in Slots
  BY ProcTypes, Zenon
<1>1. ASSUME NEW c \in CPUs, InitExiting(c) \/ Sched(c) \/ ScanEnd(c) PROVE Family' /\ NoMissedExit'
  BY <1>1, FamilyKept, ExitKept, Zenon DEF InitExiting, Sched, ScanEnd, fields
<1>2. CASE Tick
  BY <1>2, FamilyKept, ExitKept, ZenonT(30) DEF Tick, fields
<1>3. CASE TickWakeup
  <2>1. \A s \in Slots : state'[s] # state[s] => state'[s] = "RUNNABLE"
    BY <1>0, <1>3, Zenon DEF TickWakeup, Wakeup1
  <2> QED BY <1>0, <1>3, <2>1, FamilyKept, ExitKept, Zenon DEF TickWakeup
<1>4. CASE TickReturn
  <2>1. \A s \in Slots : state'[s] # state[s] => state'[s] = "RUNNABLE"
    BY <1>0, <1>4, Zenon DEF TickReturn, YieldOrExit
  <2> QED BY <1>0, <1>4, <2>1, FamilyKept, ExitKept, Zenon DEF TickReturn, YieldOrExit
<1>5. CASE UNCHANGED vars
  BY <1>5, FamilyKept, ExitKept, Zenon DEF vars
<1> QED BY <1>1, <1>2, <1>3, <1>4, <1>5, Zenon

\* Every step of the kernel keeps the family and misses no exit.
LEMMA ExitStep == SwitchInv /\ Family /\ NoMissedExit /\ [Next]_vars => Family' /\ NoMissedExit'
  BY FamilyThread, ExitThread, ExitCPU, Zenon DEF Next, CPU, Halted

\* No process sleeps in wait() beside a child that has exited, nor killed, for
\* any number of processes and CPUs: wait() scans and sleeps, and exit() and
\* kill() mark and wake, under ptable.lock.
THEOREM WaitMissesNoExit == Spec => []NoMissedExit
<1>1. Init => Family
  BY InitSlot, NPROCAssumption DEF Init, Family, Null, Slots, InitProc
<1>2. Init => NoMissedExit
  BY Zenon DEF Init, NoMissedExit
<1> QED BY <1>1, <1>2, ExitStep, SwitchInvariant, PTL DEF Spec

----------------------------------------------------------------------------
(* sys_sleep() and the clock.                                               *)

\* The timer handler holds tickslock while it wakes the sleepers, a process in
\* the loop of sys_sleep() executes on the CPU that holds it, and one that has
\* decided to sleep still has ticks to wait for.
ClockInv ==
  /\ tick = "wake" => tickslock = 0
  /\ \A p \in Slots : pc[p] \in {"tloop", "tsleep"} =>
       tickslock \in CPUs /\ cpuproc[tickslock] = p
  /\ \A p \in Slots : pc[p] = "tsleep" => Elapsed(p) < nap[p].n
  /\ \A p \in Slots : state[p] = "SLEEPING" /\ chan[p] = TicksChan => pc[p] = "tslept"
  /\ NoMissedTick

\* A step that leaves the clock and tickslock alone, takes nobody off the CPU
\* with tickslock, and puts nobody to sleep on the clock, keeps ClockInv.
LEMMA ClockKept ==
  ASSUME SwitchInv, ClockInv, tickslock' = tickslock, ticks' = ticks, nap' = nap,
         tick' # tick => tick' # "wake" /\ tick # "wake",
         \A s \in Slots : pc'[s] \in {"tloop", "tsleep"} => pc'[s] = pc[s],
         \A s \in Slots : pc[s] = "tslept" /\ state'[s] = "SLEEPING" => pc'[s] = "tslept",
         tickslock \in CPUs /\ cpuproc[tickslock] # Null =>
           cpuproc'[tickslock] = cpuproc[tickslock],
         \A s \in Slots : state'[s] = "SLEEPING" /\ chan'[s] = TicksChan =>
           state[s] = "SLEEPING" /\ chan[s] = TicksChan
  PROVE  ClockInv'
<1>1. tick' = "wake" <=> tick = "wake"
  BY Zenon
<1>2. \A s \in Slots : Elapsed(s)' = Elapsed(s)
  BY Zenon DEF Elapsed
<1>3. \A s \in Slots : s # Null
  BY ProcTypes, Zenon
<1>4. \A s \in Slots : pc'[s] \in {"tloop", "tsleep"} =>
        tickslock' \in CPUs /\ cpuproc'[tickslock'] = s
  BY <1>3, Zenon DEF ClockInv
<1>5. \A s \in Slots : pc'[s] = "tsleep" => Elapsed(s)' < nap'[s].n
  BY <1>2, Zenon DEF ClockInv
<1>6. \A s \in Slots : state'[s] = "SLEEPING" /\ chan'[s] = TicksChan => pc'[s] = "tslept"
  BY Zenon DEF ClockInv
<1>7. NoMissedTick'
  BY <1>1, <1>2, Zenon DEF ClockInv, NoMissedTick
<1> QED
  BY <1>1, <1>4, <1>5, <1>6, <1>7, Zenon DEF ClockInv

\* A step of a thread misses no tick: sleep() gives tickslock back only when it
\* has ptable.lock.
LEMMA ClockThread ==
  ASSUME SwitchInv, ClockInv, NEW c \in CPUs, NEW p \in Slots, Thread(c, p)
  PROVE  ClockInv'
<1> USE DEF fields, locks, clock, At, On, Goto, EnterSched
<1>0. /\ state \in [Slots -> States] /\ parent \in [Slots -> Slots \cup {Null}]
      /\ np \in [Slots -> Slots \cup {Null}] /\ chan \in [Slots -> 0 .. TicksChan]
      /\ killed \in [Slots -> BOOLEAN]
      /\ InitProc \in Slots /\ Null \notin Slots /\ TicksChan \notin Slots
      /\ \A q \in Slots : pc[q] \in {"stack", "copy", "ready"} =>
           np[q] \in Slots /\ state[np[q]] = "EMBRYO"
  BY ProcTypes, Zenon
<1>a. /\ pc \in [Slots -> PCs] /\ cpuproc \in [CPUs -> Slots \cup {Null}] /\ 0 \in CPUs
      /\ nap \in [Slots -> [t0 : 0 .. TicksMod - 1, n : SleepTimes \cup {0}]]
      /\ Free \notin CPUs /\ Free # 0 /\ TicksChan # 0
  <2>1. Free \notin CPUs /\ Free # 0 /\ TicksChan # 0
    BY NPROCAssumption, NCPUAssumption DEF Free, CPUs, TicksChan
  <2> QED BY <2>1, BootCPU, Zenon DEF SwitchInv, TypeOK
<1>1. CASE Trap(c, p)
  BY <1>0, <1>a, <1>1, ClockKept, Zenon DEF Trap
<1>2. CASE Fault(c, p)
  BY <1>0, <1>a, <1>2, ClockKept, Zenon DEF Fault
<1>3. CASE AllocProc(c, p)
  BY <1>0, <1>a, <1>3, ClockKept, ZenonT(30) DEF AllocProc, FirstUnused
<1>4. CASE AllocProcFull(c, p)
  BY <1>0, <1>a, <1>4, ClockKept, Zenon DEF AllocProcFull
<1>5. CASE AllocStack(c, p)
  BY <1>0, <1>a, <1>5, ClockKept, Zenon DEF AllocStack
<1>6. CASE ForkFails(c, p)
  BY <1>0, <1>a, <1>6, ClockKept, Zenon DEF ForkFails
<1>7. CASE ForkCopy(c, p)
  BY <1>0, <1>a, <1>7, ClockKept, Zenon DEF ForkCopy
<1>8. CASE ForkReady(c, p)
  BY <1>0, <1>a, <1>8, ClockKept, Zenon DEF ForkReady
<1>9. CASE SysExit(c, p)
  BY <1>0, <1>a, <1>9, ClockKept, Zenon DEF SysExit
<1>10. CASE Exit(c, p)
  <2>1. ExitWakeups(p) \in [Slots -> States]
    BY <1>0, WakeupType, Zenon DEF ExitWakeups
  <2>2. \A s \in Slots : ExitWakeups(p)[s] = "SLEEPING" => state[s] = "SLEEPING"
    BY <1>0, Zenon DEF ExitWakeups, Wakeup1
  <2> QED BY <1>0, <1>a, <1>10, <2>1, <2>2, ClockKept, Zenon DEF Exit
<1>11. CASE WaitReap(c, p)
  <2>0. state[p] = "RUNNING"
    BY <1>11, Zenon DEF WaitReap, Scanning
  <2>1. PICK q \in Zombies(p) :
          /\ state' = [state EXCEPT ![q] = "UNUSED"]
          /\ pc' = [pc EXCEPT ![p] = "user", ![q] = "none"]
    BY <1>11, Zenon DEF WaitReap
  <2>2. chan' = [chan EXCEPT ![p] = 0] /\ UNCHANGED <<tickslock, ticks, nap, tick, cpuproc>>
    BY <1>11, Zenon DEF WaitReap
  <2>3. q \in Slots /\ state[q] = "ZOMBIE" /\ q # p
    BY <2>0, Zenon DEF Zombies, Children
  <2> QED BY <1>0, <1>a, <2>0, <2>1, <2>2, <2>3, ClockKept, Zenon
<1>12. CASE WaitFails(c, p)
  BY <1>0, <1>a, <1>12, ClockKept, Zenon DEF WaitFails, Scanning
<1>13. CASE WaitSleep(c, p)
  BY <1>0, <1>a, <1>13, ClockKept, Zenon DEF WaitSleep, Scanning
<1>14. CASE Kill(c, p)
  BY <1>0, <1>a, <1>14, ClockKept, Zenon DEF Kill
<1>15. CASE SysSleep(c, p)
  BY <1>0, <1>a, <1>15, ZenonT(30) DEF SysSleep, ClockInv, NoMissedTick, Elapsed
<1>16. CASE SleepDone(c, p)
  <2>1. tick # "wake"
    BY <1>a, <1>16, Zenon DEF SleepDone, ClockInv, SwitchInv, HandlerOnTop, Preemptible
  <2> QED BY <1>0, <1>a, <1>16, <2>1, ZenonT(30) DEF SleepDone, ClockInv, NoMissedTick,
             Elapsed
<1>17. CASE SleepAgain(c, p)
  BY <1>0, <1>a, <1>17, ZenonT(30) DEF SleepAgain, ClockInv, NoMissedTick, Elapsed
<1>18. CASE Sleep(c, p)
  <2>1. tick # "wake"
    BY <1>a, <1>18, Zenon DEF Sleep, ClockInv, SwitchInv, HandlerOnTop, Preemptible
  <2> QED BY <1>0, <1>a, <1>18, <2>1, ZenonT(30) DEF Sleep, ClockInv, NoMissedTick,
             Elapsed
<1>19. CASE SleepReturns(c, p)
  BY <1>0, <1>a, <1>19, ClockKept, Zenon DEF SleepReturns
<1>20. CASE SleepRelock(c, p)
  BY <1>0, <1>a, <1>20, Zenon DEF SleepRelock, ClockInv, NoMissedTick, Elapsed
<1>21. CASE Timer(c, p)
  BY <1>0, <1>a, <1>21, ClockKept, ZenonT(30) DEF Timer, YieldOrExit, Preemptible
<1>22. CASE Resume(c, p)
  BY <1>0, <1>a, <1>22, ClockKept, Zenon DEF Resume, Preemptible
<1>23. CASE Dispatch(c, p)
  BY <1>0, <1>a, <1>23, ClockKept, Zenon DEF Dispatch
<1> QED
  BY <1>1, <1>2, <1>3, <1>4, <1>5, <1>6, <1>7, <1>8, <1>9, <1>10, <1>11, <1>12, <1>13,
     <1>14, <1>15, <1>16, <1>17, <1>18, <1>19, <1>20, <1>21, <1>22, <1>23, Zenon DEF
     Thread

\* Every step keeps ClockInv: a tick is counted only when nobody is between the
\* test of sys_sleep()'s loop and its sleep.
LEMMA ClockStep == SwitchInv /\ ClockInv /\ [Next]_vars => ClockInv'
<1> SUFFICES ASSUME SwitchInv, ClockInv, [Next]_vars PROVE ClockInv'
  BY Zenon
<1>0. /\ state \in [Slots -> States] /\ parent \in [Slots -> Slots \cup {Null}]
      /\ np \in [Slots -> Slots \cup {Null}] /\ chan \in [Slots -> 0 .. TicksChan]
      /\ killed \in [Slots -> BOOLEAN]
      /\ InitProc \in Slots /\ Null \notin Slots /\ TicksChan \notin Slots
      /\ \A q \in Slots : pc[q] \in {"stack", "copy", "ready"} =>
           np[q] \in Slots /\ state[np[q]] = "EMBRYO"
  BY ProcTypes, ZenonT(30)
<1>a. /\ pc \in [Slots -> PCs] /\ cpuproc \in [CPUs -> Slots \cup {Null}] /\ 0 \in CPUs
      /\ nap \in [Slots -> [t0 : 0 .. TicksMod - 1, n : SleepTimes \cup {0}]]
      /\ Free \notin CPUs /\ Free # 0 /\ TicksChan # 0
  <2>1. Free \notin CPUs /\ Free # 0 /\ TicksChan # 0
    BY NPROCAssumption, NCPUAssumption DEF Free, CPUs, TicksChan
  <2> QED BY <2>1, BootCPU, Zenon DEF SwitchInv, TypeOK
<1>1. ASSUME NEW c \in CPUs, CPU(c) PROVE ClockInv'
  <2>1. CASE InitExiting(c)
    BY <2>1, ClockKept, Zenon DEF InitExiting, fields, locks, clock
  <2>2. CASE Sched(c)
    BY <1>a, <2>2, ClockKept, Zenon DEF Sched, fields, locks, clock, SwitchInv,
       SchedLocked
  <2>3. CASE ScanEnd(c)
    BY <2>3, ClockKept, Zenon DEF ScanEnd, fields, locks, clock
  <2> QED BY <1>1, <2>1, <2>2, <2>3, Zenon DEF CPU
<1>2. CASE Tick
  BY <1>a, <1>2, Zenon DEF Tick, fields, ClockInv, NoMissedTick
<1>3. CASE TickWakeup
  <2>1. \A s \in Slots : pc[s] \notin {"tloop", "tsleep"}
    BY <1>0, <1>a, <1>3, ZenonT(30) DEF TickWakeup, ClockInv, SwitchInv, HandlerOnTop,
       Preemptible
  <2>2. \A s \in Slots : state'[s] = "SLEEPING" => state[s] = "SLEEPING" /\ chan[s] # TicksChan
    BY <1>0, <1>3, Zenon DEF TickWakeup, Wakeup1
  <2> QED BY <1>0, <1>a, <1>3, <2>1, <2>2, Zenon DEF TickWakeup, ClockInv, NoMissedTick
<1>4. CASE TickReturn
  <2>1. cpuproc[0] \in Slots /\ state[cpuproc[0]] = "RUNNING"
    BY <1>a, <1>4 DEF TickReturn, SwitchInv, HandlerOnTop, RunningOnOneCPU
  <2> QED BY <1>0, <1>a, <1>4, <2>1, ClockKept, ZenonT(30) DEF TickReturn, YieldOrExit,
             Goto
<1>5. CASE UNCHANGED vars
  BY <1>5, ClockKept, Zenon DEF vars
<1> QED
  BY <1>1, <1>2, <1>3, <1>4, <1>5, ClockThread, Zenon DEF Next, Halted

\* sys_sleep() misses no tick, for any number of sleepers, CPUs and any modulus
\* of the counter.
THEOREM SleepMissesNoTick == Spec => []NoMissedTick
<1>1. Init => ClockInv
  BY Zenon DEF Init, ClockInv, NoMissedTick
<1>2. ClockInv => NoMissedTick
  BY Zenon DEF ClockInv
<1> QED BY <1>1, <1>2, ClockStep, SwitchInvariant, PTL DEF Spec

----------------------------------------------------------------------------
(* The tree of processes.                                                   *)


\* Who is a parent has neither exited nor been reaped, a complete child knows
\* its parent, and init is process 1 and never exits.
Lineage ==
  /\ \A s \in Slots : parent[s] # Null =>
       state[parent[s]] \notin {"UNUSED", "EMBRYO", "ZOMBIE"}
  /\ \A q \in Slots : pc[q] = "ready" => parent[np[q]] = q
  /\ state[InitProc] # "ZOMBIE" /\ pid[InitProc] = 1

\* A step that ends no process, and changes neither pids, parents nor forks,
\* keeps Lineage.
LEMMA LineageKept ==
  ASSUME SwitchInv, Lineage, parent' = parent, pid' = pid,
         \A s \in Slots : state[s] \notin {"UNUSED", "EMBRYO", "ZOMBIE"} =>
           state'[s] \notin {"UNUSED", "EMBRYO", "ZOMBIE"},
         state[InitProc] # "ZOMBIE" => state'[InitProc] # "ZOMBIE",
         \A q \in Slots : pc'[q] = "ready" => pc[q] = "ready" /\ np'[q] = np[q]
  PROVE  Lineage'
  BY ProcTypes DEF Lineage

\* A step of a thread keeps Lineage: exit() leaves no child behind.
LEMMA LineageThread ==
  ASSUME SwitchInv, PidsApart, Family, Lineage, NEW c \in CPUs, NEW p \in Slots, Thread(c, p)
  PROVE  Lineage'
<1> USE DEF fields, locks, clock, At, On, Goto, EnterSched
<1>0. /\ state \in [Slots -> States] /\ parent \in [Slots -> Slots \cup {Null}]
      /\ np \in [Slots -> Slots \cup {Null}]
      /\ InitProc \in Slots /\ Null \notin Slots /\ pc \in [Slots -> PCs]
      /\ pid \in [Slots -> 0 .. MaxPid]
  BY ProcTypes, Zenon DEF SwitchInv, TypeOK
<1>a. /\ \A q \in Slots : pc[q] \in {"stack", "copy", "ready"} =>
           np[q] \in Slots /\ state[np[q]] = "EMBRYO"
      /\ \A q, r \in Slots :
           (/\ pc[q] \in {"stack", "copy", "ready"}
            /\ pc[r] \in {"stack", "copy", "ready"}
            /\ np[q] = np[r]) => q = r
  BY Zenon DEF SwitchInv, EmbryoOwned, Forking
<1>1. CASE Trap(c, p)
  BY <1>0, <1>1, LineageKept, Zenon DEF Trap
<1>2. CASE Fault(c, p)
  BY <1>0, <1>2, LineageKept, Zenon DEF Fault
<1>3. CASE AllocProc(c, p)
  <2>1. PICK q \in Slots : /\ FirstUnused(q)
                           /\ state' = [state EXCEPT ![q] = "EMBRYO"]
                           /\ pid' = [pid EXCEPT ![q] = nextpid]
                           /\ np' = [np EXCEPT ![p] = q]
    BY <1>3, Zenon DEF AllocProc
  <2>2. q # InitProc
    BY <2>1, Zenon DEF FirstUnused, Family
  <2>3. parent' = parent /\ pc' = [pc EXCEPT ![p] = "stack"]
    BY <1>3, Zenon DEF AllocProc
  <2> QED BY <1>0, <2>1, <2>2, <2>3, Zenon DEF FirstUnused, Lineage
<1>4. CASE AllocProcFull(c, p)
  BY <1>0, <1>4, LineageKept, Zenon DEF AllocProcFull
<1>5. CASE AllocStack(c, p)
  BY <1>0, <1>a, <1>5, LineageKept, Zenon DEF AllocStack
<1>6. CASE ForkFails(c, p)
  BY <1>0, <1>a, <1>6, LineageKept, Zenon DEF ForkFails
<1>7. CASE ForkCopy(c, p)
  BY <1>0, <1>a, <1>7, Zenon DEF ForkCopy, Lineage
<1>8. CASE ForkReady(c, p)
  BY <1>0, <1>a, <1>8, LineageKept, Zenon DEF ForkReady
<1>9. CASE SysExit(c, p)
  BY <1>0, <1>9, LineageKept, Zenon DEF SysExit
<1>10. CASE Exit(c, p)
  <2>1. ExitWakeups(p) \in [Slots -> States]
    BY <1>0, WakeupType, Zenon DEF ExitWakeups
  <2>2. \A s \in Slots : ExitWakeups(p)[s] # state[s] => ExitWakeups(p)[s] = "RUNNABLE"
    BY <1>0, <2>1, Zenon DEF ExitWakeups, Wakeup1
  <2>3. state' = [ExitWakeups(p) EXCEPT ![p] = "ZOMBIE"] /\ p # InitProc
    BY <1>10, Zenon DEF Exit
  <2>4. \A s \in Slots : s # p /\ state[s] \notin {"UNUSED", "EMBRYO", "ZOMBIE"} =>
          state'[s] \notin {"UNUSED", "EMBRYO", "ZOMBIE"}
    BY <1>0, <2>1, <2>2, <2>3, Zenon
  <2>5. /\ parent' = [s \in Slots |-> IF parent[s] = p THEN InitProc ELSE parent[s]]
        /\ pid' = pid /\ np' = np /\ pc' = [pc EXCEPT ![p] = "dead"]
    BY <1>0, <1>10, Zenon DEF Exit, Reparented, Children
  <2>6. state[InitProc] \notin {"UNUSED", "EMBRYO", "ZOMBIE"}
    BY Zenon DEF Family, Lineage
  <2> QED BY <1>0, <1>a, <2>3, <2>4, <2>5, <2>6, Zenon DEF Lineage
<1>11. CASE WaitReap(c, p)
  <2>0. state[p] = "RUNNING"
    BY <1>11, Zenon DEF WaitReap, Scanning
  <2>1. PICK q \in Zombies(p) :
          /\ state' = [state EXCEPT ![q] = "UNUSED"]
          /\ pid' = [pid EXCEPT ![q] = 0]
          /\ parent' = [parent EXCEPT ![q] = Null]
          /\ pc' = [pc EXCEPT ![p] = "user", ![q] = "none"]
    BY <1>11, Zenon DEF WaitReap
  <2>2. np' = np
    BY <1>11, Zenon DEF WaitReap
  <2>3. q \in Slots /\ state[q] = "ZOMBIE" /\ q # p /\ q # InitProc
    BY <2>0, Zenon DEF Zombies, Children, Lineage
  <2> QED BY <1>0, <1>a, <2>1, <2>2, <2>3, Zenon DEF Lineage
<1>12. CASE WaitFails(c, p)
  BY <1>0, <1>12, LineageKept, Zenon DEF WaitFails, Scanning
<1>13. CASE WaitSleep(c, p)
  BY <1>0, <1>13, LineageKept, Zenon DEF WaitSleep, Scanning
<1>14. CASE Kill(c, p)
  BY <1>0, <1>14, LineageKept DEF Kill
<1>15. CASE SysSleep(c, p)
  BY <1>0, <1>15, LineageKept, Zenon DEF SysSleep
<1>16. CASE SleepDone(c, p)
  BY <1>0, <1>16, LineageKept, Zenon DEF SleepDone
<1>17. CASE SleepAgain(c, p)
  BY <1>0, <1>17, LineageKept, Zenon DEF SleepAgain
<1>18. CASE Sleep(c, p)
  BY <1>0, <1>18, LineageKept, Zenon DEF Sleep
<1>19. CASE SleepReturns(c, p)
  BY <1>0, <1>19, LineageKept, Zenon DEF SleepReturns
<1>20. CASE SleepRelock(c, p)
  BY <1>0, <1>20, LineageKept, Zenon DEF SleepRelock
<1>21. CASE Timer(c, p)
  BY <1>0, <1>21, LineageKept DEF Timer, YieldOrExit
<1>22. CASE Resume(c, p)
  BY <1>0, <1>22, LineageKept, Zenon DEF Resume
<1>23. CASE Dispatch(c, p)
  BY <1>0, <1>23, LineageKept, Zenon DEF Dispatch
<1> QED
  BY <1>1, <1>2, <1>3, <1>4, <1>5, <1>6, <1>7, <1>8, <1>9, <1>10, <1>11, <1>12, <1>13,
     <1>14, <1>15, <1>16, <1>17, <1>18, <1>19, <1>20, <1>21, <1>22, <1>23, ZenonT(30)
     DEF Thread

\* The steps of the scheduler and of the timer, and stuttering: they change no
\* pid, no parent and no fork, and at most make a sleeping or running process
\* RUNNABLE.
CPUStep ==
  \/ \E c \in CPUs : InitExiting(c) \/ Sched(c) \/ ScanEnd(c)
  \/ Tick \/ TickWakeup \/ TickReturn
  \/ UNCHANGED vars

\* What a step of the scheduler or of the timer leaves alone.
LEMMA CPUFrame ==
  ASSUME SwitchInv, CPUStep
  PROVE  /\ pid' = pid /\ parent' = parent /\ nextpid' = nextpid /\ np' = np
         /\ \A s \in Slots : \/ state'[s] = state[s]
                             \/ state[s] \in {"SLEEPING", "RUNNING"} /\ state'[s] = "RUNNABLE"
         /\ \A q \in Slots : pc'[q] = "ready" => pc[q] = "ready"
<1>0. state \in [Slots -> States] /\ pc \in [Slots -> PCs]
  BY Zenon DEF SwitchInv, TypeOK
<1>1. ASSUME NEW c \in CPUs, InitExiting(c) \/ Sched(c) \/ ScanEnd(c)
      PROVE  UNCHANGED <<fields, np, pc>>
  BY <1>1, Zenon DEF InitExiting, Sched, ScanEnd
<1>2. CASE Tick
  BY <1>2, Zenon DEF Tick, fields
<1>3. CASE TickWakeup
  BY <1>0, <1>3, Zenon DEF TickWakeup, Wakeup1
<1>4. CASE TickReturn
  <2>1. cpuproc[0] \in Slots /\ state[cpuproc[0]] = "RUNNING"
    BY <1>4, BootCPU, Zenon DEF TickReturn, SwitchInv, TypeOK, HandlerOnTop,
       RunningOnOneCPU
  <2> QED BY <1>0, <1>4, <2>1, Zenon DEF TickReturn, YieldOrExit, Goto
<1>5. CASE UNCHANGED vars
  BY <1>5, Zenon DEF vars
<1> QED BY <1>1, <1>2, <1>3, <1>4, <1>5, Zenon DEF CPUStep, fields

\* Every step is one of a thread or of the scheduler and the timer.
LEMMA Steps ==
  ASSUME [Next]_vars
  PROVE  CPUStep \/ \E c \in CPUs, p \in Slots : Thread(c, p)
  BY Zenon DEF Next, CPU, Halted, CPUStep

\* Every step of the kernel keeps Lineage.
LEMMA LineageStep ==
  SwitchInv /\ PidsApart /\ Family /\ Lineage /\ [Next]_vars => Lineage'
<1> SUFFICES ASSUME SwitchInv, PidsApart, Family, Lineage, [Next]_vars PROVE Lineage'
  BY Zenon
<1>1. CASE CPUStep
  BY <1>1, CPUFrame, LineageKept, InitSlot, Zenon
<1> QED BY <1>1, Steps, LineageThread, Zenon

\* What makes the table a tree of processes.
TreeInv ==
  /\ state \in [Slots -> States] /\ pid \in [Slots -> 0 .. MaxPid]
  /\ parent \in [Slots -> Slots \cup {Null}]
  /\ nextpid \in 1 .. MaxPid + 1
  /\ PidsApart /\ Family /\ Lineage

----------------------------------------------------------------------------
(* The refinement.                                                          *)

\* A live slot stands for one process of the tree.
LEMMA TreeView ==
  TreeInv => /\ \A s \in Live : treePar[pid[s]] = parentPid(s)
             /\ \A s, t \in Live : pid[s] = pid[t] => s = t
             /\ treePar = [k \in treeProcs |-> treePar[k]]
<1> SUFFICES ASSUME TreeInv
             PROVE  /\ \A s \in Live : treePar[pid[s]] = parentPid(s)
                    /\ \A s, t \in Live : pid[s] = pid[t] => s = t
                    /\ treePar = [k \in treeProcs |-> treePar[k]]
  BY Zenon
<1>1. \A s, t \in Live : pid[s] = pid[t] => s = t
  BY Zenon DEF TreeInv, PidsApart, Live
<1>2. ASSUME NEW s \in Live PROVE treePar[pid[s]] = parentPid(s)
  <2>1. (CHOOSE t \in Live : pid[t] = pid[s]) = s
    BY <1>1, Zenon
  <2>2. pid[s] \in treeProcs
    BY Zenon DEF treeProcs
  <2> QED BY <2>1, <2>2, Zenon DEF treePar
<1>3. treePar = [k \in treeProcs |-> treePar[k]]
  BY DEF treePar
<1> QED BY <1>1, <1>2, <1>3, Zenon

\* The same after a step.
LEMMA TreeViewNext ==
  ASSUME TreeInv'
  PROVE  /\ \A s \in Live' : treePar'[pid'[s]] = parentPid(s)'
         /\ \A s, t \in Live' : pid'[s] = pid'[t] => s = t
         /\ treePar' = [k \in treeProcs' |-> treePar'[k]]
<1> SUFFICES ASSUME TreeInv'
             PROVE  (/\ \A s \in Live : treePar[pid[s]] = parentPid(s)
                     /\ \A s, t \in Live : pid[s] = pid[t] => s = t
                     /\ treePar = [k \in treeProcs |-> treePar[k]])'
  BY Zenon
<1> QED BY TreeView, PTL

\* A step that starts, ends and reaps no process leaves the tree alone.
LEMMA TreeSame ==
  ASSUME TreeInv, TreeInv', pid' = pid, nextpid' = nextpid,
         \A s \in Live : parent'[s] = parent[s],
         \A s \in Slots : \/ state'[s] = state[s]
                          \/ {state[s], state'[s]} \cap {"UNUSED", "EMBRYO", "ZOMBIE"} = {}
  PROVE  UNCHANGED Tree!tvars
<1>1. Live' = Live
  BY Zenon DEF Live
<1>2. treeProcs' = treeProcs
  BY <1>1, Zenon DEF treeProcs
<1>3. treeZombies' = treeZombies
  BY Zenon DEF treeZombies
<1>4. treeUsed' = treeUsed
  BY Zenon DEF treeUsed
<1>5. \A k \in treeProcs : treePar'[k] = treePar[k]
  BY <1>1, TreeView, TreeViewNext DEF treeProcs, parentPid
<1>6. treePar' = treePar
  BY <1>2, <1>5, TreeView, TreeViewNext, ZenonT(30)
<1> QED BY <1>2, <1>3, <1>4, <1>6, Zenon DEF Tree!tvars

\* A fork that ends, with a process or without, gives up one pid: its own.
LEMMA EmbryoEnds ==
  ASSUME NEW q \in Slots, state[q] = "EMBRYO", state \in [Slots -> States], pid' = pid,
         NEW l, l # "EMBRYO", state' = [state EXCEPT ![q] = l],
         \A s, t \in Slots : state[s] # "UNUSED" /\ pid[s] = pid[t] => s = t
  PROVE  /\ {pid'[s] : s \in {t \in Slots : state'[t] = "EMBRYO"}}
              = {pid[s] : s \in {t \in Slots : state[t] = "EMBRYO"}} \ {pid[q]}
         /\ pid[q] \in {pid[s] : s \in {t \in Slots : state[t] = "EMBRYO"}}
<1>1. \A t \in Slots : state'[t] = "EMBRYO" <=> state[t] = "EMBRYO" /\ t # q
  BY Zenon
<1>2. {t \in Slots : state'[t] = "EMBRYO"} = {t \in Slots : state[t] = "EMBRYO"} \ {q}
  BY <1>1, Zenon
<1>3. \A t \in Slots : state[t] = "EMBRYO" /\ t # q => pid[t] # pid[q]
  BY Zenon
<1> PICK E : E = {t \in Slots : state[t] = "EMBRYO"}
  BY Zenon
<1>4. q \in E /\ \A t \in E \ {q} : pid[t] # pid[q]
  BY <1>3, Zenon
<1>5. {pid[s] : s \in E \ {q}} = {pid[s] : s \in E} \ {pid[q]} /\ pid[q] \in {pid[s] : s \in E}
  BY <1>4, Zenon
<1>6. {pid'[s] : s \in {t \in Slots : state'[t] = "EMBRYO"}} = {pid[s] : s \in E \ {q}}
  BY <1>2, Zenon
<1> QED BY <1>5, <1>6, Zenon

\* A step of a thread is a step of the tree or leaves it alone: a fork appears
\* with ForkReady, or uses up its pid with ForkFails.
LEMMA TreeThread ==
  ASSUME SwitchInv, TreeInv, TreeInv', NEW c \in CPUs, NEW p \in Slots, Thread(c, p)
  PROVE  [Tree!TreeNext]_(Tree!tvars)
<1> USE DEF fields, locks, clock, At, On, Goto, EnterSched
<1>0. /\ state \in [Slots -> States] /\ parent \in [Slots -> Slots \cup {Null}]
      /\ np \in [Slots -> Slots \cup {Null}]
      /\ InitProc \in Slots /\ Null \notin Slots /\ pc \in [Slots -> PCs]
      /\ pid \in [Slots -> 0 .. MaxPid]
  BY ProcTypes, Zenon DEF SwitchInv, TypeOK
<1>a. /\ \A q \in Slots : pc[q] \in {"stack", "copy", "ready"} =>
           np[q] \in Slots /\ state[np[q]] = "EMBRYO"
      /\ \A q, r \in Slots :
           (/\ pc[q] \in {"stack", "copy", "ready"}
            /\ pc[r] \in {"stack", "copy", "ready"}
            /\ np[q] = np[r]) => q = r
  BY Zenon DEF SwitchInv, EmbryoOwned, Forking
<1>b. nextpid \in 1 .. MaxPid + 1 /\ MaxPid \in Nat /\ PidsApart
  BY MaxPidAssumption, Zenon DEF TreeInv
<1>c. ASSUME NEW i \in 1 .. MaxPid, NEW j \in 1 .. MaxPid,
             \/ Tree!TreeFork(i, j) \/ Tree!TreeForkFails(j)
             \/ Tree!TreeExit(i) \/ Tree!TreeWait(i, j)
      PROVE  Tree!TreeNext
  BY <1>c, Zenon DEF Tree!TreeNext
<1>d. \A s \in Slots : state[s] # "UNUSED" => pid[s] \in 1 .. MaxPid /\ pid[s] < nextpid
  BY <1>0, <1>b DEF PidsApart
<1>e. ASSUME NEW s \in Live PROVE s \in Slots /\ state[s] # "UNUSED" /\ state[s] # "EMBRYO"
  BY Zenon DEF Live
<1>g. \A s, q \in Slots : state[s] # "UNUSED" /\ pid[s] = pid[q] => s = q
  BY <1>d, Zenon DEF TreeInv, PidsApart
<1>h. Lineage
  BY Zenon DEF TreeInv
<1>1. CASE Trap(c, p)
  BY <1>0, <1>1, TreeSame, Zenon DEF Trap
<1>2. CASE Fault(c, p)
  BY <1>0, <1>2, TreeSame, Zenon DEF Fault
<1>3. CASE AllocProc(c, p)
  <2>1. PICK q \in Slots : /\ state[q] = "UNUSED"
                           /\ state' = [state EXCEPT ![q] = "EMBRYO"]
                           /\ pid' = [pid EXCEPT ![q] = nextpid]
    BY <1>3, Zenon DEF AllocProc, FirstUnused
  <2>2. parent' = parent /\ nextpid' = nextpid + 1
    BY <1>3, Zenon DEF AllocProc, NextPid
  <2>3. Live' = Live /\ q \notin Live
    BY <1>0, <2>1, Zenon DEF Live
  <2>4. treeProcs' = treeProcs
    BY <1>0, <1>e, <2>1, <2>3 DEF treeProcs
  <2>5. treeZombies' = treeZombies
    BY <1>0, <2>1, Zenon DEF treeZombies
  <2>6. treeUsed' = treeUsed
    <3>1. {pid'[s] : s \in {t \in Slots : state'[t] = "EMBRYO"}}
            = {pid[s] : s \in {t \in Slots : state[t] = "EMBRYO"}} \cup {nextpid}
      BY <1>0, <2>1, Zenon
    <3>2. 1 .. nextpid' - 1 = (1 .. nextpid - 1) \cup {nextpid}
      BY <1>b, <2>2
    <3>3. nextpid \notin 1 .. nextpid - 1
      BY <1>b
    <3> QED BY <3>1, <3>2, <3>3, Zenon DEF treeUsed
  <2>7. \A s \in Live : parentPid(s)' = parentPid(s) /\ pid'[s] = pid[s]
    BY <1>0, <1>e, <1>h, <2>1, <2>2, Zenon DEF parentPid, Lineage
  <2>8. \A k \in treeProcs : treePar'[k] = treePar[k]
    BY <2>3, <2>7, TreeView, TreeViewNext DEF treeProcs
  <2>9. treePar' = treePar
    BY <2>4, <2>8, TreeView, TreeViewNext, Zenon
  <2> QED BY <2>4, <2>5, <2>6, <2>9, Zenon DEF Tree!tvars
<1>4. CASE AllocProcFull(c, p)
  BY <1>0, <1>4, TreeSame, Zenon DEF AllocProcFull
<1>5. CASE AllocStack(c, p)
  BY <1>0, <1>a, <1>5, TreeSame, Zenon DEF AllocStack
<1>6. CASE ForkFails(c, p)
  <2> DEFINE q == np[p]
             k == pid[q]
  <2>1. /\ q \in Slots /\ state[q] = "EMBRYO" /\ state' = [state EXCEPT ![q] = "UNUSED"]
        /\ pid' = pid /\ parent' = parent /\ nextpid' = nextpid
    BY <1>a, <1>6, Zenon DEF ForkFails
  <2>2. Live' = Live
    BY <1>0, <2>1, Zenon DEF Live
  <2>3. treeProcs' = treeProcs /\ treeZombies' = treeZombies
    BY <1>0, <2>1, <2>2 DEF treeProcs, treeZombies
  <2>4. \A i \in treeProcs : treePar'[i] = treePar[i]
    BY <2>1, <2>2, TreeView, TreeViewNext DEF treeProcs, parentPid
  <2>5. treePar' = treePar
    BY <2>3, <2>4, TreeView, TreeViewNext, ZenonT(30)
  <2>6. k \in 1 .. MaxPid /\ k \in 1 .. nextpid - 1
    BY <1>b, <1>d, <2>1
  <2>7. /\ {pid'[s] : s \in {t \in Slots : state'[t] = "EMBRYO"}}
             = {pid[s] : s \in {t \in Slots : state[t] = "EMBRYO"}} \ {k}
        /\ k \in {pid[s] : s \in {t \in Slots : state[t] = "EMBRYO"}}
    BY <1>0, <1>g, <2>1, EmbryoEnds, Zenon
  <2>8. k \notin treeUsed /\ treeUsed' = treeUsed \cup {k}
    BY <2>1, <2>6, <2>7, Zenon DEF treeUsed
  <2>9. Tree!TreeForkFails(k)
    BY <2>3, <2>5, <2>6, <2>8, Zenon DEF Tree!TreeForkFails
  <2> QED BY <1>c, <2>6, <2>9, Zenon
<1>7. CASE ForkCopy(c, p)
  BY <1>0, <1>a, <1>e, <1>7, TreeSame, Zenon DEF ForkCopy
<1>8. CASE ForkReady(c, p)
  <2> DEFINE q == np[p]
             k == pid[q]
  <2>1. /\ q \in Slots /\ state[q] = "EMBRYO" /\ state' = [state EXCEPT ![q] = "RUNNABLE"]
        /\ pid' = pid /\ parent' = parent /\ nextpid' = nextpid
        /\ parent[q] = p /\ state[p] = "RUNNING"
    BY <1>a, <1>h, <1>8, Zenon DEF ForkReady, Lineage
  <2>2. Live' = Live \cup {q} /\ q \notin Live /\ p \in Live
    BY <1>0, <2>1 DEF Live
  <2>3. treeProcs' = treeProcs \cup {k} /\ treeZombies' = treeZombies
    BY <1>0, <2>1, <2>2 DEF treeProcs, treeZombies
  <2>4. k \notin treeProcs
    BY <1>e, <1>g, <2>1, <2>2, Zenon DEF treeProcs
  <2>5. \A i \in treeProcs : treePar'[i] = treePar[i]
    BY <2>1, <2>2, TreeView, TreeViewNext DEF treeProcs, parentPid
  <2>6. treePar'[k] = pid[p]
    BY <1>0, <2>1, <2>2, TreeViewNext DEF parentPid
  <2>7. treePar' = [i \in treeProcs \cup {k} |-> IF i = k THEN pid[p] ELSE treePar[i]]
    BY <2>3, <2>4, <2>5, <2>6, TreeViewNext, Zenon
  <2>8. k \in 1 .. MaxPid /\ k \in 1 .. nextpid - 1 /\ pid[p] \in 1 .. MaxPid
    BY <1>b, <1>d, <2>1
  <2>9. /\ {pid'[s] : s \in {t \in Slots : state'[t] = "EMBRYO"}}
             = {pid[s] : s \in {t \in Slots : state[t] = "EMBRYO"}} \ {k}
        /\ k \in {pid[s] : s \in {t \in Slots : state[t] = "EMBRYO"}}
    BY <1>0, <1>g, <2>1, EmbryoEnds, Zenon
  <2>10. k \notin treeUsed /\ treeUsed' = treeUsed \cup {k}
    BY <2>1, <2>8, <2>9, Zenon DEF treeUsed
  <2>11. pid[p] \in treeProcs \ treeZombies
    BY <1>g, <2>1, <2>2, Zenon DEF treeProcs, treeZombies
  <2>12. Tree!TreeFork(pid[p], k)
    BY <2>3, <2>7, <2>8, <2>10, <2>11, Zenon DEF Tree!TreeFork
  <2> QED BY <1>c, <2>8, <2>12, Zenon
<1>9. CASE SysExit(c, p)
  BY <1>0, <1>9, TreeSame, Zenon DEF SysExit
<1>10. CASE Exit(c, p)
  <2>1. ExitWakeups(p) \in [Slots -> States]
    BY <1>0, WakeupType, Zenon DEF ExitWakeups
  <2>2. \A s \in Slots : ExitWakeups(p)[s] # state[s] =>
          state[s] = "SLEEPING" /\ ExitWakeups(p)[s] = "RUNNABLE"
    BY <1>0, <2>1, Zenon DEF ExitWakeups, Wakeup1
  <2>3. /\ state'[p] = "ZOMBIE" /\ p # InitProc /\ state[p] = "RUNNING"
        /\ \A s \in Slots \ {p} : \/ state'[s] = state[s]
                                  \/ state[s] = "SLEEPING" /\ state'[s] = "RUNNABLE"
    BY <1>0, <1>10, <2>1, <2>2, Zenon DEF Exit
  <2>4. /\ parent' = [s \in Slots |-> IF parent[s] = p THEN InitProc ELSE parent[s]]
        /\ pid' = pid /\ nextpid' = nextpid
    BY <1>0, <1>10, Zenon DEF Exit, Reparented, Children
  <2>5. Live' = Live /\ p \in Live
    BY <1>0, <2>3, Zenon DEF Live
  <2>6. treeProcs' = treeProcs /\ treeZombies' = treeZombies \cup {pid[p]}
    BY <1>0, <2>3, <2>4, <2>5 DEF treeProcs, treeZombies
  <2>7. treeUsed' = treeUsed
    BY <1>0, <2>3, <2>4, ZenonT(30) DEF treeUsed
  <2>8. pid[InitProc] = 1 /\ pid[p] # 1 /\ pid[p] \in 1 .. MaxPid
    BY <1>0, <1>d, <1>g, <1>h, <2>3, Zenon DEF Lineage
  <2>9. pid[p] \in treeProcs \ (treeZombies \cup {1})
    BY <1>g, <2>3, <2>5, <2>8, Zenon DEF treeProcs, treeZombies
  <2>10. \A s \in Live : (parentPid(s) = pid[p]) <=> (parent[s] = p)
    BY <1>0, <1>d, <1>e, <1>g, <2>3 DEF parentPid
  <2>11. \A s \in Live : parentPid(s)' = IF parent[s] = p THEN 1 ELSE parentPid(s)
    BY <1>0, <1>e, <2>4, <2>8, Zenon DEF parentPid
  <2>12. \A i \in treeProcs : treePar'[i] = IF treePar[i] = pid[p] THEN 1 ELSE treePar[i]
    BY <2>4, <2>5, <2>10, <2>11, TreeView, TreeViewNext DEF treeProcs
  <2>13. treePar' = [i \in treeProcs |-> IF treePar[i] = pid[p] THEN 1 ELSE treePar[i]]
    BY <2>6, <2>12, TreeViewNext, Zenon
  <2>14. Tree!TreeExit(pid[p])
    BY <2>6, <2>7, <2>9, <2>13, Zenon DEF Tree!TreeExit, Tree!InitPid
  <2> QED BY <1>c, <2>8, <2>14, Zenon
<1>11. CASE WaitReap(c, p)
  <2>0. state[p] = "RUNNING" /\ nextpid' = nextpid
    BY <1>11, Zenon DEF WaitReap, Scanning
  <2>1. PICK q \in Zombies(p) :
          /\ state' = [state EXCEPT ![q] = "UNUSED"]
          /\ pid' = [pid EXCEPT ![q] = 0]
          /\ parent' = [parent EXCEPT ![q] = Null]
    BY <1>11, Zenon DEF WaitReap
  <2> DEFINE k == pid[q]
  <2>2. q \in Slots /\ state[q] = "ZOMBIE" /\ q # p /\ parent[q] = p
    BY <2>0, Zenon DEF Zombies, Children
  <2>3. Live' = Live \ {q} /\ q \in Live /\ p \in Live
    BY <1>0, <2>0, <2>1, <2>2, Zenon DEF Live
  <2>4. \A s \in Slots \ {q} : pid[s] # k /\ pid'[s] = pid[s] /\ parent'[s] = parent[s]
    BY <1>0, <1>g, <2>1, <2>2, Zenon
  <2>5. treeProcs' = treeProcs \ {k}
    BY <1>e, <2>3, <2>4, Zenon DEF treeProcs
  <2>6. treeZombies' = treeZombies \ {k} /\ k \in treeZombies
    <3>1. state' = [state EXCEPT ![q] = "UNUSED"] /\ state'[q] = "UNUSED"
      BY <1>0, <2>1, <2>2, Zenon
    <3>2. \A s \in Slots \ {q} : state'[s] = state[s]
      BY <1>0, <2>1, Zenon
    <3> QED BY <2>2, <2>4, <3>1, <3>2, Zenon DEF treeZombies
  <2>7. treeUsed' = treeUsed
    <3>1. state'[q] = "UNUSED"
      BY <1>0, <2>1, <2>2, Zenon
    <3>2. \A s \in Slots \ {q} : state'[s] = state[s]
      BY <1>0, <2>1, Zenon
    <3>3. {pid'[s] : s \in {t \in Slots : state'[t] = "EMBRYO"}}
            = {pid[s] : s \in {t \in Slots : state[t] = "EMBRYO"}}
      BY <2>2, <2>4, <3>1, <3>2, Zenon
    <3> QED BY <2>0, <3>3, Zenon DEF treeUsed
  <2>8. \A s \in Live : parent[s] # q
    BY <1>0, <1>e, <1>h, <2>2, Zenon DEF Lineage
  <2>9. \A s \in Live \ {q} : parentPid(s)' = parentPid(s) /\ pid'[s] = pid[s]
    BY <1>0, <1>e, <2>4, <2>8, ZenonT(30) DEF parentPid
  <2>10. \A i \in treeProcs \ {k} : treePar'[i] = treePar[i]
    BY <2>3, <2>9, TreeView, TreeViewNext DEF treeProcs
  <2>11. treePar' = [i \in treeProcs \ {k} |-> treePar[i]]
    BY <2>5, <2>10, TreeViewNext, Zenon
  <2>12. treePar[k] = pid[p]
    BY <1>0, <2>2, <2>3, TreeView, Zenon DEF parentPid
  <2>13. k \in 1 .. MaxPid /\ pid[p] \in 1 .. MaxPid
    BY <1>d, <2>0, <2>2, ZenonT(30)
  <2>14. pid[p] \in treeProcs \ treeZombies
    BY <1>g, <2>0, <2>3, Zenon DEF treeProcs, treeZombies
  <2>15. Tree!TreeWait(pid[p], k)
    BY <2>5, <2>6, <2>7, <2>11, <2>12, <2>14, Zenon DEF Tree!TreeWait
  <2> QED BY <1>c, <2>13, <2>15, Zenon
<1>12. CASE WaitFails(c, p)
  BY <1>0, <1>12, TreeSame, Zenon DEF WaitFails, Scanning
<1>13. CASE WaitSleep(c, p)
  BY <1>0, <1>13, TreeSame, Zenon DEF WaitSleep, Scanning
<1>14. CASE Kill(c, p)
  BY <1>0, <1>14, TreeSame, ZenonT(30) DEF Kill
<1>15. CASE SysSleep(c, p)
  BY <1>0, <1>15, TreeSame, Zenon DEF SysSleep
<1>16. CASE SleepDone(c, p)
  BY <1>0, <1>16, TreeSame, Zenon DEF SleepDone
<1>17. CASE SleepAgain(c, p)
  BY <1>0, <1>17, TreeSame, Zenon DEF SleepAgain
<1>18. CASE Sleep(c, p)
  BY <1>0, <1>18, TreeSame, Zenon DEF Sleep
<1>19. CASE SleepReturns(c, p)
  BY <1>0, <1>19, TreeSame, Zenon DEF SleepReturns
<1>20. CASE SleepRelock(c, p)
  BY <1>0, <1>20, TreeSame, Zenon DEF SleepRelock
<1>21. CASE Timer(c, p)
  BY <1>0, <1>21, TreeSame, Zenon DEF Timer, YieldOrExit
<1>22. CASE Resume(c, p)
  BY <1>0, <1>22, TreeSame, Zenon DEF Resume
<1>23. CASE Dispatch(c, p)
  BY <1>0, <1>23, TreeSame, Zenon DEF Dispatch
<1> QED
  BY <1>1, <1>2, <1>3, <1>4, <1>5, <1>6, <1>7, <1>8, <1>9, <1>10, <1>11, <1>12, <1>13,
     <1>14, <1>15, <1>16, <1>17, <1>18, <1>19, <1>20, <1>21, <1>22, <1>23, Zenon DEF
     Thread

\* Every step of the kernel is a step of the tree or leaves it alone.
LEMMA TreeStep ==
  SwitchInv /\ TreeInv /\ TreeInv' /\ [Next]_vars => [Tree!TreeNext]_(Tree!tvars)
<1> SUFFICES ASSUME SwitchInv, TreeInv, TreeInv', [Next]_vars
             PROVE  [Tree!TreeNext]_(Tree!tvars)
  BY Zenon
<1>1. CASE CPUStep
  BY <1>1, CPUFrame, TreeSame, Zenon
<1> QED BY <1>1, Steps, TreeThread, Zenon

\* userinit() makes the tree of one process.
LEMMA TreeStart == Init => TreeInv /\ Tree!TreeInit
<1> SUFFICES ASSUME Init PROVE TreeInv /\ Tree!TreeInit
  BY Zenon
<1>1. TreeInv
  <2>1. TypeOK
    BY TypeInit, Zenon
  <2>2. PidsApart
    BY NPROCAssumption DEF Init, PidsApart, Slots, InitProc
  <2>3. Family
    BY InitSlot, NPROCAssumption DEF Init, Family, Null, Slots, InitProc
  <2>4. Lineage
    BY InitSlot, Zenon DEF Init, Lineage
  <2> QED BY <2>1, <2>2, <2>3, <2>4, Zenon DEF TreeInv, TypeOK
<1>2. Live = {InitProc} /\ pid[InitProc] = 1 /\ parentPid(InitProc) = 0
  BY InitSlot, Zenon DEF Init, Live, parentPid
<1>3. treeProcs = {1} /\ treeZombies = {}
  BY <1>2, Zenon DEF treeProcs, treeZombies, Init
<1>4. treeUsed = {1}
  BY DEF treeUsed, Init
<1>5. treePar[1] = 0
  BY <1>1, <1>2, TreeView, Zenon
<1>6. treePar = [k \in {1} |-> 0]
  BY <1>1, <1>3, <1>5, TreeView, Zenon
<1> QED BY <1>1, <1>3, <1>4, <1>6, Zenon DEF Tree!TreeInit, Tree!InitPid

\* The process table implements the tree of processes.
THEOREM ProcImplementsTree == Spec => ImplementsTree
<1>1. SwitchInv /\ SwitchInv' /\ NoMissedExit /\ TreeInv /\ [Next]_vars => TreeInv'
  <2> SUFFICES ASSUME SwitchInv, SwitchInv', NoMissedExit, TreeInv, [Next]_vars PROVE TreeInv'
    BY Zenon
  <2>1. PidsApart' /\ Family' /\ Lineage'
    BY PidsStep, ExitStep, LineageStep, Zenon DEF TreeInv
  <2> QED BY <2>1, Zenon DEF TreeInv, SwitchInv, TypeOK
<1> QED
  BY <1>1, TreeStart, TreeStep, SwitchInvariant, WaitMissesNoExit, PTL
     DEF Spec, ImplementsTree, Tree!TreeSpec

=============================================================================
