----------------------------- MODULE Semaphore -----------------------------
(***************************************************************************)
(* The counting semaphores of xv6-ASA (proc.c, "LAB 4"): one semaphore,    *)
(* its users, and the part of the scheduler that their state changes meet. *)
(*                                                                         *)
(* The calls take no lock: the compiled value-- is a load and a store, and *)
(* the use of the list is cut into steps of its own, with the shift of the *)
(* list as one.  A process is executed by the CPU whose c->proc points to  *)
(* it, whatever its state says.                                            *)
(***************************************************************************)
EXTENDS Integers, FiniteSets

CONSTANTS
  Procs,    \* the processes that use the semaphore
  CPUs,
  V,        \* the v given to semaphore_initialize
  LISTLEN   \* entries in semaphore.list

NoProc == "none"
Index == 0 .. LISTLEN - 1

VARIABLES
  state,          \* p->state
  cpuproc,        \* c->proc
  value, num_of_procs, list,   \* fields of the semaphore
  pc,             \* where each process is
  tmp             \* its locals: the value it computed, the index it uses

sem == <<value, num_of_procs, list>>
vars == <<state, cpuproc, value, num_of_procs, list, pc, tmp>>

TypeOK ==
  /\ state \in [Procs -> {"SLEEPING", "RUNNABLE", "RUNNING"}]
  /\ cpuproc \in [CPUs -> Procs \cup {NoProc}]
  /\ value \in Int /\ num_of_procs \in Int
  /\ list \in [Index -> Procs \cup {NoProc}]
  /\ pc \in [Procs -> {"out", "dec", "test", "enqueue", "sleep", "count", "in",
                       "inc", "rtest", "wake", "shift"}]
  /\ tmp \in [Procs -> [v : Int, n : Int]]

\* semaphore_initialize(sid, V, m)
Init ==
  /\ state = [p \in Procs |-> "RUNNABLE"]
  /\ cpuproc = [c \in CPUs |-> NoProc]
  /\ value = V
  /\ num_of_procs = 0
  /\ list = [i \in Index |-> NoProc]
  /\ pc = [p \in Procs |-> "out"]
  /\ tmp = [p \in Procs |-> [v |-> 0, n |-> 0]]

\* Process p, executed by some CPU, goes from l to m.
Step(p, l, m) ==
  /\ \E c \in CPUs : cpuproc[c] = p
  /\ pc[p] = l
  /\ pc' = [pc EXCEPT ![p] = m]
  /\ UNCHANGED cpuproc

SetState(p, s) ==
  state' = [q \in Procs |-> IF q = p THEN s ELSE state[q]]

----------------------------------------------------------------------------
(* semaphore_aquire(sid)                                                    *)

AquireLoad(p) ==
  /\ Step(p, "out", "dec")
  /\ tmp' = [tmp EXCEPT ![p].v = value - 1]
  /\ UNCHANGED <<state, sem>>

AquireStore(p) ==
  /\ Step(p, "dec", "test")
  /\ value' = tmp[p].v
  /\ UNCHANGED <<state, num_of_procs, list, tmp>>

\* The value that a test after the update looks at: proc.c reads it again, and
\* the compiler may keep what was stored instead.
Seen(p) == {value, tmp[p].v}

\* num_of_procs is read, and a negative value leads to the queue.
AquireTest(p) ==
  /\ \E v \in Seen(p) : Step(p, "test", IF v < 0 THEN "enqueue" ELSE "in")
  /\ tmp' = [tmp EXCEPT ![p].n = num_of_procs]
  /\ UNCHANGED <<state, sem>>

AquireEnqueue(p) ==
  /\ Step(p, "enqueue", "sleep")
  /\ tmp[p].n \in Index
  /\ list' = [list EXCEPT ![tmp[p].n] = p]
  /\ UNCHANGED <<state, value, num_of_procs, tmp>>

\* list[n]->state = SLEEPING, without a call of sched()
AquireSleep(p) ==
  /\ Step(p, "sleep", "count")
  /\ SetState(list[tmp[p].n], "SLEEPING")
  /\ UNCHANGED <<sem, tmp>>

AquireCount(p) ==
  /\ Step(p, "count", "in")
  /\ num_of_procs' = num_of_procs + 1
  /\ UNCHANGED <<state, value, list, tmp>>

----------------------------------------------------------------------------
(* semaphore_release(sid)                                                   *)

ReleaseLoad(p) ==
  /\ Step(p, "in", "inc")
  /\ tmp' = [tmp EXCEPT ![p].v = value + 1]
  /\ UNCHANGED <<state, sem>>

ReleaseStore(p) ==
  /\ Step(p, "inc", "rtest")
  /\ value' = tmp[p].v
  /\ UNCHANGED <<state, num_of_procs, list, tmp>>

ReleaseTest(p) ==
  /\ \E v \in Seen(p) : Step(p, "rtest", IF v <= 0 THEN "wake" ELSE "out")
  /\ tmp' = [tmp EXCEPT ![p].n = num_of_procs]
  /\ UNCHANGED <<state, sem>>

\* list[0]->state = RUNNABLE.  A null entry points to no process.
ReleaseWake(p) ==
  /\ Step(p, "wake", "shift")
  /\ SetState(list[0], "RUNNABLE")
  /\ UNCHANGED <<sem, tmp>>

ReleaseShift(p) ==
  /\ Step(p, "shift", "out")
  /\ list' = [i \in Index |-> IF i + 1 < tmp[p].n /\ i + 1 \in Index
                              THEN list[i + 1] ELSE list[i]]
  /\ num_of_procs' = num_of_procs - 1
  /\ UNCHANGED <<state, value, tmp>>

----------------------------------------------------------------------------
(* The scheduler and the clock.                                             *)

Dispatch(c, p) ==
  /\ cpuproc[c] = NoProc
  /\ state[p] = "RUNNABLE"
  /\ cpuproc' = [cpuproc EXCEPT ![c] = p]
  /\ SetState(p, "RUNNING")
  /\ UNCHANGED <<sem, pc, tmp>>

\* trap(): the tick takes the CPU from a process whose state is RUNNING.
Timer(c) ==
  /\ cpuproc[c] # NoProc
  /\ state[cpuproc[c]] = "RUNNING"
  /\ SetState(cpuproc[c], "RUNNABLE")
  /\ cpuproc' = [cpuproc EXCEPT ![c] = NoProc]
  /\ UNCHANGED <<sem, pc, tmp>>

Next ==
  \/ \E p \in Procs :
       \/ AquireLoad(p) \/ AquireStore(p) \/ AquireTest(p)
       \/ AquireEnqueue(p) \/ AquireSleep(p) \/ AquireCount(p)
       \/ ReleaseLoad(p) \/ ReleaseStore(p) \/ ReleaseTest(p)
       \/ ReleaseWake(p) \/ ReleaseShift(p)
  \/ \E c \in CPUs : Timer(c) \/ \E p \in Procs : Dispatch(c, p)

Spec == Init /\ [][Next]_vars

----------------------------------------------------------------------------
(* Properties.                                                              *)

\* proc.c:1127, "v: maximum number of procs in critical section".  A process is
\* in its critical section from the return of semaphore_aquire to the call of
\* semaphore_release.
Exclusion ==
  Cardinality({p \in Procs : pc[p] \in {"in", "inc"}}) <= V
=============================================================================
