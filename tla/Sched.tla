------------------------------- MODULE Sched -------------------------------
(***************************************************************************)
(* The multilevel scheduler of xv6-ASA (proc.c): level_finder with aging,  *)
(* round robin for level 1, lottery for level 2, best job first for level  *)
(* 3, and the system calls that set a process's level and tickets.         *)
(*                                                                         *)
(* Every step is one critical section of ptable.lock.  A process that      *)
(* gives up its CPU hands the lock to the scheduler, which goes on with    *)
(* its loop over the table and hands it to the next process: from the      *)
(* acquire in yield(), sleep() or exit() to the release in the process     *)
(* switched to, or at the end of the loop, is one such section.  Module    *)
(* Proc has the hand-over itself; here a process only runs, yields,        *)
(* blocks, wakes and exits.                                                *)
(***************************************************************************)
EXTENDS Integers, FiniteSetsExt

CONSTANTS
  NPROC, NCPU,
  MAX_WAITING_TIME,
  MinWaited,      \* bound: p->waited stops falling here (a negative number)
  LevelArgs,      \* levels that programs pass to level_change
  Targets,        \* slots whose process they pass to these two calls
  TicketArgs,     \* ticket counts that programs pass to set_tickets
  Blocking        \* whether processes sleep, wake, exit and fork

ASSUME SchedAssumption ==
  /\ NPROC \in Nat \ {0}
  /\ NCPU \in Nat \ {0}
  /\ MAX_WAITING_TIME \in Nat \ {0}
  /\ MinWaited \in Int /\ MinWaited < 0
  /\ LevelArgs \subseteq Int
  /\ Targets \subseteq 1 .. NPROC
  /\ TicketArgs \subseteq Int
  /\ Blocking \in BOOLEAN

Slots == 1 .. NPROC
CPUs == 0 .. NCPU - 1
Null == 0
InitProc == 1

States == {"UNUSED", "SLEEPING", "RUNNABLE", "RUNNING", "ZOMBIE"}

VARIABLES
  ptable,     \* the slots: state, pid, level, waited, tickets
  cpuproc,    \* c->proc, by CPU
  spc,        \* where the scheduler of each CPU is
  pick,       \* its local winner_proc or best_job
  trapped     \* a CPU has taken a trap in the kernel: panic("trap")

vars == <<ptable, cpuproc, spc, pick, trapped>>

TypeOK ==
  /\ ptable \in [Slots -> [state : States, pid : 0 .. NPROC,
                           level : LevelArgs \cup {1, 2},
                           waited : MinWaited .. MAX_WAITING_TIME - 1,
                           tickets : TicketArgs \cup {0, 1, 10}]]
  /\ cpuproc \in [CPUs -> Slots \cup {Null}]
  /\ spc \in [CPUs -> {"top", "rr", "lottery", "bjf", "winner", "best_job",
                   "running"}]
  /\ pick \in [CPUs -> Slots \cup {Null}]
  /\ trapped \in BOOLEAN

\* A slot as allocproc() leaves it in userinit(), and as fork() leaves it.
FirstProc == [state |-> "RUNNABLE", pid |-> 1, level |-> 1, waited |-> 0,
              tickets |-> 10]
Forked(k) == [state |-> "RUNNABLE", pid |-> k, level |-> 2, waited |-> 0,
              tickets |-> 1]
Unused == [state |-> "UNUSED", pid |-> 0, level |-> 1, waited |-> 0,
           tickets |-> 0]

\* init has forked children into the next slots, up to the last or last but one.
Init ==
  /\ \E last \in {NPROC - 1, NPROC} \ {0} :
       ptable = [s \in Slots |-> IF s = InitProc THEN FirstProc
                                 ELSE IF s <= last THEN Forked(s) ELSE Unused]
  /\ cpuproc = [c \in CPUs |-> Null]
  /\ spc = [c \in CPUs |-> "top"]
  /\ pick = [c \in CPUs |-> Null]
  /\ trapped = FALSE

----------------------------------------------------------------------------
(* scheduler(): one pass of its loop on CPU c.                              *)

Runnable == {s \in Slots : ptable[s].state = "RUNNABLE"}
RunnableAt(l) == {s \in Runnable : ptable[s].level = l}

\* Mutant: the level is not raised.
Aged_SameLevel(p) ==
  IF p.waited + 1 >= MAX_WAITING_TIME
  THEN [p EXCEPT !.waited = 0]
  ELSE [p EXCEPT !.waited = @ + 1]

\* waited++, and aging when it reaches the limit
Aged(p) ==
  IF p.waited + 1 >= MAX_WAITING_TIME
  THEN [p EXCEPT !.level = 1, !.waited = 0]
  ELSE [p EXCEPT !.waited = @ + 1]

\* The queue the scheduler turns to, given the levels of the RUNNABLE processes.
Queue(levels) ==
  IF levels = {} THEN "top"
  ELSE IF 1 \in levels THEN "rr"
  ELSE IF 2 \in levels THEN "lottery"
  ELSE "bjf"

level_finder(c) ==
  /\ spc[c] = "top"
  /\ ptable' = [s \in Slots |-> IF s \in Runnable THEN Aged(ptable[s])
                                ELSE ptable[s]]
  /\ spc' = [spc EXCEPT ![c] = Queue({Aged(ptable[s]).level : s \in Runnable})]
  /\ UNCHANGED <<cpuproc, pick, trapped>>

\* All three queues run a slot under the same test, level 1 included; lottery
\* and best job first also ask that it is the slot they chose.
Eligible(p, s, chosen) ==
  p.state = "RUNNABLE" /\ p.level = 1 /\ chosen \in {Null, s}

\* The loop over the table tb from slot s on: switch to the first process that
\* is eligible, or leave the loop.
Scan(c, tb, s, chosen) ==
  LET found == {t \in s .. NPROC : Eligible(tb[t], t, chosen)}
      p == Min(found)
  IN  IF found = {}
      THEN /\ ptable' = tb
           /\ cpuproc' = [cpuproc EXCEPT ![c] = Null]
           /\ spc' = [spc EXCEPT ![c] = "top"]
           /\ pick' = [pick EXCEPT ![c] = Null]
      ELSE /\ ptable' = [tb EXCEPT
                           ![p].state = "RUNNING",
                           ![p].waited = IF @ > MinWaited THEN @ - 1 ELSE @]
           /\ cpuproc' = [cpuproc EXCEPT ![c] = p]
           /\ spc' = [spc EXCEPT ![c] = "running"]
           /\ pick' = [pick EXCEPT ![c] = chosen]

round_robin(c) ==
  /\ spc[c] = "rr"
  /\ Scan(c, ptable, 1, Null)
  /\ UNCHANGED trapped

\* The end of a choice: the scheduler goes on to l with slot s, or gives up.
Chosen(c, s, l) ==
  /\ pick' = [pick EXCEPT ![c] = s]
  /\ spc' = [spc EXCEPT ![c] = IF s = Null THEN "top" ELSE l]
  /\ UNCHANGED trapped

\* An integer division by zero in the kernel: trap() panics.
DivideError ==
  /\ trapped' = TRUE
  /\ UNCHANGED <<pick, spc>>

TicketsUpTo(s) ==
  MapThenSumSet(LAMBDA t : ptable[t].tickets, {t \in RunnableAt(2) : t <= s})

TotalTickets == TicketsUpTo(NPROC)

\* Mutant: off by one in the draw.
Winner_OffByOne(n) ==
  LET holders == {s \in RunnableAt(2) : n - TicketsUpTo(s) < 0}
  IN  IF holders = {} THEN Null ELSE Min(holders)

\* The holder of ticket n, in table order.
Winner(n) ==
  LET holders == {s \in RunnableAt(2) : n - TicketsUpTo(s) <= 0}
  IN  IF holders = {} THEN Null ELSE Min(holders)

\* lottery() first looks for a process with pid -123, the only value its
\* caller ever passes: no slot has it, and find_winner draws a ticket.
\* random_number(mod) is a number from 1 to mod; it divides by mod.
find_winner(c) ==
  /\ spc[c] = "lottery"
  /\ IF TotalTickets = 0
     THEN DivideError
     ELSE \E n \in 1 .. Max({TotalTickets, -TotalTickets}) :
            Chosen(c, Winner(n), "winner")
  /\ UNCHANGED <<ptable, cpuproc>>

lottery(c) ==
  /\ spc[c] = "winner"
  /\ Scan(c, ptable, 1, pick[c])
  /\ UNCHANGED trapped

\* The rank divides by the tickets; which process has the least rank depends
\* on data that is not modelled (arrival time, cycles, ratios).
find_best_job(c) ==
  /\ spc[c] = "bjf"
  /\ IF \E s \in RunnableAt(3) : ptable[s].tickets = 0
     THEN DivideError
     ELSE \E s \in IF RunnableAt(3) = {} THEN {Null} ELSE RunnableAt(3) :
            Chosen(c, s, "best_job")
  /\ UNCHANGED <<ptable, cpuproc>>

BJF(c) ==
  /\ spc[c] = "best_job"
  /\ Scan(c, ptable, 1, pick[c])
  /\ UNCHANGED trapped

Scheduler(c) ==
  level_finder(c) \/ round_robin(c) \/ find_winner(c) \/ lottery(c)
    \/ find_best_job(c) \/ BJF(c)

----------------------------------------------------------------------------
(* The process on CPU c.                                                    *)

\* It leaves the CPU in state st, and the scheduler goes on with its loop.
Leave(c, st) ==
  /\ spc[c] = "running"
  /\ Scan(c, [ptable EXCEPT ![cpuproc[c]].state = st], cpuproc[c] + 1, pick[c])
  /\ UNCHANGED trapped

\* The timer interrupts the process on c.
Yield(c) == Leave(c, "RUNNABLE")

Sleep(c) == Blocking /\ Leave(c, "SLEEPING")

Exit(c) == Blocking /\ cpuproc[c] # InitProc /\ Leave(c, "ZOMBIE")

\* It wakes the sleeper in slot s.  An interrupt handler does the same.
Wakeup(s) ==
  /\ Blocking /\ ptable[s].state = "SLEEPING"
  /\ ptable' = [ptable EXCEPT ![s].state = "RUNNABLE"]
  /\ UNCHANGED <<cpuproc, spc, pick, trapped>>

\* wait() frees the zombie in slot s; level, waited and tickets stay.
Reap(c, s) ==
  /\ spc[c] = "running"
  /\ ptable[s].state = "ZOMBIE"
  /\ ptable' = [ptable EXCEPT ![s].state = "UNUSED", ![s].pid = 0]
  /\ UNCHANGED <<cpuproc, spc, pick, trapped>>

\* fork() fills the first unused slot, under a pid no slot has.
Fork(c) ==
  /\ Blocking /\ spc[c] = "running"
  /\ \E s \in Slots :
       /\ ptable[s].state = "UNUSED"
       /\ \A t \in 1 .. s - 1 : ptable[t].state # "UNUSED"
       /\ ptable' = [ptable EXCEPT ![s] =
                       Forked(Min(Slots \ {ptable[t].pid : t \in Slots}))]
  /\ UNCHANGED <<cpuproc, spc, pick, trapped>>

\* Both system calls act on the last slot with the pid they are given.
LastWithPid(k) == Max({s \in Slots : ptable[s].pid = k})

set_tickets(c) ==
  /\ spc[c] = "running"
  /\ \E t \in Targets, n \in TicketArgs :
       ptable' = [ptable EXCEPT ![LastWithPid(ptable[t].pid)].tickets = n]
  /\ UNCHANGED <<cpuproc, spc, pick, trapped>>

\* The table after the process in slot s, now at another level, is copied to
\* the first unused slot behind it and the slots between move down by one.
\* Unless s is the last slot, some process is then in two slots, with one kernel
\* stack: its neighbour, or itself when the next slot is unused.  What happens
\* once both run is not modelled: the instances name the last slot as target.
Requeued(tb, s) ==
  LET unused == {t \in s + 1 .. NPROC : tb[t].state = "UNUSED"}
      end == IF unused = {} THEN NPROC + 1 ELSE Min(unused)
  IN  [t \in Slots |-> IF t >= s /\ t + 1 < end THEN tb[t + 1]
                       ELSE IF t = end THEN tb[s] ELSE tb[t]]

\* Its test of the level, level <= 0 && level >= 4, lets every level pass.
level_change(c) ==
  /\ spc[c] = "running"
  /\ \E t \in Targets, l \in LevelArgs :
       LET s == LastWithPid(ptable[t].pid)
       IN  ptable' = Requeued([ptable EXCEPT ![s].level = l], s)
  /\ UNCHANGED <<cpuproc, spc, pick, trapped>>

Running(c) ==
  Yield(c) \/ Sleep(c) \/ Exit(c)

Syscall(c) ==
  Fork(c) \/ set_tickets(c) \/ level_change(c) \/ \E s \in Slots : Reap(c, s)

\* After panic() the machine spins.
Halted == trapped /\ UNCHANGED vars

Next ==
  \/ /\ ~trapped
     /\ \/ \E c \in CPUs : Scheduler(c) \/ Running(c) \/ Syscall(c)
        \/ \E s \in Slots : Wakeup(s)
  \/ Halted

\* A CPU never stops: the scheduler loops, and the timer interrupts the
\* process it runs.
Fairness == \A c \in CPUs : WF_vars(~trapped /\ (Scheduler(c) \/ Running(c)))

Spec == Init /\ [][Next]_vars
FairSpec == Spec /\ Fairness

----------------------------------------------------------------------------
(* Properties.                                                              *)

\* No RUNNABLE process waits for ever, on whatever level it was put, unless
\* level_change keeps putting it back: aging in level_finder lifts it to level
\* 1, and a round robin pass reaches it.
NoStarvation ==
  <>[][\A c \in CPUs : ~level_change(c)]_vars
    => \A s \in Slots : ptable[s].state = "RUNNABLE"
                          ~> ptable[s].state # "RUNNABLE" \/ trapped

\* The lottery is fair: of the tickets find_winner may draw, a process wins
\* with exactly as many as it holds; every variable keeps its type.
LotteryProportional ==
  /\ TypeOK
  /\ \A s \in RunnableAt(2) :
       Cardinality({n \in 1 .. TotalTickets : Winner(n) = s}) = ptable[s].tickets

\* A process that the scheduler chose, and that can still run, is switched to:
\* "choose a process to run", then "swtch to start running that process".
ChosenRuns ==
  [][\A c \in CPUs :
       /\ spc[c] \in {"winner", "best_job"} /\ spc'[c] # spc[c]
       /\ ptable[pick[c]].state = "RUNNABLE"
       => cpuproc'[c] = pick[c]]_vars
=============================================================================
