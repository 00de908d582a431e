------------------------------ MODULE Spinlock ------------------------------
(* spinlock.c: acquire() and release() with the matched interrupt disabling  *)
(* of pushcli() and popcli(), under interrupts whose handlers take locks too *)
(* and may give the CPU away, so that a thread goes on on another CPU.       *)
(*                                                                           *)
(* A context is a kernel thread or, under the name of the CPU, the interrupt *)
(* handler that runs there.  Locks are numbered; a context that holds locks  *)
(* takes one with a higher number, the lock order callers keep.              *)
EXTENDS Naturals, FiniteSets

CONSTANTS CPUs, Threads, Locks, None

ASSUME SpinlockAssumption ==
  /\ CPUs \cap Threads = {} /\ None \notin CPUs \cup Threads
  /\ Locks \subseteq Nat /\ Locks # {}

VARIABLES
  flag,      \* FL_IF of each CPU
  ncli,      \* cpu->ncli
  intena,    \* cpu->intena
  locked,    \* lk->locked
  lcpu,      \* lk->cpu, None for 0
  on,        \* the thread each CPU executes, None in the scheduler's loop
  handling,  \* the CPU is in an interrupt handler
  pc, lk,    \* where each context is, and the lock it asks for or lets go
  eflags,    \* what pushcli() read, FALSE outside of it
  held       \* the locks between the return of acquire() and release()

vars == <<flag, ncli, intena, locked, lcpu, on, handling, pc, lk, eflags, held>>

Contexts == Threads \cup CPUs

(* The code a CPU executes: its handler, if it is in one.                    *)
Cur(c) == IF handling[c] THEN c ELSE on[c]

Runs(c, at) == Cur(c) # None /\ pc[Cur(c)] = at

Goto(x, at) == pc' = [pc EXCEPT ![x] = at]

Init ==
  /\ flag = [c \in CPUs |-> TRUE]
  /\ ncli = [c \in CPUs |-> 0]
  /\ intena = [c \in CPUs |-> FALSE]
  /\ locked = [l \in Locks |-> FALSE]
  /\ lcpu = [l \in Locks |-> None]
  /\ on = [c \in CPUs |-> None]
  /\ handling = [c \in CPUs |-> FALSE]
  /\ pc = [x \in Contexts |-> "run"]
  /\ lk = [x \in Contexts |-> CHOOSE l \in Locks : TRUE]
  /\ eflags = [x \in Contexts |-> FALSE]
  /\ held = [x \in Contexts |-> {}]

holding(c, l) == locked[l] /\ lcpu[l] = c

(* acquire(lk): pushcli() first reads the flags.                             *)
Acquire(c, l) ==
  /\ Runs(c, "run")
  /\ \A h \in held[Cur(c)] : h < l
  /\ lk' = [lk EXCEPT ![Cur(c)] = l]
  /\ eflags' = [eflags EXCEPT ![Cur(c)] = flag[c]]
  /\ Goto(Cur(c), "cli")
  /\ UNCHANGED <<flag, ncli, intena, locked, lcpu, on, handling, held>>

(* Mutant: every pushcli() saves the flags, not only the first.              *)
SavedFlag_Always(c) == eflags[Cur(c)]

SavedFlag(c) == IF ncli[c] = 0 THEN eflags[Cur(c)] ELSE intena[c]

(* Mutant: the cli() is missing.                                             *)
Pushcli_NoCli(c) ==
  /\ Runs(c, "cli")
  /\ intena' = [intena EXCEPT ![c] = SavedFlag(c)]
  /\ ncli' = [ncli EXCEPT ![c] = @ + 1]
  /\ Goto(Cur(c), "spin")
  /\ eflags' = [eflags EXCEPT ![Cur(c)] = FALSE]
  /\ UNCHANGED <<flag, locked, lcpu, on, handling, lk, held>>

(* The rest of pushcli(), from the cli() on: the CPU may be another one than *)
(* the one the flags were read on.                                           *)
Pushcli(c) ==
  /\ Runs(c, "cli")
  /\ flag' = [flag EXCEPT ![c] = FALSE]
  /\ intena' = [intena EXCEPT ![c] = SavedFlag(c)]
  /\ ncli' = [ncli EXCEPT ![c] = @ + 1]
  /\ Goto(Cur(c), "spin")
  /\ eflags' = [eflags EXCEPT ![Cur(c)] = FALSE]
  /\ UNCHANGED <<locked, lcpu, on, handling, lk, held>>

(* holding() is false (else the panic that Exclusion rules out), and the xchg  *)
(* of the loop finds 0.                                                      *)
Xchg(c) ==
  /\ Runs(c, "spin")
  /\ ~holding(c, lk[Cur(c)])
  /\ ~locked[lk[Cur(c)]]
  /\ locked' = [locked EXCEPT ![lk[Cur(c)]] = TRUE]
  /\ Goto(Cur(c), "own")
  /\ UNCHANGED <<flag, ncli, intena, lcpu, on, handling, lk, eflags, held>>

Acquired(c) ==
  /\ Runs(c, "own")
  /\ lcpu' = [lcpu EXCEPT ![lk[Cur(c)]] = c]
  /\ held' = [held EXCEPT ![Cur(c)] = @ \cup {lk[Cur(c)]}]
  /\ Goto(Cur(c), "run")
  /\ UNCHANGED <<flag, ncli, intena, locked, on, handling, lk, eflags>>

(* release(lk), of any lock held, up to the store that clears lk->cpu.       *)
Release(c, l) ==
  /\ Runs(c, "run") /\ l \in held[Cur(c)] /\ holding(c, l)
  /\ lk' = [lk EXCEPT ![Cur(c)] = l]
  /\ held' = [held EXCEPT ![Cur(c)] = @ \ {l}]
  /\ lcpu' = [lcpu EXCEPT ![l] = None]
  /\ Goto(Cur(c), "unlock")
  /\ UNCHANGED <<flag, ncli, intena, locked, on, handling, eflags>>

Unlock(c) ==
  /\ Runs(c, "unlock")
  /\ locked' = [locked EXCEPT ![lk[Cur(c)]] = FALSE]
  /\ Goto(Cur(c), "pop")
  /\ UNCHANGED <<flag, ncli, intena, lcpu, on, handling, lk, eflags, held>>

(* popcli(): the last one turns interrupts on if they were on before the     *)
(* first pushcli().                                                          *)
Popcli(c) ==
  /\ Runs(c, "pop")
  /\ ncli' = [ncli EXCEPT ![c] = @ - 1]
  /\ flag' = [flag EXCEPT ![c] = @ \/ (ncli[c] = 1 /\ intena[c])]
  /\ Goto(Cur(c), "run")
  /\ UNCHANGED <<intena, locked, lcpu, on, handling, lk, eflags, held>>

(* An interrupt gate turns interrupts off; the handler may take locks.       *)
Interrupt(c) ==
  /\ flag[c] /\ ~handling[c]
  /\ handling' = [handling EXCEPT ![c] = TRUE]
  /\ flag' = [flag EXCEPT ![c] = FALSE]
  /\ UNCHANGED <<ncli, intena, locked, lcpu, on, pc, lk, eflags, held>>

(* The handler returns to what it interrupted, or gives up the CPU: yield()  *)
(* and sched() leave it to the scheduler's loop, which turns interrupts on.  *)
Iret(c, next) ==
  /\ handling[c] /\ pc[c] = "run" /\ held[c] = {}
  /\ handling' = [handling EXCEPT ![c] = FALSE]
  /\ flag' = [flag EXCEPT ![c] = TRUE]
  /\ on' = [on EXCEPT ![c] = next]
  /\ UNCHANGED <<ncli, intena, locked, lcpu, pc, lk, eflags, held>>

(* The scheduler of a CPU goes on with a thread, on this or another CPU.     *)
Dispatch(c, t) ==
  /\ on[c] = None /\ flag[c] /\ ~handling[c]
  /\ \A d \in CPUs : on[d] # t
  /\ on' = [on EXCEPT ![c] = t]
  /\ UNCHANGED <<flag, ncli, intena, locked, lcpu, handling, pc, lk, eflags, held>>

Step(c) ==
  \/ \E l \in Locks : Acquire(c, l) \/ Release(c, l)
  \/ Pushcli(c) \/ Xchg(c) \/ Acquired(c) \/ Unlock(c) \/ Popcli(c)
  \/ Interrupt(c)
  \/ \E next \in {on[c], None} : Iret(c, next)
  \/ \E t \in Threads : Dispatch(c, t)

Next == \E c \in CPUs : Step(c)

Spec == Init /\ [][Next]_vars

-----------------------------------------------------------------------------

(* Where a context is between a pushcli() and its popcli(), beside the       *)
(* stretches in which it holds a lock.                                       *)
Pushed == {"spin", "own", "unlock", "pop"}

(* The locks a context has exchanged to 1 and not yet set to 0.              *)
Owned(x) == held[x] \cup (IF pc[x] \in {"own", "unlock"} THEN {lk[x]} ELSE {})

OneOwner == \A x, y \in Contexts : x # y => Owned(x) \cap Owned(y) = {}

LockedOwned == \A l \in Locks : locked[l] <=> \E x \in Contexts : l \in Owned(x)

(* acquire()/release(), spinlock.c:20-68: at most one context owns a lock,   *)
(* the lock is marked exactly while one does, the owner cannot be            *)
(* interrupted or moved while it owns one, and lk->cpu names its CPU; so     *)
(* neither panics, and whoever spins waits for an owner on another CPU.      *)
Exclusion ==
  /\ OneOwner
  /\ LockedOwned
  /\ \A x \in Contexts : Owned(x) # {} =>
       \E c \in CPUs : /\ Cur(c) = x /\ ~flag[c]
                       /\ \A l \in held[x] : lcpu[l] = c
  /\ \A c \in CPUs : Runs(c, "spin") =>
       /\ ~holding(c, lk[Cur(c)])
       /\ locked[lk[Cur(c)]] =>
            \E d \in CPUs \ {c} : Cur(d) # None /\ lk[Cur(c)] \in Owned(Cur(d))

(* The calls of pushcli() on c that have no popcli() yet.                    *)
Pushes(c) ==
  IF Cur(c) = None THEN 0
  ELSE Cardinality(held[Cur(c)]) + (IF pc[Cur(c)] \in Pushed THEN 1 ELSE 0)

(* pushcli()/popcli(), spinlock.c:100-125 ("it takes two popcli to undo two  *)
(* pushcli. Also, if interrupts are off, then pushcli, popcli leaves them    *)
(* off"): ncli counts the pushes under way, interrupts are off while there   *)
(* are any, and when there are none they are as they were: off in a handler, *)
(* on outside.                                                               *)
Matched == \A c \in CPUs :
  /\ ncli[c] = Pushes(c)
  /\ flag[c] = (ncli[c] = 0 /\ ~handling[c])

-----------------------------------------------------------------------------
(* The inductive invariant behind Exclusion and Matched.                     *)

TypeOK ==
  /\ flag \in [CPUs -> BOOLEAN] /\ ncli \in [CPUs -> Nat] /\ intena \in [CPUs -> BOOLEAN]
  /\ locked \in [Locks -> BOOLEAN] /\ lcpu \in [Locks -> CPUs \cup {None}]
  /\ on \in [CPUs -> Threads \cup {None}] /\ handling \in [CPUs -> BOOLEAN]
  /\ pc \in [Contexts -> {"run", "cli"} \cup Pushed] /\ lk \in [Contexts -> Locks]
  /\ eflags \in [Contexts -> BOOLEAN] /\ held \in [Contexts -> SUBSET Locks]
  /\ \A x \in Contexts : IsFiniteSet(held[x])

(* A thread is on one CPU.  A handler runs with interrupts off and leaves    *)
(* with no lock.                                                             *)
OncePlaced ==
  /\ \A c, d \in CPUs : on[c] = on[d] /\ on[c] # None => c = d
  /\ \A c \in CPUs : handling[c] => ~flag[c]
  /\ \A c \in CPUs : ~handling[c] => pc[c] = "run" /\ held[c] = {}

Busy(x) == held[x] # {} \/ pc[x] \in Pushed

(* Who holds a lock, or is between a pushcli() and its popcli(), is what its *)
(* CPU executes, with interrupts off.                                        *)
Masked == \A x \in Contexts : Busy(x) => \E c \in CPUs : Cur(c) = x /\ ~flag[c]

(* intena is what interrupts were before the first pushcli(), although the   *)
(* thread that read the flags may have been moved since.                     *)
Restorable ==
  /\ \A c \in CPUs : ncli[c] # 0 => intena[c] = ~handling[c]
  /\ \A x \in Contexts : pc[x] = "cli" /\ held[x] = {} => eflags[x] = (x \in Threads)

(* A lock asked for, or let go, is not among those held.                     *)
NotHeld == \A x \in Contexts :
  pc[x] \in {"cli", "spin", "own", "unlock"} => lk[x] \notin held[x]

(* lk->cpu is the CPU that executes the holder.                              *)
CpuOfHolder == \A c \in CPUs, l \in Locks :
  lcpu[l] = c <=> Cur(c) # None /\ l \in held[Cur(c)]

SpinInv ==
  /\ TypeOK /\ OncePlaced /\ Masked /\ Matched /\ Restorable
  /\ NotHeld /\ OneOwner /\ LockedOwned /\ CpuOfHolder

=============================================================================
