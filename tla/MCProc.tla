------------------------------- MODULE MCProc -------------------------------
(***************************************************************************)
(* An instance of Proc with four slots and two CPUs, restricted to two of  *)
(* its regions: few processes with everything else, and four processes     *)
(* with everything else reduced.  A behaviour may go from one to the other *)
(* wherever they meet.                                                     *)
(***************************************************************************)
EXTENDS Proc

\* Two processes on both CPUs, with sleep(), ticks and kills of every pid.
TwoSlots ==
  /\ \A s \in Slots : s > 2 => state[s] = "UNUSED" /\ pid[s] = 0
  /\ nextpid <= 4

\* All slots, for a process that is not a child of init to leave a zombie to
\* init: CPU 1, whose timer only preempts, no sleep(), no kills.
OneCPU ==
  /\ \A c \in CPUs \ {1} : cpuproc[c] = Null /\ lock # c
  /\ ticks = 0 /\ tick = "idle"
  /\ \A s \in Slots : nap[s] = NoNap /\ chan[s] # TicksChan
  /\ \A s \in Slots : ~killed[s]

Regions == TwoSlots \/ OneCPU
=============================================================================
