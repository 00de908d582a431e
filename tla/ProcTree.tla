----------------------------- MODULE ProcTree -----------------------------
(***************************************************************************)
(* What the process table promises to user programs: a tree of processes   *)
(* named by pids.  fork adds a child of a running process under a pid that *)
(* was never used before, exit makes a process a zombie and hands its      *)
(* children to init, and wait removes one zombie child of its caller.      *)
(* Nothing else changes the tree.                                          *)
(***************************************************************************)
EXTENDS Naturals

CONSTANT Pids

VARIABLES
  procs,      \* the pids of the processes that exist
  zombies,    \* those that have exited and are not yet waited for
  par,        \* the parent of each process; 0 for init
  used        \* the pids that fork may not give any more

tvars == <<procs, zombies, par, used>>

InitPid == 1

TreeInit ==
  /\ procs = {InitPid}
  /\ zombies = {}
  /\ par = [k \in {InitPid} |-> 0]
  /\ used = {InitPid}

TreeFork(p, k) ==
  /\ p \in procs \ zombies
  /\ k \in Pids \ used
  /\ procs' = procs \cup {k}
  /\ par' = [i \in procs \cup {k} |-> IF i = k THEN p ELSE par[i]]
  /\ used' = used \cup {k}
  /\ UNCHANGED zombies

\* A fork that fails may use up a pid.
TreeForkFails(k) ==
  /\ k \in Pids \ used
  /\ used' = used \cup {k}
  /\ UNCHANGED <<procs, zombies, par>>

TreeExit(p) ==
  /\ p \in procs \ (zombies \cup {InitPid})
  /\ zombies' = zombies \cup {p}
  /\ par' = [i \in procs |-> IF par[i] = p THEN InitPid ELSE par[i]]
  /\ UNCHANGED <<procs, used>>

TreeWait(p, k) ==
  /\ p \in procs \ zombies
  /\ k \in zombies
  /\ par[k] = p
  /\ procs' = procs \ {k}
  /\ zombies' = zombies \ {k}
  /\ par' = [i \in procs \ {k} |-> par[i]]
  /\ UNCHANGED used

TreeNext ==
  \E p, k \in Pids :
    TreeFork(p, k) \/ TreeForkFails(k) \/ TreeExit(p) \/ TreeWait(p, k)

TreeSpec == TreeInit /\ [][TreeNext]_tvars
=============================================================================
