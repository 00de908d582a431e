---------------------------- MODULE AtomicDisk ----------------------------
(***************************************************************************)
(* What the log promises to the file system: a disk on which operations    *)
(* take effect in groups, all or nothing.  Between begin_op and end_op an  *)
(* operation writes blocks; what survives a crash is the disk as it was at *)
(* a moment when no operation was under way.                               *)
(***************************************************************************)
EXTENDS Naturals

CONSTANTS Blocks, Vals, Procs

VARIABLES
  mem,      \* what a read of each block returns
  stable,   \* what it would return after a crash
  ops       \* the processes inside an operation

avars == <<mem, stable, ops>>

DiskInit ==
  /\ mem \in [Blocks -> Vals]
  /\ stable = mem
  /\ ops = {}

DiskBegin(p) ==
  /\ p \notin ops
  /\ ops' = ops \cup {p}
  /\ UNCHANGED <<mem, stable>>

DiskWrite(p, b, v) ==
  /\ p \in ops
  /\ mem' = [mem EXCEPT ![b] = v]
  /\ UNCHANGED <<stable, ops>>

DiskEnd(p) ==
  /\ p \in ops
  /\ ops' = ops \ {p}
  /\ UNCHANGED <<mem, stable>>

DiskCommit ==
  /\ ops = {}
  /\ stable' = mem
  /\ UNCHANGED <<mem, ops>>

DiskCrash ==
  /\ mem' = stable
  /\ ops' = {}
  /\ UNCHANGED stable

DiskNext ==
  \/ \E p \in Procs :
       \/ DiskBegin(p) \/ DiskEnd(p)
       \/ \E b \in Blocks, v \in Vals : DiskWrite(p, b, v)
  \/ DiskCommit
  \/ DiskCrash

DiskSpec == DiskInit /\ [][DiskNext]_avars
=============================================================================
