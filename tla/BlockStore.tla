----------------------------- MODULE BlockStore -----------------------------
(***************************************************************************)
(* What the buffer cache promises to the file system and the log: a store  *)
(* of blocks, each of which one process at a time may hold, read and       *)
(* change; what it finds in the block is what was last put there.          *)
(***************************************************************************)
CONSTANTS Procs, Blocks, Vals, Nobody

VARIABLES
  mem,      \* contents of the blocks
  holder    \* the process that holds each block

svars == <<mem, holder>>

StoreInit ==
  /\ mem \in [Blocks -> Vals]
  /\ holder = [k \in Blocks |-> Nobody]

Get(p, k) ==
  /\ holder[k] = Nobody
  /\ holder' = [holder EXCEPT ![k] = p]
  /\ UNCHANGED mem

Put(p, k, v) ==
  /\ holder[k] = p
  /\ mem' = [mem EXCEPT ![k] = v]
  /\ UNCHANGED holder

GiveBack(p, k) ==
  /\ holder[k] = p
  /\ holder' = [holder EXCEPT ![k] = Nobody]
  /\ UNCHANGED mem

StoreNext ==
  \E p \in Procs, k \in Blocks :
    Get(p, k) \/ GiveBack(p, k) \/ \E v \in Vals : Put(p, k, v)

StoreSpec == StoreInit /\ [][StoreNext]_svars
=============================================================================
