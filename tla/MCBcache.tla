------------------------------ MODULE MCBcache ------------------------------
(* Bcache for TLC: processes, and blocks, can be exchanged for each other.  *)
EXTENDS Bcache, TLC

Symmetry == Permutations(Procs) \cup Permutations(Blocks)
=============================================================================
