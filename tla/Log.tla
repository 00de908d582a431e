-------------------------------- MODULE Log --------------------------------
(***************************************************************************)
(* The redo log of the file system (log.c): begin_op, log_write, end_op,   *)
(* the commit that the last end_op makes, crashes, and the recovery at     *)
(* boot (which may itself crash).                                          *)
(*                                                                         *)
(* A step is a critical section of log.lock, or one write of a disk block; *)
(* a disk block, the header included, is written whole or not at all.  The *)
(* buffer cache is a function from blocks to contents: a buffer that is    *)
(* not B_DIRTY may be evicted at any time and read again from the disk.    *)
(***************************************************************************)
EXTENDS Naturals, Sequences, FiniteSets

CONSTANTS
  Procs,         \* processes that make file system calls
  Blocks, Vals,  \* home blocks, and what they may hold
  LOGSIZE,       \* capacity of the header; mkfs makes the log that long too
  MAXOPBLOCKS,   \* blocks that begin_op reserves for an operation
  OPBLOCKS,      \* bound: the most blocks that an operation writes
  NoBlock

\* log_write panics at log.size - 1 blocks, one less than begin_op reckons
\* with, and before it looks for an earlier entry of the same block: the
\* largest operation (a write of file.c, 7 blocks) leaves room for both.
ASSUME LogAssumption ==
  /\ LOGSIZE \in Nat /\ MAXOPBLOCKS \in Nat /\ OPBLOCKS \in Nat
  /\ OPBLOCKS + 2 <= MAXOPBLOCKS
  /\ MAXOPBLOCKS <= LOGSIZE
  /\ NoBlock \notin Blocks

SIZE == LOGSIZE                 \* log.size: sb.nlog blocks, header included

VARIABLES
  disk,         \* home blocks on disk
  logb,         \* log blocks on disk
  head,         \* header on disk
  cache,        \* contents of the buffers
  dirty,        \* buffers with B_DIRTY
  lh,           \* log.lh
  outstanding, committing,
  tail,         \* local of write_log and install_trans
  pc,           \* where each process is
  blk,          \* the buffer it has locked and modified
  wrote,        \* the blocks its operation has written
  boot,         \* recovery at boot, then "up"
  panicked

media == <<disk, logb, head>>
vars == <<disk, logb, head, cache, dirty, lh, outstanding, committing, tail,
          pc, blk, wrote, boot, panicked>>

TypeOK ==
  /\ disk \in [Blocks -> Vals]
  /\ logb \in [1 .. LOGSIZE -> Vals]
  /\ head \in Seq(Blocks) /\ Len(head) <= LOGSIZE
  /\ cache \in [Blocks -> Vals]
  /\ dirty \subseteq Blocks
  /\ lh \in Seq(Blocks) /\ Len(lh) <= LOGSIZE
  /\ outstanding \in Nat
  /\ committing \in BOOLEAN
  /\ tail \in 1 .. LOGSIZE + 1
  /\ pc \in [Procs -> {"idle", "begin", "asleep", "op", "append", "write_log",
                       "write_head", "install", "erase", "finish"}]
  /\ blk \in [Procs -> Blocks \cup {NoBlock}]
  /\ wrote \in [Procs -> SUBSET Blocks]
  /\ boot \in {"read_head", "install", "erase", "up"}
  /\ panicked \in BOOLEAN

\* A disk made by mkfs, and the first boot.
Init ==
  /\ \E v \in Vals : /\ disk = [b \in Blocks |-> v]
                     /\ logb = [i \in 1 .. LOGSIZE |-> v]
  /\ head = <<>>
  /\ cache = disk
  /\ dirty = {}
  /\ lh = <<>>
  /\ outstanding = 0
  /\ committing = FALSE
  /\ tail = 1
  /\ pc = [p \in Procs |-> "idle"]
  /\ blk = [p \in Procs |-> NoBlock]
  /\ wrote = [p \in Procs |-> {}]
  /\ boot = "read_head"
  /\ panicked = FALSE

Goto(p, l) == pc' = [pc EXCEPT ![p] = l]

\* Mutant: nobody is woken.
WakeAndGoto_NoWakeup(p, l) == Goto(p, l)

\* wakeup(&log), by a process that goes on to l
WakeAndGoto(p, l) ==
  pc' = [q \in Procs |-> IF q = p THEN l
                         ELSE IF pc[q] = "asleep" THEN "begin" ELSE pc[q]]

----------------------------------------------------------------------------
(* begin_op(), log_write(), end_op()                                        *)

MustWait ==
  committing \/ Len(lh) + (outstanding + 1) * MAXOPBLOCKS > LOGSIZE

BeginSleep(p) ==
  /\ boot = "up"
  /\ pc[p] \in {"idle", "begin"}
  /\ MustWait
  /\ Goto(p, "asleep")
  /\ UNCHANGED <<media, cache, dirty, lh, outstanding, committing, tail, blk,
                 wrote, boot, panicked>>

BeginOp(p) ==
  /\ boot = "up"
  /\ pc[p] \in {"idle", "begin"}
  /\ ~MustWait
  /\ outstanding' = outstanding + 1
  /\ Goto(p, "op")
  /\ UNCHANGED <<media, cache, dirty, lh, committing, tail, blk, wrote, boot,
                 panicked>>

\* The caller has locked and modified block b; log_write makes its tests,
\* before it takes the lock.
LogWrite(p, b, v) ==
  /\ pc[p] = "op"
  /\ \A q \in Procs : blk[q] # b
  /\ b \in wrote[p] \/ Cardinality(wrote[p]) < OPBLOCKS
  /\ cache' = [cache EXCEPT ![b] = v]
  /\ wrote' = [wrote EXCEPT ![p] = @ \cup {b}]
  /\ blk' = [blk EXCEPT ![p] = b]
  /\ Goto(p, "append")
  /\ panicked' = (Len(lh) >= LOGSIZE \/ Len(lh) >= SIZE - 1 \/ outstanding < 1)
  /\ UNCHANGED <<media, dirty, lh, outstanding, committing, tail, boot>>

\* Block b has an entry in header h.
Listed(h, b) == \E i \in 1 .. Len(h) : h[i] = b

\* Mutants: no absorption; the buffer is not pinned.
Entered_Twice(b) == Append(lh, b)

Pinned_Not(b) == dirty

\* ... then enters the block in the header, once, and pins its buffer.
Entered(b) == IF Listed(lh, b) THEN lh ELSE Append(lh, b)

Pinned(b) == dirty \cup {b}

LogAppend(p) ==
  /\ pc[p] = "append"
  /\ lh' = Entered(blk[p])
  /\ dirty' = Pinned(blk[p])
  /\ blk' = [blk EXCEPT ![p] = NoBlock]
  /\ Goto(p, "op")
  /\ UNCHANGED <<media, cache, outstanding, committing, tail, wrote, boot,
                 panicked>>

Ended == outstanding - 1

EndOp(p) ==
  /\ pc[p] = "op"
  /\ outstanding' = Ended
  /\ wrote' = [wrote EXCEPT ![p] = {}]
  /\ panicked' = committing
  /\ IF Ended = 0
     THEN committing' = TRUE /\ Goto(p, "write_log")
     ELSE WakeAndGoto(p, "idle") /\ UNCHANGED committing
  /\ UNCHANGED <<media, cache, dirty, lh, tail, blk, boot>>

----------------------------------------------------------------------------
(* commit(), by the process whose end_op() was the last                     *)

\* A loop over lh at entry tail: do the entry, or leave the loop.
MoreEntries == tail <= Len(lh)

\* Mutant: home blocks are written before the header.
AfterWriteLog_Install == "install"

\* Nothing to commit, or on to the header.
AfterWriteLog == IF lh = <<>> THEN "finish" ELSE "write_head"

WriteLog(p) ==
  /\ pc[p] = "write_log"
  /\ IF MoreEntries
     THEN /\ logb' = [logb EXCEPT ![tail] = cache[lh[tail]]]
          /\ tail' = tail + 1
          /\ UNCHANGED pc
     ELSE /\ tail' = 1
          /\ Goto(p, AfterWriteLog)
          /\ UNCHANGED logb
  /\ UNCHANGED <<disk, head, cache, dirty, lh, outstanding, committing, blk,
                 wrote, boot, panicked>>

\* write_head(): "the true point at which the current transaction commits"
WriteHead(p) ==
  /\ pc[p] = "write_head"
  /\ head' = lh
  /\ Goto(p, "install")
  /\ UNCHANGED <<disk, logb, cache, dirty, lh, outstanding, committing, tail,
                 blk, wrote, boot, panicked>>

\* Mutant: the loop does not advance.
InstallTrans_Stuck ==
  /\ disk' = [disk EXCEPT ![lh[tail]] = logb[tail]]
  /\ cache' = [cache EXCEPT ![lh[tail]] = logb[tail]]
  /\ dirty' = dirty \ {lh[tail]}
  /\ tail' = tail

\* One turn of install_trans(): the home block is written through its buffer.
InstallTrans ==
  /\ disk' = [disk EXCEPT ![lh[tail]] = logb[tail]]
  /\ cache' = [cache EXCEPT ![lh[tail]] = logb[tail]]
  /\ dirty' = dirty \ {lh[tail]}
  /\ tail' = tail + 1

Install(p) ==
  /\ pc[p] = "install"
  /\ IF MoreEntries
     THEN InstallTrans /\ UNCHANGED pc
     ELSE tail' = 1 /\ Goto(p, "erase") /\ UNCHANGED <<disk, cache, dirty>>
  /\ UNCHANGED <<logb, head, lh, outstanding, committing, blk, wrote, boot,
                 panicked>>

\* log.lh.n = 0; write_head()
Erase(p) ==
  /\ pc[p] = "erase"
  /\ lh' = <<>>
  /\ head' = <<>>
  /\ Goto(p, "finish")
  /\ UNCHANGED <<disk, logb, cache, dirty, outstanding, committing, tail, blk,
                 wrote, boot, panicked>>

Finish(p) ==
  /\ pc[p] = "finish"
  /\ committing' = FALSE
  /\ WakeAndGoto(p, "idle")
  /\ UNCHANGED <<media, cache, dirty, lh, outstanding, tail, blk, wrote, boot,
                 panicked>>

----------------------------------------------------------------------------
(* Eviction, crash, and recover_from_log()                                  *)

\* bget() reuses a buffer that is neither dirty nor locked.
Evict(b) ==
  /\ boot = "up"
  /\ b \notin dirty
  /\ \A p \in Procs : blk[p] # b
  /\ cache' = [cache EXCEPT ![b] = disk[b]]
  /\ UNCHANGED <<media, dirty, lh, outstanding, committing, tail, pc, blk,
                 wrote, boot, panicked>>

\* Everything but the disk is lost, and the machine boots again.
Crash ==
  /\ cache' = disk
  /\ dirty' = {}
  /\ lh' = <<>>
  /\ outstanding' = 0
  /\ committing' = FALSE
  /\ tail' = 1
  /\ pc' = [p \in Procs |-> "idle"]
  /\ blk' = [p \in Procs |-> NoBlock]
  /\ wrote' = [p \in Procs |-> {}]
  /\ boot' = "read_head"
  /\ panicked' = FALSE
  /\ UNCHANGED media

ReadHead ==
  /\ boot = "read_head"
  /\ lh' = head
  /\ boot' = "install"
  /\ UNCHANGED <<media, cache, dirty, outstanding, committing, tail, pc, blk,
                 wrote, panicked>>

RecoverInstall ==
  /\ boot = "install"
  /\ IF MoreEntries
     THEN InstallTrans /\ UNCHANGED boot
     ELSE tail' = 1 /\ boot' = "erase" /\ UNCHANGED <<disk, cache, dirty>>
  /\ UNCHANGED <<logb, head, lh, outstanding, committing, pc, blk, wrote,
                 panicked>>

RecoverErase ==
  /\ boot = "erase"
  /\ lh' = <<>>
  /\ head' = <<>>
  /\ boot' = "up"
  /\ UNCHANGED <<disk, logb, cache, dirty, outstanding, committing, tail, pc,
                 blk, wrote, panicked>>

Recover == ReadHead \/ RecoverInstall \/ RecoverErase

Kernel(p) ==
  \/ LogAppend(p) \/ WriteLog(p) \/ WriteHead(p) \/ Install(p) \/ Erase(p)
  \/ Finish(p)

Next ==
  \/ /\ ~panicked
     /\ \/ \E p \in Procs :
             \/ BeginSleep(p) \/ BeginOp(p) \/ EndOp(p) \/ Kernel(p)
             \/ \E b \in Blocks, v \in Vals : LogWrite(p, b, v)
        \/ \E b \in Blocks : Evict(b)
        \/ Recover
  \/ Crash

\* Recovery and a commit run on; an operation that has begun comes to its end.
Fairness ==
  /\ WF_vars(Recover)
  /\ \A p \in Procs : WF_vars(Kernel(p)) /\ SF_vars(EndOp(p))

Spec == Init /\ [][Next]_vars
FairSpec == Spec /\ Fairness

----------------------------------------------------------------------------
(* Properties.                                                              *)

\* What the disk holds once recovery has run: the entries of the header on
\* disk, each with its log block, over the home blocks.
Recovered ==
  [b \in Blocks |->
     LET entries == {i \in 1 .. Len(head) : head[i] = b}
     IN  IF entries = {} THEN disk[b]
         ELSE logb[CHOOSE i \in entries : \A j \in entries : j <= i]]

memory == IF boot = "up" THEN cache ELSE Recovered

\* The processes between begin_op and end_op.
Operating == {p \in Procs : pc[p] \in {"op", "append"}}

Atomic == INSTANCE AtomicDisk WITH
  mem <- memory, stable <- Recovered, ops <- Operating

\* Whatever the interleaving of file system calls, the evictions and the
\* moment of a crash, in the middle of a commit or of recovery included: reads
\* return what was last written, and after a crash the disk is as it was at a
\* moment when no operation was under way.
ImplementsAtomicDisk == Atomic!DiskSpec

\* "log.committing", "too big a transaction" and "log_write outside of trans"
\* do not happen: the room that begin_op reserves is enough.  The counters stay
\* in their range.
NoPanic == TypeOK /\ ~panicked

\* The buffers that log_write has not pinned with B_DIRTY, and that no process
\* is modifying, hold what is on disk: eviction loses no update.
CleanIsOnDisk ==
  \A b \in Blocks :
    cache[b] # disk[b] => b \in dirty \/ \E p \in Procs : blk[p] = b

\* Recovery comes to its end, however often it was cut off by crashes, when
\* they stop.
RecoveryEnds == <>[][~Crash]_vars => <>[](boot = "up")

\* Who sleeps in begin_op is woken.
WaiterWakes == \A p \in Procs : pc[p] = "asleep" ~> pc[p] # "asleep"
=============================================================================
