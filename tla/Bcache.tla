------------------------------- MODULE Bcache -------------------------------
(***************************************************************************)
(* The buffer cache (bio.c), the sleep locks of its buffers (sleeplock.c)  *)
(* and the disk driver under it (ide.c), with its request queue and its    *)
(* interrupt.                                                              *)
(*                                                                         *)
(* A step is one critical section of bcache.lock, of a sleep lock's spin   *)
(* lock or of idelock, or a step of the disk.  A process is one use of a   *)
(* buffer at a time: bread, then changes that it writes (bwrite) or that   *)
(* the log pins (log_write sets B_DIRTY), then brelse.  A kernel thread    *)
(* with two buffers at once (bmap, write_log, install_trans) is two of     *)
(* them.                                                                   *)
(***************************************************************************)
EXTENDS Naturals, Sequences, FiniteSetsExt

CONSTANTS
  Procs,
  Bufs,         \* the NBUF buffers
  Blocks, Vals,
  MaxPinned,    \* bound: buffers that the log keeps pinned at a time
  ReadErrors,   \* whether the disk may report an error on a read
  NoBlock, NoBuf, Nobody

ASSUME BcacheAssumption ==
  /\ NoBlock \notin Blocks /\ NoBuf \notin Bufs /\ Nobody \notin Procs
  /\ MaxPinned \in Nat /\ ReadErrors \in BOOLEAN
  /\ IsFiniteSet(Procs) /\ IsFiniteSet(Bufs)

VARIABLES
  blockno, valid, dirty, refcnt, data,   \* fields of struct buf, by buffer
  lockedby,     \* holder of its sleep lock
  lru,          \* the list of buffers, most recently used first
  idequeue,     \* requests; the first one is the disk's
  cmd,          \* what the disk was told to do: idle, or op, block and data
  disk,
  pc, want, buf,   \* where a process is, its block and its buffer
  panicked      \* "bget: no buffers"

fields == <<blockno, valid, dirty, refcnt, data, lockedby, lru>>
device == <<idequeue, cmd, disk>>
vars == <<blockno, valid, dirty, refcnt, data, lockedby, lru, idequeue, cmd,
          disk, pc, want, buf, panicked>>

Idle == [op |-> "idle", blk |-> NoBlock, val |-> CHOOSE v \in Vals : TRUE]

TypeOK ==
  /\ blockno \in [Bufs -> Blocks \cup {NoBlock}]
  /\ valid \in [Bufs -> BOOLEAN] /\ dirty \in [Bufs -> BOOLEAN]
  /\ refcnt \in [Bufs -> 0 .. Cardinality(Procs)]
  /\ data \in [Bufs -> Vals]
  /\ lockedby \in [Bufs -> Procs \cup {Nobody}]
  /\ lru \in Seq(Bufs) /\ Range(lru) = Bufs /\ Len(lru) = Cardinality(Bufs)
  /\ idequeue \in Seq(Bufs)
  /\ cmd \in [op : {"idle", "read", "write", "done"},
              blk : Blocks \cup {NoBlock}, val : Vals]
  /\ disk \in [Blocks -> Vals]
  /\ pc \in [Procs -> {"idle", "lock", "lsleep", "iderw", "iosleep", "iowait",
                       "have", "unref"}]
  /\ want \in [Procs -> Blocks \cup {NoBlock}]
  /\ buf \in [Procs -> Bufs \cup {NoBuf}]
  /\ panicked \in BOOLEAN

\* binit()
Init ==
  /\ blockno = [b \in Bufs |-> NoBlock]
  /\ valid = [b \in Bufs |-> FALSE] /\ dirty = [b \in Bufs |-> FALSE]
  /\ refcnt = [b \in Bufs |-> 0]
  /\ \E v \in Vals : data = [b \in Bufs |-> v] /\ disk = [k \in Blocks |-> v]
  /\ lockedby = [b \in Bufs |-> Nobody]
  /\ lru = CHOOSE s \in Bijection(1 .. Cardinality(Bufs), Bufs) : TRUE
  /\ idequeue = <<>> /\ cmd = Idle
  /\ pc = [p \in Procs |-> "idle"]
  /\ want = [p \in Procs |-> NoBlock]
  /\ buf = [p \in Procs |-> NoBuf]
  /\ panicked = FALSE

Goto(p, l) == pc' = [pc EXCEPT ![p] = l]

\* wakeup() of those who sleep at `from' on buffer b
Wakeup(from, to, b) ==
  [q \in Procs |-> IF pc[q] = from /\ buf[q] = b THEN to ELSE pc[q]]

----------------------------------------------------------------------------
(* bget()                                                                   *)

\* The block is cached.
BgetHit(p, k) ==
  /\ pc[p] = "idle"
  /\ \E b \in Bufs :
       /\ blockno[b] = k
       /\ refcnt' = [refcnt EXCEPT ![b] = @ + 1]
       /\ buf' = [buf EXCEPT ![p] = b]
  /\ want' = [want EXCEPT ![p] = k]
  /\ Goto(p, "lock")
  /\ UNCHANGED <<blockno, valid, dirty, data, lockedby, lru, device, panicked>>

\* Mutant: a buffer that the log has pinned is recycled too.
Unused_Pinned(b) == refcnt[b] = 0

Unused(b) == refcnt[b] = 0 /\ ~dirty[b]

\* Where in the list there are buffers to recycle
Free == {i \in DOMAIN lru : Unused(lru[i])}

\* It is not: the least recently used buffer that is not in use is recycled.
BgetMiss(p, k) ==
  LET b == lru[Max(Free)]
  IN  /\ pc[p] = "idle"
      /\ \A c \in Bufs : blockno[c] # k
      /\ Free # {}
      /\ blockno' = [blockno EXCEPT ![b] = k]
      /\ valid' = [valid EXCEPT ![b] = FALSE]
      /\ dirty' = [dirty EXCEPT ![b] = FALSE]
      /\ refcnt' = [refcnt EXCEPT ![b] = 1]
      /\ buf' = [buf EXCEPT ![p] = b]
      /\ want' = [want EXCEPT ![p] = k]
      /\ Goto(p, "lock")
      /\ UNCHANGED <<data, lockedby, lru, device, panicked>>

\* Every buffer is in use or pinned: "bget: no buffers", and the kernel stops.
BgetPanic(p, k) ==
  /\ pc[p] = "idle"
  /\ \A c \in Bufs : blockno[c] # k
  /\ Free = {}
  /\ panicked' = TRUE
  /\ UNCHANGED <<fields, device, pc, want, buf>>

\* acquiresleep(&b->lock); then bread() tests B_VALID
AcquireSleep(p) ==
  /\ pc[p] = "lock"
  /\ lockedby[buf[p]] = Nobody
  /\ lockedby' = [lockedby EXCEPT ![buf[p]] = p]
  /\ Goto(p, IF valid[buf[p]] THEN "have" ELSE "iderw")
  /\ UNCHANGED <<blockno, valid, dirty, refcnt, data, lru, device, want, buf,
                 panicked>>

LockSleep(p) ==
  /\ pc[p] = "lock"
  /\ lockedby[buf[p]] # Nobody
  /\ Goto(p, "lsleep")
  /\ UNCHANGED <<fields, device, want, buf, panicked>>

----------------------------------------------------------------------------
(* iderw(), the disk, and ideintr()                                         *)

\* idestart(): a write hands the data over at once
Idestart(b) ==
  [op |-> IF dirty[b] THEN "write" ELSE "read", blk |-> blockno[b],
   val |-> IF dirty[b] THEN data[b] ELSE Idle.val]

\* The request joins the queue, is started if it is alone, and p waits.
Iderw(p) ==
  /\ pc[p] = "iderw"
  /\ idequeue' = Append(idequeue, buf[p])
  /\ cmd' = IF idequeue = <<>> THEN Idestart(buf[p]) ELSE cmd
  /\ Goto(p, "iosleep")
  /\ UNCHANGED <<fields, disk, want, buf, panicked>>

\* Awake, p tests the flags again.
IoReturn(p) ==
  /\ pc[p] = "iowait"
  /\ Goto(p, IF valid[buf[p]] /\ ~dirty[buf[p]] THEN "have" ELSE "iosleep")
  /\ UNCHANGED <<fields, device, want, buf, panicked>>

\* The disk does what it was told, and raises its interrupt.
DiskWorks ==
  /\ cmd.op \in {"read", "write"}
  /\ disk' = IF cmd.op = "write" THEN [disk EXCEPT ![cmd.blk] = cmd.val] ELSE disk
  /\ cmd' = [cmd EXCEPT !.op = "done"]
  /\ UNCHANGED <<fields, idequeue, pc, want, buf, panicked>>

\* Mutant: the disk is not started on the next request.
NextCmd_Idle == Idle

\* The disk goes on with the next request.
NextCmd == IF Tail(idequeue) = <<>> THEN Idle ELSE Idestart(idequeue[2])

IoWakeup(b) == Wakeup("iosleep", "iowait", b)

\* On a read error the buffer keeps the data it has.
Ideintr ==
  /\ cmd.op = "done"
  /\ LET b == Head(idequeue)
     IN  /\ \E ok \in IF ReadErrors THEN BOOLEAN ELSE {TRUE} :
              data' = [data EXCEPT ![b] = IF ~dirty[b] /\ ok THEN disk[blockno[b]]
                                          ELSE @]
         /\ valid' = [valid EXCEPT ![b] = TRUE]
         /\ dirty' = [dirty EXCEPT ![b] = FALSE]
         /\ pc' = IoWakeup(b)
  /\ idequeue' = Tail(idequeue)
  /\ cmd' = NextCmd
  /\ UNCHANGED <<blockno, refcnt, lockedby, lru, disk, want, buf, panicked>>

----------------------------------------------------------------------------
(* What the holder of a buffer does.                                        *)

\* It changes the data and calls bwrite().
Bwrite(p, v) ==
  /\ pc[p] = "have"
  /\ data' = [data EXCEPT ![buf[p]] = v]
  /\ dirty' = [dirty EXCEPT ![buf[p]] = TRUE]
  /\ Goto(p, "iderw")
  /\ UNCHANGED <<blockno, valid, refcnt, lockedby, lru, device, want, buf,
                 panicked>>

\* It changes the data and calls log_write(), which sets B_DIRTY.
Pin(p, v) ==
  /\ pc[p] = "have"
  /\ dirty[buf[p]] \/ Cardinality({b \in Bufs : dirty[b]}) < MaxPinned
  /\ data' = [data EXCEPT ![buf[p]] = v]
  /\ dirty' = [dirty EXCEPT ![buf[p]] = TRUE]
  /\ UNCHANGED <<blockno, valid, refcnt, lockedby, lru, device, pc, want, buf,
                 panicked>>

\* brelse(): the sleep lock first ...
BrelseUnlock(p) ==
  /\ pc[p] = "have"
  /\ lockedby' = [lockedby EXCEPT ![buf[p]] = Nobody]
  /\ pc' = [Wakeup("lsleep", "lock", buf[p]) EXCEPT ![p] = "unref"]
  /\ UNCHANGED <<blockno, valid, dirty, refcnt, data, lru, device, want, buf,
                 panicked>>

\* Mutant: the count is dropped to zero whoever else has the buffer.
Unref_Zero(b) == 0

Unref(b) == refcnt[b] - 1

\* Unlinked from where it is in the list, the buffer becomes the first.
MoveToFront(b) ==
  LET i == CHOOSE i \in DOMAIN lru : lru[i] = b
  IN  <<b>> \o (SubSeq(lru, 1, i - 1) \o SubSeq(lru, i + 1, Len(lru)))

\* ... then the reference; a buffer nobody waits for becomes the most recent.
Brelse(p) ==
  /\ pc[p] = "unref"
  /\ refcnt' = [refcnt EXCEPT ![buf[p]] = Unref(buf[p])]
  /\ lru' = IF refcnt'[buf[p]] = 0 THEN MoveToFront(buf[p]) ELSE lru
  /\ Goto(p, "idle")
  /\ want' = [want EXCEPT ![p] = NoBlock]
  /\ buf' = [buf EXCEPT ![p] = NoBuf]
  /\ UNCHANGED <<blockno, valid, dirty, data, lockedby, device, panicked>>

Holder(p) ==
  BrelseUnlock(p) \/ \E v \in Vals : Bwrite(p, v) \/ Pin(p, v)

Kernel(p) == AcquireSleep(p) \/ LockSleep(p) \/ Iderw(p) \/ IoReturn(p) \/ Brelse(p)

Bget(p) == \E k \in Blocks : BgetHit(p, k) \/ BgetMiss(p, k) \/ BgetPanic(p, k)

Halted == panicked /\ UNCHANGED vars

Next ==
  \/ /\ ~panicked
     /\ \/ \E p \in Procs : Bget(p) \/ Kernel(p) \/ Holder(p)
        \/ DiskWorks \/ Ideintr
  \/ Halted

Spec == Init /\ [][Next]_vars

----------------------------------------------------------------------------
(* Properties.                                                              *)

\* The processes that hold block k: from the return of bread() to brelse().
Holders(k) ==
  {p \in Procs : /\ want[p] = k
                 /\ \/ pc[p] = "have"
                    \/ pc[p] \in {"iderw", "iosleep", "iowait"} /\ valid[buf[p]]}

\* The buffers with the contents of block k.
Copies(k) == {b \in Bufs : blockno[b] = k /\ valid[b]}

contents ==
  [k \in Blocks |-> IF Copies(k) = {} THEN disk[k] ELSE data[CHOOSE b \in Copies(k) : TRUE]]

holderOf ==
  [k \in Blocks |-> IF Holders(k) = {} THEN Nobody ELSE CHOOSE p \in Holders(k) : TRUE]

Store == INSTANCE BlockStore WITH mem <- contents, holder <- holderOf

\* Recycling, write-back, the queue of the disk and the lock hand-over are
\* invisible: a block has one holder at a time, who finds in it what the last
\* holder left.
ImplementsStore == Store!StoreSpec

\* A block is in at most one buffer, and the buffer a process has a reference
\* to is not recycled under it, not even while it waits for the lock; every
\* variable keeps its type.
OneCopy ==
  /\ TypeOK
  /\ \A b, c \in Bufs : b # c /\ blockno[b] # NoBlock => blockno[b] # blockno[c]
  /\ \A p \in Procs : buf[p] # NoBuf => blockno[buf[p]] = want[p]

\* The buffer b is in queue s.
Queued(s, b) == \E i \in 1 .. Len(s) : s[i] = b

\* Nobody sleeps without a reason, and the disk never idles over a request: a
\* sleeper on the lock sees it held, a sleeper in iderw() has its buffer in the
\* queue, and the disk works on the head of the queue.
NoLostRequest ==
  /\ \A p \in Procs :
       /\ pc[p] = "lsleep" => lockedby[buf[p]] # Nobody
       /\ pc[p] = "iosleep" => Queued(idequeue, buf[p])
  /\ IF idequeue = <<>> THEN cmd = Idle
     ELSE cmd.op # "idle" /\ cmd.blk = blockno[Head(idequeue)]
=============================================================================
