---------------------------- MODULE BcacheProofs ----------------------------
(***************************************************************************)
(* Proofs about Bcache, for every number of processes, buffers and blocks: *)
(* its invariant, and that it implements the store of BlockStore when the  *)
(* disk reads without error.                                               *)
(***************************************************************************)
EXTENDS Bcache, Integers, FiniteSetTheorems, TLAPS

----------------------------------------------------------------------------
(* The inductive invariant.                                                 *)

\* A buffer's reference count is the number of processes that have it.
Users(b) == {p \in Procs : buf[p] = b}

RefInv == \A b \in Bufs : refcnt[b] = Cardinality(Users(b))

\* A process inside the cache has the one buffer of the block it wants.
SlotInv ==
  /\ \A p \in Procs : pc[p] = "idle" <=> buf[p] = NoBuf
  /\ \A p \in Procs : buf[p] # NoBuf => want[p] \in Blocks /\ blockno[buf[p]] = want[p]
  /\ \A b, c \in Bufs : blockno[b] = blockno[c] /\ blockno[b] # NoBlock => b = c

\* The sleep lock says who is between acquiresleep() and releasesleep().
Owning == {"iderw", "iosleep", "iowait", "have"}

LockInv ==
  /\ \A p \in Procs, b \in Bufs : lockedby[b] = p <=> buf[p] = b /\ pc[p] \in Owning
  /\ \A p \in Procs : pc[p] = "lsleep" => lockedby[buf[p]] # Nobody

\* What B_VALID and B_DIRTY mean for the process that has the buffer locked.
FlagInv ==
  /\ \A b \in Bufs : dirty[b] => valid[b]
  /\ \A b \in Bufs : valid[b] => blockno[b] # NoBlock
  /\ \A p \in Procs : pc[p] \in {"have", "iowait"} => valid[buf[p]]
  /\ \A p \in Procs : pc[p] = "iowait" => ~dirty[buf[p]]
  /\ \A p \in Procs : pc[p] \in {"iderw", "iosleep"} => (valid[buf[p]] <=> dirty[buf[p]])

\* The queue holds each buffer whose holder sleeps in iderw(), once, and the
\* disk works on the first.
Distinct(s) == \A i, j \in 1 .. Len(s) : s[i] = s[j] => i = j

Working(b) ==
  /\ cmd.op # "idle" /\ cmd.blk = blockno[b]
  /\ cmd.op = "write" => dirty[b] /\ cmd.val = data[b]
  /\ cmd.op = "read" => ~dirty[b]
  /\ cmd.op = "done" /\ dirty[b] => disk[cmd.blk] = data[b]

QueueInv ==
  /\ Distinct(idequeue)
  /\ \A b \in Bufs : Queued(idequeue, b) <=> \E p \in Procs : pc[p] = "iosleep" /\ buf[p] = b
  /\ IF idequeue = <<>> THEN cmd = Idle ELSE Working(Head(idequeue))

CacheInv == TypeOK /\ RefInv /\ SlotInv /\ LockInv /\ FlagInv /\ QueueInv

----------------------------------------------------------------------------
(* The choice that bget() makes.                                            *)

\* A set of positions of a list has a last one.
LEMMA LastPosition ==
  ASSUME NEW n \in Nat, NEW S \in SUBSET (1 .. n), S # {}
  PROVE  Max(S) \in S
<1> DEFINE D == {n - i : i \in S}
<1>1. D \subseteq Nat /\ D # {}
  <2>1. \A i \in S : n - i \in Nat
    OBVIOUS
  <2>2. \A i \in S : n - i \in D
    BY Zenon
  <2> QED
    BY <2>1, <2>2, Zenon
<1> HIDE DEF D
<1>2. PICK d \in D : \A e \in D : <<e, d>> \notin OpToRel(<, Nat)
  BY <1>1, WFMin, NatLessThanWellFounded, Zenon
<1>3. \A e \in D : ~(e < d)
  BY <1>1, <1>2, Zenon DEF OpToRel
<1>4. PICK m \in S : d = n - m
  BY Zenon DEF D
<1>5. \A i \in S : n - i \in D
  BY Zenon DEF D
<1>6. \A i \in S : m >= i
  BY <1>3, <1>4, <1>5
<1> QED
  BY <1>6, Zenon DEF Max

\* What bget() does with a buffer that nobody has and that is not to be written.
Recycles(p, k, b) ==
  /\ refcnt[b] = 0 /\ dirty[b] = FALSE
  /\ pc[p] = "idle" /\ \A c \in Bufs : blockno[c] # k
  /\ blockno' = [blockno EXCEPT ![b] = k]
  /\ valid' = [valid EXCEPT ![b] = FALSE]
  /\ dirty' = [dirty EXCEPT ![b] = FALSE]
  /\ refcnt' = [refcnt EXCEPT ![b] = 1]
  /\ buf' = [buf EXCEPT ![p] = b]
  /\ want' = [want EXCEPT ![p] = k]
  /\ pc' = [pc EXCEPT ![p] = "lock"]
  /\ UNCHANGED <<data, lockedby, lru, idequeue, cmd, disk, panicked>>

\* The last free buffer of the list is one.
LEMMA MissRecycles ==
  ASSUME CacheInv, NEW p \in Procs, NEW k \in Blocks, BgetMiss(p, k)
  PROVE  \E b \in Bufs : Recycles(p, k, b)
<1> DEFINE b == lru[Max(Free)]
<1>1. pc[p] = "idle" /\ Free # {}
  BY Zenon DEF BgetMiss
<1>2. lru \in Seq(Bufs)
  BY Zenon DEF CacheInv, TypeOK
<1>3. Len(lru) \in Nat /\ Free \in SUBSET (1 .. Len(lru))
  BY <1>2 DEF Free
<1>4. Max(Free) \in Free
  BY <1>1, <1>3, LastPosition, Zenon
<1>5. b \in Bufs /\ Unused(b)
  BY <1>2, <1>4 DEF Free
<1>6. refcnt[b] = 0 /\ dirty[b] = FALSE
  <2>1. dirty[b] \in BOOLEAN
    BY <1>5, Zenon DEF CacheInv, TypeOK
  <2> QED
    BY <1>5, <2>1, Zenon DEF Unused
<1>7. /\ \A c \in Bufs : blockno[c] # k
       /\ blockno' = [blockno EXCEPT ![b] = k]
       /\ valid' = [valid EXCEPT ![b] = FALSE]
       /\ dirty' = [dirty EXCEPT ![b] = FALSE]
       /\ refcnt' = [refcnt EXCEPT ![b] = 1]
       /\ buf' = [buf EXCEPT ![p] = b]
       /\ want' = [want EXCEPT ![p] = k]
       /\ pc' = [pc EXCEPT ![p] = "lock"]
       /\ UNCHANGED <<data, lockedby, lru, idequeue, cmd, disk, panicked>>
  BY Zenon DEF BgetMiss, Goto, device
<1> HIDE DEF b
<1> QED
  BY <1>1, <1>5, <1>6, <1>7, Zenon DEF Recycles

\* brelse() reorders the list and loses no buffer of it.
LEMMA FrontKeeps ==
  ASSUME lru \in Seq(Bufs), NEW b \in Bufs, Range(lru) = Bufs
  PROVE  /\ MoveToFront(b) \in Seq(Bufs)
         /\ Range(MoveToFront(b)) = Bufs
         /\ Len(MoveToFront(b)) = Len(lru)
<1> DEFINE i == CHOOSE i \in DOMAIN lru : lru[i] = b
           s == SubSeq(lru, 1, i - 1) \o SubSeq(lru, i + 1, Len(lru))
<1>1. i \in DOMAIN lru /\ lru[i] = b
  BY Zenon DEF Range
<1>2. i \in 1 .. Len(lru) /\ Len(lru) \in Nat
  BY <1>1
<1>3. MoveToFront(b) = <<b>> \o s
  BY Zenon DEF MoveToFront
<1> HIDE DEF i
<1>4. s = SubSeq(lru, 1, i - 1) \o SubSeq(lru, i + 1, Len(lru))
  BY Zenon
<1> HIDE DEF s
<1>5. /\ SubSeq(lru, 1, i - 1) \in Seq(Bufs) /\ Len(SubSeq(lru, 1, i - 1)) = i - 1
      /\ SubSeq(lru, i + 1, Len(lru)) \in Seq(Bufs)
      /\ Len(SubSeq(lru, i + 1, Len(lru))) = Len(lru) - i
      /\ \A j \in 1 .. i - 1 : SubSeq(lru, 1, i - 1)[j] = lru[j]
      /\ \A j \in 1 .. Len(lru) - i : SubSeq(lru, i + 1, Len(lru))[j] = lru[i + j]
  BY <1>2
<1>6. /\ s \in Seq(Bufs) /\ Len(s) = Len(lru) - 1
      /\ \A j \in 1 .. i - 1 : s[j] = lru[j]
      /\ \A j \in i .. Len(lru) - 1 : s[j] = lru[j + 1]
  <2> DEFINE x == SubSeq(lru, 1, i - 1)
             y == SubSeq(lru, i + 1, Len(lru))
  <2>1. /\ s = x \o y /\ x \in Seq(Bufs) /\ Len(x) = i - 1
        /\ y \in Seq(Bufs) /\ Len(y) = Len(lru) - i
        /\ \A j \in 1 .. i - 1 : x[j] = lru[j]
        /\ \A j \in 1 .. Len(lru) - i : y[j] = lru[i + j]
    BY <1>4, <1>5, Zenon
  <2> HIDE DEF x, y
  <2>2. s \in Seq(Bufs) /\ Len(s) = Len(lru) - 1
    <3>1. x \in Seq(Bufs) /\ y \in Seq(Bufs)
      BY <2>1, Zenon
    <3>2. x \o y \in Seq(Bufs)
      BY <3>1, Z3
    <3>3. Len(x \o y) = Len(x) + Len(y)
      BY <3>1
    <3> QED
      BY <1>2, <2>1, <3>2, <3>3
  <2>3. \A j \in 1 .. i - 1 : s[j] = lru[j]
    BY <1>2, <2>1
  <2>4. ASSUME NEW j \in i .. Len(lru) - 1 PROVE s[j] = lru[j + 1]
    <3>1. s[j] = y[j - (i - 1)] /\ j - (i - 1) \in 1 .. Len(lru) - i
      BY <1>2, <2>1
    <3>2. i + (j - (i - 1)) = j + 1
      BY <1>2
    <3> QED
      BY <2>1, <3>1, <3>2, Zenon
  <2> QED
    BY <2>2, <2>3, <2>4, Zenon
<1>7. /\ <<b>> \o s \in Seq(Bufs) /\ Len(<<b>> \o s) = Len(lru)
      /\ (<<b>> \o s)[1] = b
      /\ \A j \in 1 .. Len(lru) - 1 : (<<b>> \o s)[j + 1] = s[j]
  BY <1>2, <1>6
<1> DEFINE t == <<b>> \o s
<1> HIDE DEF t
<1>8. \A c \in Bufs : \E j \in 1 .. Len(t) : t[j] = c
  <2> SUFFICES ASSUME NEW c \in Bufs PROVE \E j \in 1 .. Len(t) : t[j] = c
    BY Zenon
  <2>1. PICK j \in 1 .. Len(lru) : lru[j] = c
    BY DEF Range
  <2>2. CASE j < i
    <3>1. j \in 1 .. i - 1 /\ j \in 1 .. Len(lru) - 1 /\ j + 1 \in 1 .. Len(lru)
      BY <1>2, <2>2
    <3>2. t[j + 1] = c
      BY <1>6, <1>7, <2>1, <3>1, Zenon DEF t
    <3> QED
      BY <1>7, <3>1, <3>2, Zenon DEF t
  <2>3. CASE j = i
    BY <1>1, <1>2, <1>7, <2>1, <2>3 DEF t
  <2>4. CASE j > i
    <3>1. j - 1 \in i .. Len(lru) - 1 /\ j - 1 \in 1 .. Len(lru) - 1
      BY <1>2, <2>4
    <3>2. s[j - 1] = c /\ t[j] = s[j - 1]
      BY <1>2, <1>6, <1>7, <2>1, <3>1 DEF t
    <3> QED
      BY <1>7, <3>2, Zenon DEF t
  <2> QED
    BY <1>2, <2>2, <2>3, <2>4
<1>9. Range(t) = Bufs
  <2>1. t \in Seq(Bufs) /\ DOMAIN t = 1 .. Len(t) /\ \A j \in 1 .. Len(t) : t[j] \in Bufs
    BY <1>7 DEF t
  <2> QED
    BY <1>8, <2>1, ZenonT(30) DEF Range
<1> QED
  BY <1>3, <1>7, <1>9, Zenon DEF t

----------------------------------------------------------------------------
(* Each step keeps the invariant.                                           *)

\* All but the panic.
cache == <<blockno, valid, dirty, refcnt, data, lockedby, lru, idequeue, cmd, disk,
           pc, want, buf>>

\* The kernel panics, has panicked, or nothing happens.
Stops == \/ Halted \/ UNCHANGED vars
         \/ \E p \in Procs, k \in Blocks : BgetPanic(p, k)

\* A panic changes nothing in the cache.
LEMMA StopsQuiet ==
  ASSUME TypeOK, Stops
  PROVE  UNCHANGED cache /\ panicked' \in BOOLEAN
  BY Zenon DEF Stops, Halted, BgetPanic, vars, cache, fields, device, TypeOK

\* The disk works for the process that sleeps on the head of the queue.
LEMMA DiskServes ==
  ASSUME CacheInv, cmd.op # "idle"
  PROVE  /\ idequeue # <<>> /\ idequeue[1] = Head(idequeue) /\ Head(idequeue) \in Bufs
         /\ Working(Head(idequeue))
         /\ \E p \in Procs : pc[p] = "iosleep" /\ buf[p] = Head(idequeue)
<1>1. idequeue \in Seq(Bufs)
  BY Zenon DEF CacheInv, TypeOK
<1>2. idequeue # <<>>
  BY DEF CacheInv, QueueInv, Idle
<1>3. idequeue[1] = Head(idequeue) /\ Head(idequeue) \in Bufs /\ 1 \in 1 .. Len(idequeue)
  BY <1>1, <1>2
<1>4. Queued(idequeue, Head(idequeue))
  BY <1>3, Zenon DEF Queued
<1> QED
  BY <1>2, <1>3, <1>4, Zenon DEF CacheInv, QueueInv

\* A command of the disk has its type.
LEMMA CmdType ==
  ASSUME TypeOK, NEW b \in Bufs
  PROVE  /\ Idle \in [op : {"idle", "read", "write", "done"},
                      blk : Blocks \cup {NoBlock}, val : Vals]
         /\ Idestart(b) \in [op : {"idle", "read", "write", "done"},
                             blk : Blocks \cup {NoBlock}, val : Vals]
<1>1. data[b] \in Vals /\ blockno[b] \in Blocks \cup {NoBlock}
  BY Zenon DEF TypeOK
<1>2. (CHOOSE v \in Vals : TRUE) \in Vals
  BY <1>1, Zenon
<1> QED
  BY <1>1, <1>2, Zenon DEF Idle, Idestart

\* At most every process has a buffer.
LEMMA UsersBound ==
  ASSUME NEW b
  PROVE  /\ IsFiniteSet(Users(b)) /\ Cardinality(Users(b)) \in Nat
         /\ Cardinality(Users(b)) <= Cardinality(Procs)
         /\ Cardinality(Users(b)) = 0 <=> Users(b) = {}
<1>1. IsFiniteSet(Procs) /\ Users(b) \in SUBSET Procs
  BY BcacheAssumption, Zenon DEF Users
<1>2. IsFiniteSet(Users(b)) /\ Cardinality(Users(b)) <= Cardinality(Procs)
  BY <1>1, FS_Subset, Zenon
<1> QED
  BY <1>2, FS_CardinalityType, FS_EmptySet, Zenon

\* A process that takes a buffer is one user more of it ...
LEMMA UserJoins ==
  ASSUME TypeOK, RefInv, NEW p \in Procs, NEW b \in Bufs, buf[p] = NoBuf, NoBuf \notin Bufs,
         refcnt' = [refcnt EXCEPT ![b] = @ + 1], buf' = [buf EXCEPT ![p] = b]
  PROVE  RefInv'
<1> SUFFICES ASSUME NEW c \in Bufs PROVE refcnt'[c] = Cardinality(Users(c)')
  BY Zenon DEF RefInv
<1>1. refcnt \in [Bufs -> 0 .. Cardinality(Procs)] /\ buf \in [Procs -> Bufs \cup {NoBuf}]
  BY Zenon DEF TypeOK
<1>2. CASE c = b
  <2>1. Users(c)' = Users(b) \cup {p} /\ p \notin Users(b)
    BY <1>1, <1>2, Zenon DEF Users
  <2>2. Cardinality(Users(b) \cup {p}) = Cardinality(Users(b)) + 1
    BY <2>1, FS_AddElement, UsersBound, Zenon
  <2> QED
    BY <1>1, <1>2, <2>1, <2>2, Zenon DEF RefInv
<1>3. CASE c # b
  <2>1. Users(c)' = Users(c)
    BY <1>1, <1>3, Zenon DEF Users
  <2> QED
    BY <1>1, <1>3, <2>1, Zenon DEF RefInv
<1> QED
  BY <1>2, <1>3, Zenon

\* ... and one that gives it back is one less.
LEMMA UserLeaves ==
  ASSUME TypeOK, RefInv, NEW p \in Procs, buf[p] \in Bufs,
         refcnt' = [refcnt EXCEPT ![buf[p]] = @ - 1], buf' = [buf EXCEPT ![p] = NoBuf]
  PROVE  RefInv'
<1> SUFFICES ASSUME NEW c \in Bufs PROVE refcnt'[c] = Cardinality(Users(c)')
  BY Zenon DEF RefInv
<1>1. /\ refcnt \in [Bufs -> 0 .. Cardinality(Procs)] /\ buf \in [Procs -> Bufs \cup {NoBuf}]
      /\ NoBuf \notin Bufs
  BY BcacheAssumption, Zenon DEF TypeOK
<1>2. CASE c = buf[p]
  <2>1. Users(c)' = Users(c) \ {p} /\ p \in Users(c)
    BY <1>1, <1>2, Zenon DEF Users
  <2>2. Cardinality(Users(c) \ {p}) = Cardinality(Users(c)) - 1
    BY <2>1, FS_RemoveElement, UsersBound, Zenon
  <2> QED
    BY <1>1, <1>2, <2>1, <2>2, Zenon DEF RefInv
<1>3. CASE c # buf[p]
  <2>1. Users(c)' = Users(c)
    BY <1>1, <1>3, Zenon DEF Users
  <2> QED
    BY <1>1, <1>3, <2>1, Zenon DEF RefInv
<1> QED
  BY <1>2, <1>3, Zenon

\* The reference counts go with what the processes have.
LEMMA RefStep ==
  ASSUME CacheInv, [Next]_vars
  PROVE  RefInv'
<1> USE DEF Goto, fields, device, CacheInv, RefInv, Users
<1>1. ASSUME NEW p \in Procs, NEW k \in Blocks, BgetHit(p, k), ~panicked PROVE RefInv'
  <2>1. PICK b \in Bufs : refcnt' = [refcnt EXCEPT ![b] = @ + 1] /\ buf' = [buf EXCEPT ![p] = b]
    BY <1>1, Zenon DEF BgetHit
  <2>2. buf[p] = NoBuf /\ NoBuf \notin Bufs
    BY <1>1, BcacheAssumption, Zenon DEF BgetHit, SlotInv
  <2> QED
    BY <2>1, <2>2, UserJoins, Zenon
<1>2. ASSUME NEW p \in Procs, NEW k \in Blocks, BgetMiss(p, k), ~panicked PROVE RefInv'
  <2>1. PICK b \in Bufs : Recycles(p, k, b)
    BY <1>2, MissRecycles, Zenon
  <2>2. buf[p] = NoBuf /\ NoBuf \notin Bufs
    BY <1>2, BcacheAssumption, Zenon DEF BgetMiss, SlotInv
  <2>3. refcnt' = [refcnt EXCEPT ![b] = @ + 1] /\ buf' = [buf EXCEPT ![p] = b]
    BY <2>1 DEF Recycles
  <2> QED
    BY <2>2, <2>3, UserJoins, Zenon
<1>3. ASSUME NEW p \in Procs, AcquireSleep(p), ~panicked PROVE RefInv'
  BY <1>3, Zenon DEF AcquireSleep, vars
<1>4. ASSUME NEW p \in Procs, LockSleep(p), ~panicked PROVE RefInv'
  BY <1>4, Zenon DEF LockSleep, vars
<1>5. ASSUME NEW p \in Procs, Iderw(p), ~panicked PROVE RefInv'
  BY <1>5, Zenon DEF Iderw, vars
<1>6. ASSUME NEW p \in Procs, IoReturn(p), ~panicked PROVE RefInv'
  BY <1>6, Zenon DEF IoReturn, vars
<1>7. ASSUME NEW p \in Procs, Brelse(p), ~panicked PROVE RefInv'
  <2>1. buf[p] \in Bufs
    BY <1>7, Zenon DEF Brelse, SlotInv, TypeOK
  <2>2. refcnt' = [refcnt EXCEPT ![buf[p]] = @ - 1] /\ buf' = [buf EXCEPT ![p] = NoBuf]
    BY <1>7, Zenon DEF Brelse, Unref
  <2> QED
    BY <2>1, <2>2, UserLeaves, Zenon
<1>8. ASSUME NEW p \in Procs, BrelseUnlock(p), ~panicked PROVE RefInv'
  BY <1>8, Zenon DEF BrelseUnlock, vars
<1>9. ASSUME NEW p \in Procs, NEW v \in Vals, Bwrite(p, v), ~panicked PROVE RefInv'
  BY <1>9, Zenon DEF Bwrite, vars
<1>10. ASSUME NEW p \in Procs, NEW v \in Vals, Pin(p, v), ~panicked PROVE RefInv'
  BY <1>10, Zenon DEF Pin, vars
<1>11. CASE DiskWorks
  BY <1>11, Zenon DEF DiskWorks, vars
<1>12. CASE Ideintr
  BY <1>12, Zenon DEF Ideintr, vars
<1>13. CASE Stops
  BY <1>13, StopsQuiet, Zenon DEF cache
<1> QED
  BY <1>1, <1>2, <1>3, <1>4, <1>5, <1>6, <1>7, <1>8, <1>9, <1>10, <1>11, <1>12, <1>13,
     Zenon DEF Next, Bget, Kernel, Holder, Stops

\* Counts that count users are in their range.
LEMMA CountType ==
  ASSUME TypeOK, NEW f, DOMAIN f = Bufs, f = [b \in Bufs |-> f[b]],
         \A b \in Bufs : \E S \in SUBSET Procs : f[b] = Cardinality(S)
  PROVE  f \in [Bufs -> 0 .. Cardinality(Procs)]
<1>1. IsFiniteSet(Procs)
  BY BcacheAssumption, Zenon
<1>2. \A S \in SUBSET Procs : Cardinality(S) \in Nat /\ Cardinality(S) <= Cardinality(Procs)
  BY <1>1, FS_Subset, FS_CardinalityType, Zenon
<1>3. Cardinality(Procs) \in Nat
  BY <1>1, FS_CardinalityType, Zenon
<1>4. \A b \in Bufs : f[b] \in 0 .. Cardinality(Procs)
  BY <1>2, <1>3
<1> QED
  BY <1>4, Zenon

\* The reference counts keep their type.
LEMMA CountStep ==
  ASSUME CacheInv, [Next]_vars, DOMAIN refcnt' = Bufs, refcnt' = [b \in Bufs |-> refcnt'[b]]
  PROVE  refcnt' \in [Bufs -> 0 .. Cardinality(Procs)]
<1>1. RefInv'
  BY RefStep, Zenon
<1>2. \A b \in Bufs : refcnt'[b] = Cardinality(Users(b)')
  BY <1>1, Zenon DEF RefInv
<1>3. \A b \in Bufs : Users(b)' \in SUBSET Procs
  BY Zenon DEF Users
<1> QED
  BY <1>2, <1>3, CountType, Zenon DEF CacheInv

\* The variables keep their types.
LEMMA TypeStep ==
  ASSUME CacheInv, [Next]_vars
  PROVE  TypeOK'
<1> USE DEF Goto, fields, device, CacheInv
<1>1. ASSUME NEW p \in Procs, NEW k \in Blocks, BgetHit(p, k), ~panicked PROVE TypeOK'
  <2>1. PICK b \in Bufs : refcnt' = [refcnt EXCEPT ![b] = @ + 1] /\ buf' = [buf EXCEPT ![p] = b]
    BY <1>1, Zenon DEF BgetHit
  <2>2. refcnt' \in [Bufs -> 0 .. Cardinality(Procs)]
    BY <2>1, CountStep, Zenon DEF TypeOK
  <2> QED
    BY <1>1, <2>1, <2>2, Zenon DEF BgetHit, TypeOK
<1>2. ASSUME NEW p \in Procs, NEW k \in Blocks, BgetMiss(p, k), ~panicked PROVE TypeOK'
  <2>1. PICK b \in Bufs : Recycles(p, k, b)
    BY <1>2, MissRecycles, Zenon
  <2>2. refcnt' \in [Bufs -> 0 .. Cardinality(Procs)]
    BY <2>1, CountStep, Zenon DEF Recycles, TypeOK
  <2> QED
    BY <2>1, <2>2, Zenon DEF Recycles, TypeOK
<1>3. ASSUME NEW p \in Procs, AcquireSleep(p), ~panicked PROVE TypeOK'
  <2>1. buf[p] \in Bufs
    BY <1>3, Zenon DEF AcquireSleep, SlotInv, TypeOK
  <2> QED
    BY <1>3, <2>1, Zenon DEF AcquireSleep, TypeOK
<1>4. ASSUME NEW p \in Procs, LockSleep(p), ~panicked PROVE TypeOK'
  BY <1>4, Zenon DEF LockSleep, TypeOK, vars
<1>5. ASSUME NEW p \in Procs, Iderw(p), ~panicked PROVE TypeOK'
  <2>1. buf[p] \in Bufs
    BY <1>5, Zenon DEF Iderw, SlotInv, TypeOK
  <2>2. cmd' \in [op : {"idle", "read", "write", "done"},
                  blk : Blocks \cup {NoBlock}, val : Vals]
    BY <1>5, <2>1, CmdType, Zenon DEF Iderw, TypeOK
  <2>3. idequeue' \in Seq(Bufs)
    BY <1>5, <2>1 DEF Iderw, TypeOK
  <2> QED
    BY <1>5, <2>2, <2>3, Zenon DEF Iderw, TypeOK
<1>6. ASSUME NEW p \in Procs, IoReturn(p), ~panicked PROVE TypeOK'
  BY <1>6, Zenon DEF IoReturn, TypeOK, vars
<1>7. ASSUME NEW p \in Procs, Brelse(p), ~panicked PROVE TypeOK'
  <2>1. buf[p] \in Bufs
    BY <1>7, Zenon DEF Brelse, SlotInv, TypeOK
  <2>2. lru' \in Seq(Bufs) /\ Range(lru') = Bufs /\ Len(lru') = Cardinality(Bufs)
    <3>1. lru' = MoveToFront(buf[p]) \/ lru' = lru
      BY <1>7, Zenon DEF Brelse
    <3> QED
      BY <2>1, <3>1, FrontKeeps, Zenon DEF TypeOK
  <2>3. refcnt' \in [Bufs -> 0 .. Cardinality(Procs)]
    BY <1>7, CountStep, Zenon DEF Brelse, TypeOK
  <2> QED
    BY <1>7, <2>2, <2>3, Zenon DEF Brelse, TypeOK
<1>8. ASSUME NEW p \in Procs, BrelseUnlock(p), ~panicked PROVE TypeOK'
  <2>1. buf[p] \in Bufs
    BY <1>8, Zenon DEF BrelseUnlock, SlotInv, TypeOK
  <2> QED
    BY <1>8, <2>1, Zenon DEF BrelseUnlock, Wakeup, TypeOK
<1>9. ASSUME NEW p \in Procs, NEW v \in Vals, Bwrite(p, v), ~panicked PROVE TypeOK'
  BY <1>9, Zenon DEF Bwrite, TypeOK, vars
<1>10. ASSUME NEW p \in Procs, NEW v \in Vals, Pin(p, v), ~panicked PROVE TypeOK'
  BY <1>10, Zenon DEF Pin, TypeOK, vars
<1>11. CASE DiskWorks
  <2>1. cmd' \in [op : {"idle", "read", "write", "done"},
                  blk : Blocks \cup {NoBlock}, val : Vals]
    BY <1>11, Zenon DEF DiskWorks, TypeOK
  <2>2. disk' \in [Blocks -> Vals]
    BY <1>11, Zenon DEF DiskWorks, TypeOK
  <2> QED
    BY <1>11, <2>1, <2>2, Zenon DEF DiskWorks, TypeOK
<1>12. CASE Ideintr
  <2> DEFINE b == Head(idequeue)
  <2>1. idequeue # <<>> /\ b \in Bufs /\ blockno[b] \in Blocks
    <3>1. \E p \in Procs : pc[p] = "iosleep" /\ buf[p] = b
      BY <1>12, DiskServes, Zenon DEF Ideintr
    <3>2. blockno[b] \in Blocks
      BY <3>1, BcacheAssumption, Zenon DEF SlotInv, TypeOK
    <3> QED
      BY <1>12, <3>2, DiskServes, Zenon DEF Ideintr
  <2>2. idequeue' \in Seq(Bufs)
    BY <1>12, <2>1 DEF Ideintr, TypeOK
  <2>3. cmd' \in [op : {"idle", "read", "write", "done"},
                  blk : Blocks \cup {NoBlock}, val : Vals]
    <3>1. cmd' = Idle \/ cmd' = Idestart(idequeue[2])
      BY <1>12, Zenon DEF Ideintr, NextCmd
    <3>2. cmd' # Idle => idequeue[2] \in Bufs
      <4>1. cmd' # Idle => Tail(idequeue) # <<>>
        BY <1>12, Zenon DEF Ideintr, NextCmd
      <4>2. Tail(idequeue) # <<>> => idequeue[2] \in Bufs
        BY <2>1 DEF TypeOK
      <4> QED
        BY <4>1, <4>2, Zenon
    <3> QED
      BY <2>1, <3>1, <3>2, CmdType, Zenon
  <2>4. data' \in [Bufs -> Vals]
    <3>1. disk[blockno[b]] \in Vals
      BY <2>1, Zenon DEF TypeOK
    <3>2. \E w \in Vals : data' = [data EXCEPT ![b] = w]
      BY <1>12, <2>1, <3>1, Zenon DEF Ideintr, TypeOK
    <3> QED
      BY <2>1, <3>2, Zenon DEF TypeOK
  <2>5. /\ valid' \in [Bufs -> BOOLEAN] /\ dirty' \in [Bufs -> BOOLEAN]
        /\ pc' \in [Procs -> {"idle", "lock", "lsleep", "iderw", "iosleep", "iowait",
                              "have", "unref"}]
    BY <1>12, ZenonT(30) DEF Ideintr, IoWakeup, Wakeup, TypeOK
  <2> QED
    BY <1>12, <2>2, <2>3, <2>4, <2>5, Zenon DEF Ideintr, TypeOK
<1>13. CASE Stops
  BY <1>13, StopsQuiet, Zenon DEF cache, TypeOK
<1> QED
  BY <1>1, <1>2, <1>3, <1>4, <1>5, <1>6, <1>7, <1>8, <1>9, <1>10, <1>11, <1>12, <1>13,
     Zenon DEF Next, Bget, Kernel, Holder, Stops

\* A process keeps the buffer of its block, and a block its one buffer.
LEMMA SlotStep ==
  ASSUME CacheInv, [Next]_vars
  PROVE  SlotInv'
<1> USE DEF Goto, fields, device, CacheInv, SlotInv
<1>1. ASSUME NEW p \in Procs, NEW k \in Blocks, BgetHit(p, k), ~panicked PROVE SlotInv'
  <2>1. PICK b \in Bufs : /\ blockno[b] = k /\ buf' = [buf EXCEPT ![p] = b]
                          /\ refcnt' = [refcnt EXCEPT ![b] = @ + 1]
    BY <1>1, Zenon DEF BgetHit
  <2> QED
    BY <1>1, <2>1, BcacheAssumption DEF BgetHit, TypeOK
<1>2. ASSUME NEW p \in Procs, NEW k \in Blocks, BgetMiss(p, k), ~panicked PROVE SlotInv'
  <2>1. PICK b \in Bufs : Recycles(p, k, b)
    BY <1>2, MissRecycles, Zenon
  <2>2. \A q \in Procs : buf[q] # b
    BY <2>1, UsersBound, Zenon DEF Recycles, RefInv, Users
  <2> QED
    BY <2>1, <2>2, BcacheAssumption DEF Recycles, TypeOK
<1>3. ASSUME NEW p \in Procs, AcquireSleep(p), ~panicked PROVE SlotInv'
  BY <1>3, Zenon DEF AcquireSleep, TypeOK
<1>4. ASSUME NEW p \in Procs, LockSleep(p), ~panicked PROVE SlotInv'
  BY <1>4, Zenon DEF LockSleep, TypeOK
<1>5. ASSUME NEW p \in Procs, Iderw(p), ~panicked PROVE SlotInv'
  BY <1>5, Zenon DEF Iderw, TypeOK
<1>6. ASSUME NEW p \in Procs, IoReturn(p), ~panicked PROVE SlotInv'
  BY <1>6, Zenon DEF IoReturn, TypeOK
<1>7. ASSUME NEW p \in Procs, Brelse(p), ~panicked PROVE SlotInv'
  BY <1>7, BcacheAssumption DEF Brelse, TypeOK
<1>8. ASSUME NEW p \in Procs, BrelseUnlock(p), ~panicked PROVE SlotInv'
  BY <1>8, Zenon DEF BrelseUnlock, Wakeup, TypeOK
<1>9. ASSUME NEW p \in Procs, NEW v \in Vals, Bwrite(p, v), ~panicked PROVE SlotInv'
  BY <1>9, Zenon DEF Bwrite, TypeOK
<1>10. ASSUME NEW p \in Procs, NEW v \in Vals, Pin(p, v), ~panicked PROVE SlotInv'
  BY <1>10, Zenon DEF Pin, vars
<1>11. CASE DiskWorks
  BY <1>11, Zenon DEF DiskWorks, vars
<1>12. CASE Ideintr
  BY <1>12, Zenon DEF Ideintr, IoWakeup, Wakeup, TypeOK
<1>13. CASE Stops
  BY <1>13, StopsQuiet, Zenon DEF cache
<1> QED
  BY <1>1, <1>2, <1>3, <1>4, <1>5, <1>6, <1>7, <1>8, <1>9, <1>10, <1>11, <1>12, <1>13,
     ZenonT(30) DEF Next, Bget, Kernel, Holder, Stops

\* The sleep lock of a buffer has one owner, and sleepers wait for an owner.
LEMMA LockStep ==
  ASSUME CacheInv, [Next]_vars
  PROVE  LockInv'
<1> USE DEF Goto, fields, device, CacheInv, LockInv, Owning
<1>1. ASSUME NEW p \in Procs, NEW k \in Blocks, BgetHit(p, k), ~panicked PROVE LockInv'
  <2>1. PICK b \in Bufs : /\ blockno[b] = k /\ buf' = [buf EXCEPT ![p] = b]
                          /\ refcnt' = [refcnt EXCEPT ![b] = @ + 1]
    BY <1>1, Zenon DEF BgetHit
  <2> QED
    BY <1>1, <2>1, BcacheAssumption DEF BgetHit, SlotInv, TypeOK
<1>2. ASSUME NEW p \in Procs, NEW k \in Blocks, BgetMiss(p, k), ~panicked PROVE LockInv'
  <2>1. PICK b \in Bufs : Recycles(p, k, b)
    BY <1>2, MissRecycles, Zenon
  <2>2. \A q \in Procs : buf[q] # b
    BY <2>1, UsersBound, Zenon DEF Recycles, RefInv, Users
  <2> QED
    BY <2>1, <2>2, BcacheAssumption DEF Recycles, SlotInv, TypeOK
<1>3. ASSUME NEW p \in Procs, AcquireSleep(p), ~panicked PROVE LockInv'
  <2>1. buf[p] \in Bufs
    BY <1>3 DEF AcquireSleep, SlotInv, TypeOK
  <2> QED
    BY <1>3, <2>1, BcacheAssumption DEF AcquireSleep, TypeOK
<1>4. ASSUME NEW p \in Procs, LockSleep(p), ~panicked PROVE LockInv'
  <2>1. buf[p] \in Bufs
    BY <1>4 DEF LockSleep, SlotInv, TypeOK
  <2> QED
    BY <1>4, <2>1, BcacheAssumption DEF LockSleep, TypeOK
<1>5. ASSUME NEW p \in Procs, Iderw(p), ~panicked PROVE LockInv'
  BY <1>5 DEF Iderw, TypeOK, vars
<1>6. ASSUME NEW p \in Procs, IoReturn(p), ~panicked PROVE LockInv'
  BY <1>6 DEF IoReturn, TypeOK, vars
<1>7. ASSUME NEW p \in Procs, Brelse(p), ~panicked PROVE LockInv'
  <2>1. buf[p] \in Bufs
    BY <1>7 DEF Brelse, SlotInv, TypeOK
  <2> QED
    BY <1>7, <2>1, BcacheAssumption DEF Brelse, TypeOK
<1>8. ASSUME NEW p \in Procs, BrelseUnlock(p), ~panicked PROVE LockInv'
  <2>1. buf[p] \in Bufs
    BY <1>8 DEF BrelseUnlock, SlotInv, TypeOK
  <2>2. /\ pc[p] = "have" /\ buf' = buf
        /\ lockedby' = [lockedby EXCEPT ![buf[p]] = Nobody]
        /\ pc' = [Wakeup("lsleep", "lock", buf[p]) EXCEPT ![p] = "unref"]
    BY <1>8, Zenon DEF BrelseUnlock
  <2>3. ASSUME NEW q \in Procs
        PROVE  pc'[q] = IF q = p THEN "unref"
                        ELSE IF pc[q] = "lsleep" /\ buf[q] = buf[p] THEN "lock" ELSE pc[q]
    BY <2>2, Zenon DEF Wakeup
  <2>4. ASSUME NEW b \in Bufs
        PROVE  lockedby'[b] = IF b = buf[p] THEN Nobody ELSE lockedby[b]
    <3>1. lockedby \in [Bufs -> Procs \cup {Nobody}]
      BY Zenon DEF TypeOK
    <3> QED
      BY <2>1, <2>2, <3>1
  <2>5. lockedby[buf[p]] = p /\ Nobody \notin Procs
    BY <2>1, <2>2, BcacheAssumption, Zenon
  <2>6. ASSUME NEW q \in Procs, NEW b \in Bufs
        PROVE  lockedby'[b] = q <=> buf'[q] = b /\ pc'[q] \in Owning
    BY <2>1, <2>2, <2>3, <2>4, <2>5
  <2>7. ASSUME NEW q \in Procs, pc'[q] = "lsleep" PROVE lockedby'[buf'[q]] # Nobody
    <3>1. pc[q] = "lsleep" /\ buf[q] # buf[p]
      BY <2>3, <2>7
    <3>2. buf[q] \in Bufs
      BY <3>1 DEF SlotInv, TypeOK
    <3> QED
      BY <2>2, <2>4, <3>1, <3>2
  <2> QED
    BY <2>6, <2>7, Zenon
<1>9. ASSUME NEW p \in Procs, NEW v \in Vals, Bwrite(p, v), ~panicked PROVE LockInv'
  BY <1>9 DEF Bwrite, TypeOK, vars
<1>10. ASSUME NEW p \in Procs, NEW v \in Vals, Pin(p, v), ~panicked PROVE LockInv'
  BY <1>10 DEF Pin, TypeOK, vars
<1>11. CASE DiskWorks
  BY <1>11 DEF DiskWorks, TypeOK, vars
<1>12. CASE Ideintr
  BY <1>12 DEF Ideintr, IoWakeup, Wakeup, TypeOK
<1>13. CASE Stops
  BY <1>13, StopsQuiet DEF cache, TypeOK
<1> QED
  BY <1>1, <1>2, <1>3, <1>4, <1>5, <1>6, <1>7, <1>8, <1>9, <1>10, <1>11, <1>12, <1>13,
     ZenonT(30) DEF Next, Bget, Kernel, Holder, Stops

\* The flags keep their meaning.
LEMMA FlagStep ==
  ASSUME CacheInv, [Next]_vars
  PROVE  FlagInv'
<1> USE DEF Goto, fields, device, CacheInv, FlagInv
<1>1. ASSUME NEW p \in Procs, NEW k \in Blocks, BgetHit(p, k), ~panicked PROVE FlagInv'
  <2>1. PICK b \in Bufs : /\ blockno[b] = k /\ buf' = [buf EXCEPT ![p] = b]
                          /\ refcnt' = [refcnt EXCEPT ![b] = @ + 1]
    BY <1>1, ZenonT(30) DEF BgetHit
  <2> QED
    BY <1>1, <2>1 DEF BgetHit, TypeOK
<1>2. ASSUME NEW p \in Procs, NEW k \in Blocks, BgetMiss(p, k), ~panicked PROVE FlagInv'
  <2>1. PICK b \in Bufs : Recycles(p, k, b)
    BY <1>2, MissRecycles, Zenon
  <2>2. \A q \in Procs : buf[q] # b
    BY <2>1, UsersBound, ZenonT(30) DEF Recycles, RefInv, Users
  <2> QED
    BY <2>1, <2>2, BcacheAssumption DEF Recycles, TypeOK, SlotInv
<1>3. ASSUME NEW p \in Procs, AcquireSleep(p), ~panicked PROVE FlagInv'
  <2>1. buf[p] \in Bufs
    BY <1>3, Zenon DEF AcquireSleep, SlotInv, TypeOK
  <2> QED
    BY <1>3, <2>1, ZenonT(30) DEF AcquireSleep, TypeOK
<1>4. ASSUME NEW p \in Procs, LockSleep(p), ~panicked PROVE FlagInv'
  BY <1>4 DEF LockSleep, TypeOK, vars
<1>5. ASSUME NEW p \in Procs, Iderw(p), ~panicked PROVE FlagInv'
  BY <1>5, SMTT(30) DEF Iderw, TypeOK, vars
<1>6. ASSUME NEW p \in Procs, IoReturn(p), ~panicked PROVE FlagInv'
  BY <1>6, Zenon DEF IoReturn, TypeOK, vars
<1>7. ASSUME NEW p \in Procs, Brelse(p), ~panicked PROVE FlagInv'
  BY <1>7, ZenonT(30) DEF Brelse, TypeOK, vars
<1>8. ASSUME NEW p \in Procs, BrelseUnlock(p), ~panicked PROVE FlagInv'
  <2>1. buf[p] \in Bufs
    BY <1>8, Zenon DEF BrelseUnlock, SlotInv, TypeOK
  <2> QED
    BY <1>8, <2>1, Zenon DEF BrelseUnlock, Wakeup, TypeOK
<1>9. ASSUME NEW p \in Procs, NEW v \in Vals, Bwrite(p, v), ~panicked PROVE FlagInv'
  <2>1. buf[p] \in Bufs
    BY <1>9, Zenon DEF Bwrite, SlotInv, TypeOK
  <2> QED
    BY <1>9, <2>1 DEF Bwrite, TypeOK, LockInv, Owning
<1>10. ASSUME NEW p \in Procs, NEW v \in Vals, Pin(p, v), ~panicked PROVE FlagInv'
  <2>1. buf[p] \in Bufs
    BY <1>10, Zenon DEF Pin, SlotInv, TypeOK
  <2> QED
    BY <1>10, <2>1, SMTT(30) DEF Pin, TypeOK, LockInv, Owning
<1>11. CASE DiskWorks
  BY <1>11, Zenon DEF DiskWorks, TypeOK, vars
<1>12. CASE Ideintr
  <2> DEFINE b == Head(idequeue)
  <2>1. /\ idequeue # <<>> /\ b \in Bufs /\ Working(b)
        /\ \E p \in Procs : pc[p] = "iosleep" /\ buf[p] = b
    BY <1>12, DiskServes, Zenon DEF Ideintr
  <2> QED
    BY <1>12, <2>1, BcacheAssumption DEF Ideintr, IoWakeup, Wakeup, TypeOK, LockInv, SlotInv, Owning
<1>13. CASE Stops
  <2>1. UNCHANGED cache
    BY <1>13, StopsQuiet, Zenon DEF CacheInv
  <2> QED
    BY <2>1, Zenon DEF cache, TypeOK
<1> QED
  BY <1>1, <1>2, <1>3, <1>4, <1>5, <1>6, <1>7, <1>8, <1>9, <1>10, <1>11, <1>12, <1>13,
     ZenonT(30) DEF Next, Bget, Kernel, Holder, Stops

\* The last of a queue ...
LEMMA Appended ==
  ASSUME NEW s \in Seq(Bufs), NEW b \in Bufs
  PROVE  /\ \A c \in Bufs : Queued(Append(s, b), c) <=> Queued(s, c) \/ c = b
         /\ Distinct(s) /\ ~Queued(s, b) => Distinct(Append(s, b))
         /\ s # <<>> => Append(s, b) # <<>> /\ Head(Append(s, b)) = Head(s)
         /\ s = <<>> => Append(s, b) # <<>> /\ Head(Append(s, b)) = b
<1> DEFINE t == Append(s, b)
<1>1. /\ t \in Seq(Bufs) /\ Len(t) = Len(s) + 1 /\ Len(s) \in Nat /\ t[Len(s) + 1] = b
      /\ \A i \in 1 .. Len(s) : t[i] = s[i]
  OBVIOUS
<1>2. (s # <<>> => Head(t) = Head(s)) /\ (s = <<>> => Head(t) = b) /\ t # <<>>
  OBVIOUS
<1> HIDE DEF t
<1>3. \A i \in 1 .. Len(t) : i \in 1 .. Len(s) \/ i = Len(s) + 1
  BY <1>1
<1>4. \A i \in 1 .. Len(s) : i \in 1 .. Len(t)
  BY <1>1
<1>5. Len(s) + 1 \in 1 .. Len(t)
  BY <1>1
<1>6. \A c \in Bufs : Queued(t, c) <=> Queued(s, c) \/ c = b
  BY <1>1, <1>3, <1>4, <1>5, Zenon DEF Queued
<1>7. Distinct(s) /\ ~Queued(s, b) => Distinct(t)
  BY <1>1, <1>3, Zenon DEF Queued, Distinct
<1> QED
  BY <1>2, <1>6, <1>7, Zenon DEF t

\* ... and its first.
LEMMA Served ==
  ASSUME NEW s \in Seq(Bufs), s # <<>>, Distinct(s)
  PROVE  /\ \A c \in Bufs : Queued(Tail(s), c) <=> Queued(s, c) /\ c # Head(s)
         /\ Distinct(Tail(s))
         /\ Tail(s) # <<>> => Head(Tail(s)) = s[2] /\ s[2] \in Bufs
<1> DEFINE t == Tail(s)
<1>1. /\ t \in Seq(Bufs) /\ Len(t) = Len(s) - 1 /\ Len(s) \in Nat \ {0} /\ Head(s) = s[1]
      /\ \A i \in 1 .. Len(t) : t[i] = s[i + 1]
  OBVIOUS
<1>2. t # <<>> => Head(t) = s[2] /\ s[2] \in Bufs
  OBVIOUS
<1> HIDE DEF t
<1>3. \A i \in 1 .. Len(t) : i + 1 \in 1 .. Len(s) /\ i + 1 # 1
  BY <1>1
<1>4. \A i \in 1 .. Len(s) : i = 1 \/ (i - 1 \in 1 .. Len(t) /\ (i - 1) + 1 = i)
  BY <1>1
<1>5. 1 \in 1 .. Len(s)
  BY <1>1
<1>6. ASSUME NEW c \in Bufs PROVE Queued(t, c) <=> Queued(s, c) /\ c # Head(s)
  <2>1. Queued(t, c) => Queued(s, c) /\ c # Head(s)
    BY <1>1, <1>3, <1>5 DEF Queued, Distinct
  <2>2. Queued(s, c) /\ c # Head(s) => Queued(t, c)
    <3> SUFFICES ASSUME NEW i \in 1 .. Len(s), s[i] = c, c # Head(s) PROVE Queued(t, c)
      BY Zenon DEF Queued
    <3>1. i - 1 \in 1 .. Len(t) /\ (i - 1) + 1 = i
      BY <1>1, <1>4, Zenon
    <3>2. t[i - 1] = c
      BY <1>1, <3>1, Zenon
    <3> QED
      BY <3>1, <3>2, Zenon DEF Queued
  <2> QED
    BY <2>1, <2>2, Zenon
<1>7. Distinct(t)
  <2> SUFFICES ASSUME NEW i \in 1 .. Len(t), NEW j \in 1 .. Len(t), t[i] = t[j] PROVE i = j
    BY Zenon DEF Distinct
  <2>1. i + 1 = j + 1
    BY <1>1, <1>3, Zenon DEF Distinct
  <2> QED
    BY <1>1, <2>1
<1> QED
  BY <1>2, <1>6, <1>7, Zenon DEF t

\* A step outside the driver leaves the queue as it is.
LEMMA QueueFrame ==
  ASSUME CacheInv, UNCHANGED <<idequeue, cmd, disk>>,
         \A q \in Procs : (pc'[q] = "iosleep" <=> pc[q] = "iosleep"),
         \A q \in Procs : pc[q] = "iosleep" =>
            /\ buf'[q] = buf[q] /\ blockno'[buf[q]] = blockno[buf[q]]
            /\ dirty'[buf[q]] = dirty[buf[q]] /\ data'[buf[q]] = data[buf[q]]
  PROVE  QueueInv'
<1>1. Distinct(idequeue') /\ (idequeue = <<>> => cmd' = Idle')
  BY Zenon DEF CacheInv, QueueInv, Idle
<1>2. ASSUME NEW b \in Bufs
      PROVE  Queued(idequeue', b) <=> \E q \in Procs : pc'[q] = "iosleep" /\ buf'[q] = b
  BY <1>2 DEF CacheInv, QueueInv
<1>3. ASSUME idequeue # <<>> PROVE Working(Head(idequeue))'
  <2>1. cmd.op # "idle"
    BY <1>3, Zenon DEF CacheInv, QueueInv, Working
  <2>2. /\ Working(Head(idequeue)) /\ Head(idequeue) \in Bufs
        /\ \E p \in Procs : pc[p] = "iosleep" /\ buf[p] = Head(idequeue)
    BY <2>1, DiskServes, Zenon
  <2> QED
    BY <2>2 DEF Working
<1> QED
  BY <1>1, <1>2, <1>3, Zenon DEF QueueInv

\* The queue holds the sleepers' buffers, and the disk works on the first.
LEMMA QueueStep ==
  ASSUME CacheInv, [Next]_vars
  PROVE  QueueInv'
<1> USE DEF Goto, fields, device
<1>1. ASSUME NEW p \in Procs, NEW k \in Blocks, BgetHit(p, k), ~panicked PROVE QueueInv'
  <2>1. PICK b \in Bufs : /\ blockno[b] = k /\ buf' = [buf EXCEPT ![p] = b]
                          /\ refcnt' = [refcnt EXCEPT ![b] = @ + 1]
    BY <1>1, Zenon DEF BgetHit
  <2> QED
    BY <1>1, <2>1, QueueFrame DEF BgetHit, CacheInv, TypeOK
<1>2. ASSUME NEW p \in Procs, NEW k \in Blocks, BgetMiss(p, k), ~panicked PROVE QueueInv'
  <2>1. PICK b \in Bufs : Recycles(p, k, b)
    BY <1>2, MissRecycles, Zenon
  <2>2. \A q \in Procs : buf[q] # b
    BY <2>1, UsersBound, Zenon DEF Recycles, RefInv, Users, CacheInv
  <2>3. \A q \in Procs : (pc'[q] = "iosleep" <=> pc[q] = "iosleep")
    BY <2>1, Zenon DEF Recycles, CacheInv, TypeOK
  <2>4. ASSUME NEW q \in Procs, pc[q] = "iosleep"
        PROVE  /\ buf'[q] = buf[q] /\ blockno'[buf[q]] = blockno[buf[q]]
               /\ dirty'[buf[q]] = dirty[buf[q]] /\ data'[buf[q]] = data[buf[q]]
    <3>1. q # p /\ buf[q] \in Bufs \ {b}
      BY <2>1, <2>2, <2>4, Zenon DEF Recycles, CacheInv, SlotInv, TypeOK
    <3> QED
      BY <2>1, <3>1, Zenon DEF Recycles, CacheInv, TypeOK
  <2>5. UNCHANGED <<idequeue, cmd, disk>>
    BY <2>1, Zenon DEF Recycles
  <2> QED
    BY <2>3, <2>4, <2>5, QueueFrame, Zenon
<1>3. ASSUME NEW p \in Procs, AcquireSleep(p), ~panicked PROVE QueueInv'
  BY <1>3, QueueFrame, Zenon DEF AcquireSleep, CacheInv, TypeOK, vars
<1>4. ASSUME NEW p \in Procs, LockSleep(p), ~panicked PROVE QueueInv'
  BY <1>4, QueueFrame, Zenon DEF LockSleep, CacheInv, TypeOK, vars
<1>5. ASSUME NEW p \in Procs, Iderw(p), ~panicked PROVE QueueInv'
  <2> DEFINE b == buf[p]
  <2>1. /\ b \in Bufs /\ idequeue \in Seq(Bufs) /\ dirty[b] \in BOOLEAN
        /\ pc[p] = "iderw" /\ idequeue' = Append(idequeue, b)
        /\ cmd' = IF idequeue = <<>> THEN Idestart(b) ELSE cmd
        /\ pc' = [pc EXCEPT ![p] = "iosleep"]
        /\ UNCHANGED <<blockno, dirty, data, disk, buf>>
    BY <1>5, Zenon DEF Iderw, CacheInv, SlotInv, TypeOK
  <2>2. ~Queued(idequeue, b)
    <3>1. LockInv /\ QueueInv
      BY Zenon DEF CacheInv
    <3> HIDE DEF CacheInv
    <3>2. lockedby[b] = p
      BY <2>1, <3>1, Zenon DEF LockInv, Owning
    <3> HIDE DEF b
    <3>3. ASSUME NEW q \in Procs, pc[q] = "iosleep" PROVE buf[q] # b
      BY <2>1, <3>1, <3>2, <3>3, Zenon DEF LockInv, Owning
    <3> QED
      BY <2>1, <3>1, <3>3, Zenon DEF QueueInv
  <2>3. Distinct(idequeue')
    BY <2>1, <2>2, Appended, Zenon DEF CacheInv, QueueInv
  <2>4. ASSUME NEW c \in Bufs
        PROVE  Queued(idequeue', c) <=> \E q \in Procs : pc'[q] = "iosleep" /\ buf'[q] = c
    <3>1. Queued(idequeue', c) <=> Queued(idequeue, c) \/ c = b
      BY <2>1, Appended, Zenon
    <3> QED
      BY <2>1, <2>4, <3>1, ZenonT(30) DEF CacheInv, QueueInv, TypeOK
  <2>5. idequeue' # <<>> /\ Working(Head(idequeue))'
    <3>1. CASE idequeue = <<>>
      <4>1. idequeue' # <<>> /\ Head(idequeue') = b
        BY <2>1, <3>1, Appended, ZenonT(30)
      <4>2. cmd' = Idestart(b)
        BY <2>1, <3>1, Zenon
      <4> QED
        BY <2>1, <4>1, <4>2 DEF Working, Idestart
    <3>2. CASE idequeue # <<>>
      <4>1. idequeue' # <<>> /\ Head(idequeue') = Head(idequeue)
        BY <2>1, <3>2, Appended, Zenon
      <4>2. Working(Head(idequeue)) /\ cmd' = cmd
        BY <2>1, <3>2, Zenon DEF CacheInv, QueueInv
      <4> QED
        BY <2>1, <4>1, <4>2, Zenon DEF Working
    <3> QED
      BY <3>1, <3>2, Zenon
  <2> QED
    BY <2>3, <2>4, <2>5, Zenon DEF QueueInv
<1>6. ASSUME NEW p \in Procs, IoReturn(p), ~panicked PROVE QueueInv'
  <2>1. valid[buf[p]] /\ ~dirty[buf[p]]
    BY <1>6, Zenon DEF IoReturn, CacheInv, FlagInv
  <2>2. pc' = [pc EXCEPT ![p] = "have"]
    BY <1>6, <2>1, Zenon DEF IoReturn
  <2> QED
    BY <1>6, <2>2, QueueFrame, Zenon DEF IoReturn, CacheInv, TypeOK
<1>7. ASSUME NEW p \in Procs, Brelse(p), ~panicked PROVE QueueInv'
  BY <1>7, QueueFrame, Zenon DEF Brelse, CacheInv, TypeOK, vars
<1>8. ASSUME NEW p \in Procs, BrelseUnlock(p), ~panicked PROVE QueueInv'
  BY <1>8, QueueFrame, Zenon DEF BrelseUnlock, Wakeup, CacheInv, TypeOK
<1>9. ASSUME NEW p \in Procs, NEW v \in Vals, Bwrite(p, v), ~panicked PROVE QueueInv'
  <2>1. buf[p] \in Bufs /\ pc[p] = "have"
    BY <1>9, Zenon DEF Bwrite, CacheInv, SlotInv, TypeOK
  <2>2. \A q \in Procs : (pc'[q] = "iosleep" <=> pc[q] = "iosleep")
    BY <1>9, <2>1, Zenon DEF Bwrite, CacheInv, TypeOK
  <2>3. ASSUME NEW q \in Procs, pc[q] = "iosleep" PROVE buf[q] \in Bufs \ {buf[p]}
    BY <2>1, <2>3 DEF CacheInv, LockInv, Owning, SlotInv, TypeOK
  <2>4. ASSUME NEW q \in Procs, pc[q] = "iosleep"
        PROVE  /\ buf'[q] = buf[q] /\ blockno'[buf[q]] = blockno[buf[q]]
               /\ dirty'[buf[q]] = dirty[buf[q]] /\ data'[buf[q]] = data[buf[q]]
    BY <1>9, <2>3, <2>4, ZenonT(30) DEF Bwrite, CacheInv, TypeOK
  <2>5. UNCHANGED <<idequeue, cmd, disk>>
    BY <1>9, Zenon DEF Bwrite
  <2> QED
    BY <2>2, <2>4, <2>5, QueueFrame, ZenonT(30)
<1>10. ASSUME NEW p \in Procs, NEW v \in Vals, Pin(p, v), ~panicked PROVE QueueInv'
  <2>1. buf[p] \in Bufs /\ pc[p] = "have"
    BY <1>10, Zenon DEF Pin, CacheInv, SlotInv, TypeOK
  <2>2. \A q \in Procs : (pc'[q] = "iosleep" <=> pc[q] = "iosleep")
    BY <1>10, <2>1, Zenon DEF Pin, CacheInv, TypeOK
  <2>3. ASSUME NEW q \in Procs, pc[q] = "iosleep" PROVE buf[q] \in Bufs \ {buf[p]}
    BY <2>1, <2>3 DEF CacheInv, LockInv, Owning, SlotInv, TypeOK
  <2>4. ASSUME NEW q \in Procs, pc[q] = "iosleep"
        PROVE  /\ buf'[q] = buf[q] /\ blockno'[buf[q]] = blockno[buf[q]]
               /\ dirty'[buf[q]] = dirty[buf[q]] /\ data'[buf[q]] = data[buf[q]]
    BY <1>10, <2>3, <2>4, ZenonT(30) DEF Pin, CacheInv, TypeOK
  <2>5. UNCHANGED <<idequeue, cmd, disk>>
    BY <1>10, Zenon DEF Pin
  <2> QED
    BY <2>2, <2>4, <2>5, QueueFrame, Zenon
<1>11. CASE DiskWorks
  <2>1. /\ idequeue # <<>> /\ Head(idequeue) \in Bufs /\ Working(Head(idequeue))
        /\ \E q \in Procs : pc[q] = "iosleep" /\ buf[q] = Head(idequeue)
    BY <1>11, DiskServes, Zenon DEF DiskWorks
  <2>2. cmd.blk \in Blocks
    <3>1. SlotInv /\ NoBuf \notin Bufs
      BY BcacheAssumption, Zenon DEF CacheInv
    <3>2. PICK q \in Procs : buf[q] = Head(idequeue)
      BY <2>1, Zenon
    <3>3. blockno[buf[q]] \in Blocks
      BY <2>1, <3>1, <3>2, Zenon DEF SlotInv
    <3> QED
      BY <2>1, <3>2, <3>3, Zenon DEF Working
  <2>3. cmd' = [cmd EXCEPT !.op = "done"] /\ cmd'.op = "done" /\ cmd'.blk = cmd.blk
    BY <1>11, Zenon DEF DiskWorks, CacheInv, TypeOK
  <2>4. cmd.op = "write" => disk'[cmd.blk] = cmd.val
    BY <1>11, <2>2, Zenon DEF DiskWorks, CacheInv, TypeOK
  <2>5. Working(Head(idequeue))'
    BY <1>11, <2>1, <2>3, <2>4, Zenon DEF DiskWorks, Working
  <2>6. UNCHANGED <<idequeue, pc, buf>>
    BY <1>11, Zenon DEF DiskWorks
  <2> QED
    BY <2>1, <2>5, <2>6, Zenon DEF CacheInv, QueueInv
<1>12. CASE Ideintr
  <2> DEFINE b == Head(idequeue)
  <2>1. /\ idequeue # <<>> /\ b \in Bufs /\ Working(b)
        /\ \E p \in Procs : pc[p] = "iosleep" /\ buf[p] = b
    BY <1>12, DiskServes, Zenon DEF Ideintr
  <2>2. /\ idequeue \in Seq(Bufs) /\ Distinct(idequeue)
        /\ dirty' = [dirty EXCEPT ![b] = FALSE] /\ pc' = IoWakeup(b)
        /\ idequeue' = Tail(idequeue) /\ cmd' = NextCmd
        /\ UNCHANGED <<blockno, disk, buf>>
        /\ \E w : data' = [data EXCEPT ![b] = w]
    BY <1>12, ZenonT(30) DEF Ideintr, CacheInv, TypeOK, QueueInv
  <2>3. Distinct(idequeue')
    BY <2>1, <2>2, Served, Zenon
  <2>4. ASSUME NEW c \in Bufs
        PROVE  Queued(idequeue', c) <=> \E q \in Procs : pc'[q] = "iosleep" /\ buf'[q] = c
    <3>1. Queued(idequeue', c) <=> Queued(idequeue, c) /\ c # b
      BY <2>1, <2>2, Served, Zenon
    <3>2. \A q \in Procs : pc'[q] = "iosleep" <=> pc[q] = "iosleep" /\ buf[q] # b
      BY <2>2, Zenon DEF IoWakeup, Wakeup
    <3> QED
      BY <2>2, <2>4, <3>1, <3>2, Zenon DEF CacheInv, QueueInv
  <2>5. CASE Tail(idequeue) = <<>>
    <3>1. idequeue' = <<>> /\ cmd' = Idle /\ Idle' = Idle
      BY <2>2, <2>5, Zenon DEF NextCmd, Idle
    <3> QED
      BY <2>3, <2>4, <3>1, Zenon DEF QueueInv
  <2>6. CASE Tail(idequeue) # <<>>
    <3> DEFINE c == idequeue[2]
    <3>1. idequeue' # <<>> /\ Head(idequeue') = c /\ c \in Bufs /\ cmd' = Idestart(c)
      BY <2>1, <2>2, <2>6, Served, Zenon DEF NextCmd
    <3>2. c # b
      BY <2>1, <2>2, <2>6 DEF Distinct
    <3>3. /\ dirty'[c] = dirty[c] /\ data'[c] = data[c] /\ blockno'[c] = blockno[c]
          /\ dirty[c] \in BOOLEAN
      BY <2>2, <3>1, <3>2, Zenon DEF CacheInv, TypeOK
    <3> HIDE DEF b, c
    <3>4. Working(Head(idequeue))'
      BY <3>1, <3>3, Zenon DEF Working, Idestart
    <3> QED
      BY <2>3, <2>4, <3>1, <3>4, Zenon DEF QueueInv
  <2> QED
    BY <2>5, <2>6, Zenon
<1>13. CASE Stops
  BY <1>13, StopsQuiet, QueueFrame, Zenon DEF cache, CacheInv, TypeOK
<1> QED
  BY <1>1, <1>2, <1>3, <1>4, <1>5, <1>6, <1>7, <1>8, <1>9, <1>10, <1>11, <1>12, <1>13,
     Zenon DEF Next, Bget, Kernel, Holder, Stops

----------------------------------------------------------------------------
(* The invariant holds in every state.                                      *)

\* The list starts as some order of the buffers.
LEMMA InitList ==
  ASSUME Init
  PROVE  lru \in Seq(Bufs) /\ Range(lru) = Bufs /\ Len(lru) = Cardinality(Bufs)
<1> DEFINE n == Cardinality(Bufs)
<1>1. n \in Nat /\ Bijection(1 .. n, Bufs) # {}
  BY BcacheAssumption, FS_CardinalityType, Zenon DEF ExistsBijection
<1>2. lru \in Bijection(1 .. n, Bufs)
  BY <1>1, Zenon DEF Init
<1>3. lru \in [1 .. n -> Bufs] /\ \A b \in Bufs : \E i \in 1 .. n : lru[i] = b
  BY <1>2, Zenon DEF Bijection, Surjection
<1>4. Range(lru) = Bufs
  BY <1>3, Zenon DEF Range
<1> HIDE DEF n
<1>5. lru \in Seq(Bufs) /\ Len(lru) = n
  BY <1>1, <1>3
<1> QED
  BY <1>4, <1>5, Zenon DEF n

\* binit() establishes the invariant.
LEMMA InitCache == Init => CacheInv
<1> SUFFICES ASSUME Init PROVE CacheInv
  BY Zenon
<1>1. PICK v \in Vals : data = [b \in Bufs |-> v] /\ disk = [k \in Blocks |-> v]
  BY Zenon DEF Init
<1>2. Idle \in [op : {"idle", "read", "write", "done"},
                blk : Blocks \cup {NoBlock}, val : Vals]
  <2>1. (CHOOSE w \in Vals : TRUE) \in Vals
    BY Zenon
  <2> QED
    BY <2>1, Zenon DEF Idle
<1>3. IsFiniteSet(Procs) /\ Cardinality(Procs) \in Nat /\ NoBuf \notin Bufs
  BY BcacheAssumption, FS_CardinalityType, Zenon
<1>4. TypeOK
  <2>1. refcnt \in [Bufs -> 0 .. Cardinality(Procs)]
    BY <1>3 DEF Init
  <2>2. lru \in Seq(Bufs) /\ Range(lru) = Bufs /\ Len(lru) = Cardinality(Bufs)
    BY InitList, Zenon
  <2>3. /\ data \in [Bufs -> Vals] /\ disk \in [Blocks -> Vals]
        /\ idequeue \in Seq(Bufs)
        /\ cmd \in [op : {"idle", "read", "write", "done"},
                    blk : Blocks \cup {NoBlock}, val : Vals]
    BY <1>1, <1>2 DEF Init
  <2>4. /\ blockno \in [Bufs -> Blocks \cup {NoBlock}]
        /\ valid \in [Bufs -> BOOLEAN] /\ dirty \in [Bufs -> BOOLEAN]
        /\ lockedby \in [Bufs -> Procs \cup {Nobody}]
        /\ pc \in [Procs -> {"idle", "lock", "lsleep", "iderw", "iosleep", "iowait",
                             "have", "unref"}]
        /\ want \in [Procs -> Blocks \cup {NoBlock}]
        /\ buf \in [Procs -> Bufs \cup {NoBuf}]
        /\ panicked \in BOOLEAN
    BY Zenon DEF Init
  <2> QED
    BY <2>1, <2>2, <2>3, <2>4, Zenon DEF TypeOK
<1>5. RefInv
  <2>1. \A b \in Bufs : Users(b) = {}
    BY <1>3, Zenon DEF Users, Init
  <2> QED
    BY <2>1, FS_EmptySet, Zenon DEF RefInv, Init
<1>6. SlotInv
  BY Zenon DEF SlotInv, Init
<1>7. LockInv
  BY BcacheAssumption, Zenon DEF LockInv, Owning, Init
<1>8. FlagInv
  BY Zenon DEF FlagInv, Init
<1>9. QueueInv
  BY DEF QueueInv, Distinct, Queued, Init
<1> QED
  BY <1>4, <1>5, <1>6, <1>7, <1>8, <1>9, Zenon DEF CacheInv

\* Every step of the cache and of the disk keeps the invariant.
LEMMA CacheStep == CacheInv /\ [Next]_vars => CacheInv'
<1> SUFFICES ASSUME CacheInv, [Next]_vars PROVE CacheInv'
  BY Zenon
<1>1. TypeOK' /\ RefInv' /\ SlotInv'
  BY TypeStep, RefStep, SlotStep, Zenon
<1>2. LockInv' /\ FlagInv' /\ QueueInv'
  BY LockStep, FlagStep, QueueStep, Zenon
<1> QED
  BY <1>1, <1>2, Zenon DEF CacheInv

\* The inductive invariant of the buffer cache.
THEOREM CacheInvariant == Spec => []CacheInv
  BY InitCache, CacheStep, PTL DEF Spec

\* A block is in at most one buffer, whatever bget() recycles, and a buffer
\* stays with its block while some process has or waits for it.
THEOREM OneBufferPerBlock == Spec => []OneCopy
<1>1. CacheInv => OneCopy
  BY Zenon DEF CacheInv, SlotInv, OneCopy
<1> QED
  BY <1>1, CacheInvariant, PTL

\* No process sleeps on a sleep lock that is free or on a request that is not
\* in the driver's queue, and the disk works on the head of the queue.
THEOREM NoRequestIsLost == Spec => []NoLostRequest
<1>1. CacheInv => NoLostRequest
  <2> SUFFICES ASSUME CacheInv PROVE NoLostRequest
    BY Zenon
  <2>1. ASSUME NEW p \in Procs, pc[p] = "lsleep" PROVE lockedby[buf[p]] # Nobody
    BY <2>1, Zenon DEF CacheInv, LockInv
  <2>2. ASSUME NEW p \in Procs, pc[p] = "iosleep" PROVE Queued(idequeue, buf[p])
    <3>1. buf[p] \in Bufs
      BY <2>2, Zenon DEF CacheInv, SlotInv, TypeOK
    <3> QED
      BY <2>2, <3>1, Zenon DEF CacheInv, QueueInv
  <2>3. IF idequeue = <<>> THEN cmd = Idle
        ELSE cmd.op # "idle" /\ cmd.blk = blockno[Head(idequeue)]
    BY ZenonT(30) DEF CacheInv, QueueInv, Working
  <2> QED
    BY <2>1, <2>2, <2>3, Zenon DEF NoLostRequest
<1> QED
  BY <1>1, CacheInvariant, PTL

\* A buffer that is not to be written has what is on disk.
CleanInv == \A b \in Bufs : valid[b] /\ ~dirty[b] => data[b] = disk[blockno[b]]

\* A buffer that is not to be written has what is on disk.
LEMMA CleanStep ==
  ASSUME CacheInv, CleanInv, ReadErrors = FALSE, [Next]_vars
  PROVE  CleanInv'
<1> USE DEF Goto, fields, device, CleanInv
<1>1. ASSUME NEW p \in Procs, NEW k \in Blocks, BgetHit(p, k), ~panicked PROVE CleanInv'
  BY <1>1, ZenonT(30) DEF BgetHit, vars
<1>2. ASSUME NEW p \in Procs, NEW k \in Blocks, BgetMiss(p, k), ~panicked PROVE CleanInv'
  <2>1. PICK b \in Bufs : Recycles(p, k, b)
    BY <1>2, MissRecycles, ZenonT(30)
  <2> QED
    BY <2>1 DEF Recycles, CacheInv, TypeOK
<1>3. ASSUME NEW p \in Procs, AcquireSleep(p), ~panicked PROVE CleanInv'
  BY <1>3, ZenonT(30) DEF AcquireSleep, vars
<1>4. ASSUME NEW p \in Procs, LockSleep(p), ~panicked PROVE CleanInv'
  BY <1>4 DEF LockSleep, vars
<1>5. ASSUME NEW p \in Procs, Iderw(p), ~panicked PROVE CleanInv'
  BY <1>5 DEF Iderw, vars
<1>6. ASSUME NEW p \in Procs, IoReturn(p), ~panicked PROVE CleanInv'
  BY <1>6 DEF IoReturn, vars
<1>7. ASSUME NEW p \in Procs, Brelse(p), ~panicked PROVE CleanInv'
  BY <1>7 DEF Brelse, vars
<1>8. ASSUME NEW p \in Procs, BrelseUnlock(p), ~panicked PROVE CleanInv'
  BY <1>8 DEF BrelseUnlock, vars
<1>9. ASSUME NEW p \in Procs, NEW v \in Vals, Bwrite(p, v), ~panicked PROVE CleanInv'
  BY <1>9 DEF Bwrite, CacheInv, TypeOK
<1>10. ASSUME NEW p \in Procs, NEW v \in Vals, Pin(p, v), ~panicked PROVE CleanInv'
  BY <1>10 DEF Pin, CacheInv, TypeOK
<1>11. CASE DiskWorks
  <2> DEFINE h == Head(idequeue)
  <2>1. h \in Bufs /\ Working(h) /\ \E q \in Procs : pc[q] = "iosleep" /\ buf[q] = h
    BY <1>11, DiskServes, Zenon DEF DiskWorks
  <2>2. cmd.blk = blockno[h] /\ blockno[h] \in Blocks
    BY <2>1 DEF Working, CacheInv, SlotInv
  <2>3. /\ disk' = IF cmd.op = "write" THEN [disk EXCEPT ![cmd.blk] = cmd.val] ELSE disk
        /\ UNCHANGED <<blockno, valid, dirty, data>>
    BY <1>11 DEF DiskWorks
  <2>4. cmd.op = "write" => dirty[h]
    BY <2>1 DEF Working
  <2> HIDE DEF h
  <2>5. ASSUME NEW b \in Bufs, valid[b], ~dirty[b] PROVE disk'[blockno[b]] = disk[blockno[b]]
    <3>1. blockno[b] \in Blocks
      BY <2>5 DEF CacheInv, TypeOK, FlagInv
    <3>2. cmd.op = "write" => blockno[b] # cmd.blk
      BY <2>1, <2>2, <2>4, <2>5, <3>1, BcacheAssumption, ZenonT(30) DEF CacheInv,
         SlotInv
    <3> QED
      BY <2>3, <3>1, <3>2 DEF CacheInv, TypeOK
  <2> QED
    BY <2>3, <2>5, Zenon
<1>12. CASE Ideintr
  <2> DEFINE h == Head(idequeue)
  <2>1. h \in Bufs /\ Working(h) /\ cmd.op = "done"
    BY <1>12, DiskServes, Zenon DEF Ideintr
  <2>2. /\ data' = [data EXCEPT ![h] = IF ~dirty[h] THEN disk[blockno[h]] ELSE @]
        /\ valid' = [valid EXCEPT ![h] = TRUE] /\ dirty' = [dirty EXCEPT ![h] = FALSE]
        /\ UNCHANGED <<blockno, disk>>
    BY <1>12 DEF Ideintr
  <2>3. dirty[h] => data[h] = disk[blockno[h]]
    BY <2>1 DEF Working
  <2> HIDE DEF h
  <2> QED
    BY <2>1, <2>2, <2>3 DEF CacheInv, TypeOK
<1>13. CASE Stops
  BY <1>13, StopsQuiet, ZenonT(30) DEF cache, CacheInv
<1> QED
  BY <1>1, <1>2, <1>3, <1>4, <1>5, <1>6, <1>7, <1>8, <1>9, <1>10, <1>11, <1>12, <1>13,
     ZenonT(30) DEF Next, Bget, Kernel, Holder, Stops

\* Process p has its block: bread() has returned, or it is in a bwrite().
Has(p) ==
  pc[p] = "have" \/ (pc[p] \in {"iderw", "iosleep", "iowait"} /\ valid[buf[p]])

\* A block has one holder, and the store's contents of it are what its buffer
\* has or, if it has none with the data, what the disk has.
Mapped ==
  /\ \A k \in Blocks, p \in Procs : want[p] = k /\ Has(p) => holderOf[k] = p
  /\ \A k \in Blocks : (\A p \in Procs : want[p] = k => ~Has(p)) => holderOf[k] = Nobody
  /\ \A k \in Blocks, b \in Bufs : blockno[b] = k /\ valid[b] => contents[k] = data[b]
  /\ \A k \in Blocks :
       (\A b \in Bufs : blockno[b] = k => ~valid[b]) => contents[k] = disk[k]
  /\ holderOf = [k \in Blocks |-> holderOf[k]]
  /\ contents = [k \in Blocks |-> contents[k]]

\* The refinement mapping, as the invariant lets it be computed.
LEMMA Mapping == CacheInv => Mapped
<1> SUFFICES ASSUME CacheInv PROVE Mapped
  OBVIOUS
<1>1. \A k \in Blocks : Holders(k) = {p \in Procs : want[p] = k /\ Has(p)}
  BY DEF Holders, Has
<1>2. ASSUME NEW k \in Blocks, NEW p \in Procs, want[p] = k, Has(p) PROVE holderOf[k] = p
  <2>1. ASSUME NEW q \in Procs, want[q] = k, Has(q) PROVE q = p
    <3>1. /\ pc[p] \in Owning /\ pc[q] \in Owning /\ buf[p] \in Bufs /\ buf[q] \in Bufs
      BY <1>2, <2>1 DEF Has, Owning, CacheInv, SlotInv, TypeOK
    <3>2. buf[p] = buf[q]
      BY <1>2, <2>1, <3>1, BcacheAssumption, ZenonT(30) DEF CacheInv, SlotInv
    <3>3. lockedby[buf[p]] = p /\ lockedby[buf[p]] = q
      BY <3>1, <3>2 DEF CacheInv, LockInv
    <3> QED
      BY <3>3
  <2>2. Holders(k) = {p}
    BY <1>1, <1>2, <2>1
  <2> QED
    BY <2>2 DEF holderOf
<1>3. ASSUME NEW k \in Blocks, \A p \in Procs : want[p] = k => ~Has(p) PROVE holderOf[k] = Nobody
  <2>1. Holders(k) = {}
    BY <1>1, <1>3
  <2> QED
    BY <2>1 DEF holderOf
<1>4. ASSUME NEW k \in Blocks, NEW b \in Bufs, blockno[b] = k, valid[b] PROVE contents[k] = data[b]
  <2>1. Copies(k) = {b}
    BY <1>4, BcacheAssumption DEF Copies, CacheInv, SlotInv
  <2> QED
    BY <2>1 DEF contents
<1>5. ASSUME NEW k \in Blocks, \A b \in Bufs : blockno[b] = k => ~valid[b] PROVE contents[k] = disk[k]
  <2>1. Copies(k) = {}
    BY <1>5 DEF Copies
  <2> QED
    BY <2>1 DEF contents
<1>6. holderOf = [k \in Blocks |-> holderOf[k]] /\ contents = [k \in Blocks |-> contents[k]]
  BY DEF holderOf, contents
<1> QED
  BY <1>2, <1>3, <1>4, <1>5, <1>6 DEF Mapped

\* The same of the state after a step.
LEMMA MappingNext == CacheInv' => Mapped'
  BY Mapping, PTL

\* The process that holds a block changes only when some process gets or
\* gives back a block.
LEMMA SameHolders ==
  ASSUME CacheInv, CacheInv',
         \A q \in Procs : Has(q)' <=> Has(q),
         \A q \in Procs : Has(q) => want'[q] = want[q]
  PROVE  holderOf' = holderOf
<1>1. ASSUME NEW k \in Blocks PROVE holderOf'[k] = holderOf[k]
  <2>1. CASE \E p \in Procs : want[p] = k /\ Has(p)
    <3>1. PICK p \in Procs : want[p] = k /\ Has(p)
      BY <2>1
    <3>2. holderOf[k] = p
      BY <3>1, Mapping DEF Mapped
    <3>3. holderOf'[k] = p
      BY <3>1, MappingNext DEF Mapped
    <3> QED
      BY <3>2, <3>3
  <2>2. CASE ~ \E p \in Procs : want[p] = k /\ Has(p)
    <3>1. holderOf[k] = Nobody
      BY <2>2, Mapping DEF Mapped
    <3>2. holderOf'[k] = Nobody
      BY <2>2, MappingNext DEF Mapped
    <3> QED
      BY <3>1, <3>2
  <2> QED
    BY <2>1, <2>2
<1>2. holderOf = [k \in Blocks |-> holderOf[k]] /\ holderOf' = [k \in Blocks |-> holderOf'[k]]
  BY Mapping, MappingNext DEF Mapped
<1> QED
  BY <1>1, <1>2

\* bread() returns to p with a block that nobody held.
LEMMA HolderGets ==
  ASSUME CacheInv, CacheInv', NEW p \in Procs, ~Has(p), Has(p)', want' = want,
         \A q \in Procs \ {p} : Has(q)' <=> Has(q)
  PROVE  /\ want[p] \in Blocks /\ holderOf[want[p]] = Nobody
         /\ holderOf' = [holderOf EXCEPT ![want[p]] = p]
<1>1. want[p] \in Blocks
  BY DEF CacheInv, SlotInv, Has
<1>2. holderOf'[want[p]] = p
  BY <1>1, MappingNext DEF Mapped
<1>3. ASSUME NEW q \in Procs, want[q] = want[p], Has(q) PROVE FALSE
  <2>1. holderOf'[want[p]] = q
    BY <1>1, <1>3, MappingNext DEF Mapped
  <2> QED
    BY <1>2, <1>3, <2>1
<1>4. holderOf[want[p]] = Nobody
  BY <1>1, <1>3, Mapping DEF Mapped
<1>5. ASSUME NEW k \in Blocks, k # want[p] PROVE holderOf'[k] = holderOf[k]
  <2>1. CASE \E q \in Procs : want[q] = k /\ Has(q)
    <3>1. PICK q \in Procs : want[q] = k /\ Has(q)
      BY <2>1
    <3>2. holderOf[k] = q
      BY <3>1, Mapping DEF Mapped
    <3>3. holderOf'[k] = q
      BY <1>5, <3>1, MappingNext DEF Mapped
    <3> QED
      BY <3>2, <3>3
  <2>2. CASE ~ \E q \in Procs : want[q] = k /\ Has(q)
    <3>1. holderOf[k] = Nobody
      BY <2>2, Mapping DEF Mapped
    <3>2. holderOf'[k] = Nobody
      BY <1>5, <2>2, MappingNext DEF Mapped
    <3> QED
      BY <3>1, <3>2
  <2> QED
    BY <2>1, <2>2
<1>6. holderOf = [k \in Blocks |-> holderOf[k]] /\ holderOf' = [k \in Blocks |-> holderOf'[k]]
  BY Mapping, MappingNext DEF Mapped
<1> QED
  BY <1>1, <1>2, <1>4, <1>5, <1>6

\* brelse() gives back the block that p holds.
LEMMA HolderGives ==
  ASSUME CacheInv, CacheInv', NEW p \in Procs, Has(p), ~Has(p)', want' = want,
         \A q \in Procs \ {p} : Has(q)' <=> Has(q)
  PROVE  /\ want[p] \in Blocks /\ holderOf[want[p]] = p
         /\ holderOf' = [holderOf EXCEPT ![want[p]] = Nobody]
<1>1. want[p] \in Blocks
  BY DEF CacheInv, SlotInv, Has
<1>2. holderOf[want[p]] = p
  BY <1>1, Mapping DEF Mapped
<1>3. ASSUME NEW q \in Procs, want[q] = want[p], Has(q)' PROVE FALSE
  <2>1. holderOf[want[p]] = q
    BY <1>1, <1>3, Mapping DEF Mapped
  <2> QED
    BY <1>2, <1>3, <2>1
<1>4. holderOf'[want[p]] = Nobody
  BY <1>1, <1>3, MappingNext DEF Mapped
<1>5. ASSUME NEW k \in Blocks, k # want[p] PROVE holderOf'[k] = holderOf[k]
  <2>1. CASE \E q \in Procs : want[q] = k /\ Has(q)
    <3>1. PICK q \in Procs : want[q] = k /\ Has(q)
      BY <2>1
    <3>2. holderOf[k] = q
      BY <3>1, Mapping DEF Mapped
    <3>3. holderOf'[k] = q
      BY <1>5, <3>1, MappingNext DEF Mapped
    <3> QED
      BY <3>2, <3>3
  <2>2. CASE ~ \E q \in Procs : want[q] = k /\ Has(q)
    <3>1. holderOf[k] = Nobody
      BY <2>2, Mapping DEF Mapped
    <3>2. holderOf'[k] = Nobody
      BY <1>5, <2>2, MappingNext DEF Mapped
    <3> QED
      BY <3>1, <3>2
  <2> QED
    BY <2>1, <2>2
<1>6. holderOf = [k \in Blocks |-> holderOf[k]] /\ holderOf' = [k \in Blocks |-> holderOf'[k]]
  BY Mapping, MappingNext DEF Mapped
<1> QED
  BY <1>1, <1>2, <1>4, <1>5, <1>6

\* Recycling a clean buffer, a write by the disk and the end of a request do
\* not change what the blocks contain.
LEMMA SameContents ==
  ASSUME CacheInv, CacheInv', CleanInv,
         \A k \in Blocks, b \in Bufs : blockno[b] = k /\ valid[b] =>
            \/ blockno'[b] = k /\ valid'[b] /\ data'[b] = data[b]
            \/ ~dirty[b] /\ disk'[k] = disk[k] /\ \A c \in Bufs : blockno'[c] = k => ~valid'[c],
         \A k \in Blocks : (\A b \in Bufs : blockno[b] = k => ~valid[b]) =>
            /\ disk'[k] = disk[k]
            /\ \A b \in Bufs : blockno'[b] = k /\ valid'[b] => data'[b] = disk[k]
  PROVE  contents' = contents
<1>1. ASSUME NEW k \in Blocks PROVE contents'[k] = contents[k]
  <2>1. CASE \E b \in Bufs : blockno[b] = k /\ valid[b]
    <3>1. PICK b \in Bufs : blockno[b] = k /\ valid[b]
      BY <2>1
    <3>2. contents[k] = data[b]
      BY <3>1, Mapping DEF Mapped
    <3>3. CASE blockno'[b] = k /\ valid'[b] /\ data'[b] = data[b]
      <4>1. contents'[k] = data'[b]
        BY <3>3, MappingNext DEF Mapped
      <4> QED
        BY <3>2, <3>3, <4>1
    <3>4. CASE ~dirty[b] /\ disk'[k] = disk[k] /\ \A c \in Bufs : blockno'[c] = k => ~valid'[c]
      <4>1. contents'[k] = disk'[k]
        BY <3>4, MappingNext DEF Mapped
      <4>2. data[b] = disk[k]
        BY <3>1, <3>4, ZenonT(30) DEF CleanInv
      <4> QED
        BY <3>2, <3>4, <4>1, <4>2, ZenonT(30)
    <3> QED
      BY <3>1, <3>3, <3>4
  <2>2. CASE ~ \E b \in Bufs : blockno[b] = k /\ valid[b]
    <3>1. contents[k] = disk[k]
      BY <2>2, Mapping DEF Mapped
    <3>2. disk'[k] = disk[k] /\ \A b \in Bufs : blockno'[b] = k /\ valid'[b] => data'[b] = disk[k]
      BY <2>2, ZenonT(30)
    <3>3. CASE \E b \in Bufs : blockno'[b] = k /\ valid'[b]
      BY <3>1, <3>2, <3>3, MappingNext DEF Mapped
    <3>4. CASE ~ \E b \in Bufs : blockno'[b] = k /\ valid'[b]
      <4>1. contents'[k] = disk'[k]
        BY <3>4, MappingNext DEF Mapped
      <4> QED
        BY <3>1, <3>2, <4>1, ZenonT(30)
    <3> QED
      BY <3>3, <3>4
  <2> QED
    BY <2>1, <2>2
<1>2. contents = [k \in Blocks |-> contents[k]] /\ contents' = [k \in Blocks |-> contents'[k]]
  BY Mapping, MappingNext DEF Mapped
<1> QED
  BY <1>1, <1>2

\* What the holder of a buffer writes into it is what its block contains.
LEMMA NewContents ==
  ASSUME CacheInv, CacheInv', NEW p \in Procs, NEW v \in Vals, pc[p] = "have",
         data' = [data EXCEPT ![buf[p]] = v], UNCHANGED <<blockno, valid, disk>>
  PROVE  want[p] \in Blocks /\ contents' = [contents EXCEPT ![want[p]] = v]
<1> DEFINE b == buf[p]
<1>1. /\ b \in Bufs /\ blockno[b] = want[p] /\ want[p] \in Blocks /\ valid[b]
      /\ data \in [Bufs -> Vals]
  BY ZenonT(30) DEF CacheInv, SlotInv, FlagInv, TypeOK
<1> HIDE DEF b
<1>2. data' = [data EXCEPT ![b] = v]
  BY DEF b
<1>3. contents'[want[p]] = v
  <2>1. contents'[want[p]] = data'[b]
    BY <1>1, MappingNext DEF Mapped
  <2> QED
    BY <1>1, <1>2, <2>1
<1>4. ASSUME NEW k \in Blocks, k # want[p] PROVE contents'[k] = contents[k]
  <2>1. CASE \E c \in Bufs : blockno[c] = k /\ valid[c]
    <3>1. PICK c \in Bufs : blockno[c] = k /\ valid[c]
      BY <2>1
    <3>2. contents[k] = data[c] /\ contents'[k] = data'[c]
      BY <3>1, Mapping, MappingNext DEF Mapped
    <3>3. c # b
      BY <1>1, <1>4, <3>1
    <3> QED
      BY <1>1, <1>2, <3>2, <3>3
  <2>2. CASE ~ \E c \in Bufs : blockno[c] = k /\ valid[c]
    <3>1. contents[k] = disk[k]
      BY <2>2, Mapping DEF Mapped
    <3>2. contents'[k] = disk'[k]
      BY <2>2, MappingNext DEF Mapped
    <3> QED
      BY <3>1, <3>2
  <2> QED
    BY <2>1, <2>2
<1>5. contents = [k \in Blocks |-> contents[k]] /\ contents' = [k \in Blocks |-> contents'[k]]
  BY Mapping, MappingNext DEF Mapped
<1> QED
  BY <1>1, <1>3, <1>4, <1>5

\* Every step of the cache is a step of the store or leaves it as it is.
LEMMA StoreStep ==
  ASSUME CacheInv, CacheInv', CleanInv, ReadErrors = FALSE, [Next]_vars
  PROVE  Store!StoreNext \/ UNCHANGED Store!svars
<1> USE DEF Goto, fields, device
<1>1. ASSUME NEW p \in Procs, NEW k \in Blocks, BgetHit(p, k), ~panicked PROVE Store!StoreNext \/ UNCHANGED Store!svars
  <2>1. PICK b \in Bufs : /\ blockno[b] = k /\ buf' = [buf EXCEPT ![p] = b]
                          /\ refcnt' = [refcnt EXCEPT ![b] = @ + 1]
    BY <1>1, Zenon DEF BgetHit
  <2>6. \A q \in Procs : (Has(q)' <=> Has(q)) /\ (Has(q) => want'[q] = want[q])
    BY <1>1, <2>1 DEF BgetHit, Has, CacheInv, TypeOK
  <2>7. holderOf' = holderOf
    BY <2>6, SameHolders
  <2>8. contents' = contents
    BY <1>1 DEF BgetHit, contents, Copies, vars
  <2> QED
    BY <2>7, <2>8 DEF Store!svars
<1>2. ASSUME NEW p \in Procs, NEW k \in Blocks, BgetMiss(p, k), ~panicked PROVE Store!StoreNext \/ UNCHANGED Store!svars
  <2>1. PICK b \in Bufs : Recycles(p, k, b)
    BY <1>2, MissRecycles, Zenon
  <2>2. \A q \in Procs : buf[q] # b
    BY <2>1, UsersBound, ZenonT(30) DEF Recycles, RefInv, Users, CacheInv
  <2>6. ASSUME NEW q \in Procs PROVE (Has(q)' <=> Has(q)) /\ (Has(q) => want'[q] = want[q])
    <3>1. CASE q = p
      BY <2>1, <3>1, ZenonT(30) DEF Recycles, Has, CacheInv, TypeOK
    <3>2. CASE q # p
      <4>1. pc'[q] = pc[q] /\ buf'[q] = buf[q] /\ want'[q] = want[q]
        BY <2>1, <3>2 DEF Recycles, CacheInv, TypeOK
      <4>2. pc[q] # "idle" => buf[q] \in Bufs \ {b}
        BY <2>2, ZenonT(30) DEF CacheInv, SlotInv, TypeOK
      <4>3. pc[q] # "idle" => valid'[buf[q]] = valid[buf[q]]
        BY <2>1, <4>2 DEF Recycles, CacheInv, TypeOK
      <4> QED
        BY <4>1, <4>3, ZenonT(30) DEF Has
    <3> QED
      BY <3>1, <3>2, Zenon
  <2>7. holderOf' = holderOf
    BY <2>6, SameHolders
  <2>8. contents' = contents
    <3>1. ASSUME NEW c \in Bufs, c # b
          PROVE  blockno'[c] = blockno[c] /\ valid'[c] = valid[c] /\ data'[c] = data[c]
      BY <2>1, <3>1, ZenonT(30) DEF Recycles, CacheInv, TypeOK
    <3>2. /\ blockno'[b] = k /\ ~valid'[b] /\ ~dirty[b] /\ disk' = disk
          /\ \A c \in Bufs : blockno[c] # k
      BY <2>1, ZenonT(30) DEF Recycles, CacheInv, TypeOK
    <3>3. ASSUME NEW j \in Blocks, NEW c \in Bufs, blockno[c] = j, valid[c]
          PROVE  \/ blockno'[c] = j /\ valid'[c] /\ data'[c] = data[c]
                 \/ ~dirty[c] /\ disk'[j] = disk[j] /\ \A d \in Bufs : blockno'[d] = j => ~valid'[d]
      <4>1. CASE c # b
        BY <3>1, <3>3, <4>1
      <4>2. CASE c = b
        <5>1. ASSUME NEW d \in Bufs, blockno'[d] = j PROVE ~valid'[d]
          <6>1. CASE d = b
            BY <3>2, <6>1
          <6>2. CASE d # b
            <7>1. blockno[d] = j
              BY <3>1, <5>1, <6>2, Zenon
            <7> QED
              BY <3>3, <4>2, <6>2, <7>1, BcacheAssumption DEF CacheInv, SlotInv
          <6> QED
            BY <6>1, <6>2
        <5> QED
          BY <3>2, <4>2, <5>1
      <4> QED
        BY <4>1, <4>2, ZenonT(30)
    <3>4. ASSUME NEW j \in Blocks, \A c \in Bufs : blockno[c] = j => ~valid[c]
          PROVE  /\ disk'[j] = disk[j]
                 /\ \A c \in Bufs : blockno'[c] = j /\ valid'[c] => data'[c] = disk[j]
      BY <3>1, <3>2, <3>4
    <3> QED
      BY <3>3, <3>4, SameContents
  <2> QED
    BY <2>7, <2>8 DEF Store!svars
<1>3. ASSUME NEW p \in Procs, AcquireSleep(p), ~panicked PROVE Store!StoreNext \/ UNCHANGED Store!svars
  <2>1. /\ buf[p] \in Bufs /\ pc[p] = "lock" /\ UNCHANGED <<valid, buf, want>>
        /\ pc' = [pc EXCEPT ![p] = IF valid[buf[p]] THEN "have" ELSE "iderw"]
    BY <1>3, ZenonT(30) DEF AcquireSleep, CacheInv, SlotInv, TypeOK
  <2>2. \A q \in Procs \ {p} : Has(q)' <=> Has(q)
    BY <2>1 DEF Has, CacheInv, TypeOK
  <2>3. ~Has(p) /\ (Has(p)' <=> valid[buf[p]])
    BY <2>1, ZenonT(30) DEF Has, CacheInv, TypeOK
  <2>8. contents' = contents
    BY <1>3 DEF AcquireSleep, contents, Copies, vars
  <2>4. CASE valid[buf[p]]
    <3>1. /\ want[p] \in Blocks /\ holderOf[want[p]] = Nobody
          /\ holderOf' = [holderOf EXCEPT ![want[p]] = p]
      BY <2>1, <2>2, <2>3, <2>4, HolderGets, ZenonT(30)
    <3>2. Store!Get(p, want[p])
      BY <2>8, <3>1 DEF Store!Get
    <3> QED
      BY <3>1, <3>2 DEF Store!StoreNext
  <2>5. CASE ~valid[buf[p]]
    <3>1. holderOf' = holderOf
      BY <2>1, <2>2, <2>3, <2>5, SameHolders
    <3> QED
      BY <2>8, <3>1 DEF Store!svars
  <2> QED
    BY <2>4, <2>5
<1>4. ASSUME NEW p \in Procs, LockSleep(p), ~panicked PROVE Store!StoreNext \/ UNCHANGED Store!svars
  <2>6. \A q \in Procs : (Has(q)' <=> Has(q)) /\ (Has(q) => want'[q] = want[q])
    BY <1>4, ZenonT(30) DEF LockSleep, Has, CacheInv, TypeOK
  <2>7. holderOf' = holderOf
    BY <2>6, SameHolders
  <2>8. contents' = contents
    BY <1>4 DEF LockSleep, contents, Copies, vars
  <2> QED
    BY <2>7, <2>8 DEF Store!svars
<1>5. ASSUME NEW p \in Procs, Iderw(p), ~panicked PROVE Store!StoreNext \/ UNCHANGED Store!svars
  <2>6. \A q \in Procs : (Has(q)' <=> Has(q)) /\ (Has(q) => want'[q] = want[q])
    BY <1>5, Zenon DEF Iderw, Has, CacheInv, TypeOK
  <2>7. holderOf' = holderOf
    BY <2>6, SameHolders
  <2>8. contents' = contents
    BY <1>5 DEF Iderw, contents, Copies, vars
  <2> QED
    BY <2>7, <2>8 DEF Store!svars
<1>6. ASSUME NEW p \in Procs, IoReturn(p), ~panicked PROVE Store!StoreNext \/ UNCHANGED Store!svars
  <2>6. \A q \in Procs : (Has(q)' <=> Has(q)) /\ (Has(q) => want'[q] = want[q])
    BY <1>6, ZenonT(30) DEF IoReturn, Has, CacheInv, TypeOK, FlagInv
  <2>7. holderOf' = holderOf
    BY <2>6, SameHolders
  <2>8. contents' = contents
    BY <1>6 DEF IoReturn, contents, Copies, vars
  <2> QED
    BY <2>7, <2>8 DEF Store!svars
<1>7. ASSUME NEW p \in Procs, Brelse(p), ~panicked PROVE Store!StoreNext \/ UNCHANGED Store!svars
  <2>6. \A q \in Procs : (Has(q)' <=> Has(q)) /\ (Has(q) => want'[q] = want[q])
    BY <1>7, SMTT(30) DEF Brelse, Has, CacheInv, TypeOK
  <2>7. holderOf' = holderOf
    BY <2>6, SameHolders
  <2>8. contents' = contents
    BY <1>7 DEF Brelse, contents, Copies, vars
  <2> QED
    BY <2>7, <2>8 DEF Store!svars
<1>8. ASSUME NEW p \in Procs, BrelseUnlock(p), ~panicked PROVE Store!StoreNext \/ UNCHANGED Store!svars
  <2>1. /\ pc[p] = "have" /\ UNCHANGED <<valid, buf, want>>
        /\ pc' = [Wakeup("lsleep", "lock", buf[p]) EXCEPT ![p] = "unref"]
    BY <1>8, Zenon DEF BrelseUnlock
  <2>2. \A q \in Procs \ {p} : Has(q)' <=> Has(q)
    BY <2>1 DEF Has, Wakeup, CacheInv, TypeOK
  <2>3. Has(p) /\ ~Has(p)'
    BY <2>1 DEF Has, Wakeup, CacheInv, TypeOK
  <2>8. contents' = contents
    BY <1>8 DEF BrelseUnlock, contents, Copies, vars
  <2>4. /\ want[p] \in Blocks /\ holderOf[want[p]] = p
        /\ holderOf' = [holderOf EXCEPT ![want[p]] = Nobody]
    BY <2>1, <2>2, <2>3, HolderGives, Zenon
  <2>5. Store!GiveBack(p, want[p])
    BY <2>4, <2>8 DEF Store!GiveBack
  <2> QED
    BY <2>4, <2>5 DEF Store!StoreNext
<1>9. ASSUME NEW p \in Procs, NEW v \in Vals, Bwrite(p, v), ~panicked PROVE Store!StoreNext \/ UNCHANGED Store!svars
  <2>1. want[p] \in Blocks /\ contents' = [contents EXCEPT ![want[p]] = v]
    BY <1>9, NewContents, ZenonT(30) DEF Bwrite
  <2>2. holderOf[want[p]] = p
    BY <1>9, <2>1, Mapping DEF Bwrite, Mapped, Has
  <2>6. \A q \in Procs : (Has(q)' <=> Has(q)) /\ (Has(q) => want'[q] = want[q])
    BY <1>9, ZenonT(30) DEF Bwrite, Has, CacheInv, FlagInv, TypeOK
  <2>7. holderOf' = holderOf
    BY <2>6, SameHolders
  <2>8. Store!Put(p, want[p], v)
    BY <2>1, <2>2, <2>7 DEF Store!Put
  <2> QED
    BY <2>1, <2>8 DEF Store!StoreNext
<1>10. ASSUME NEW p \in Procs, NEW v \in Vals, Pin(p, v), ~panicked PROVE Store!StoreNext \/ UNCHANGED Store!svars
  <2>1. want[p] \in Blocks /\ contents' = [contents EXCEPT ![want[p]] = v]
    BY <1>10, NewContents, ZenonT(30) DEF Pin
  <2>2. holderOf[want[p]] = p
    BY <1>10, <2>1, Mapping DEF Pin, Mapped, Has
  <2>6. \A q \in Procs : (Has(q)' <=> Has(q)) /\ (Has(q) => want'[q] = want[q])
    BY <1>10, ZenonT(30) DEF Pin, Has, CacheInv, FlagInv, TypeOK
  <2>7. holderOf' = holderOf
    BY <2>6, SameHolders
  <2>8. Store!Put(p, want[p], v)
    BY <2>1, <2>2, <2>7 DEF Store!Put
  <2> QED
    BY <2>1, <2>8 DEF Store!StoreNext
<1>11. CASE DiskWorks
  <2>6. \A q \in Procs : (Has(q)' <=> Has(q)) /\ (Has(q) => want'[q] = want[q])
    BY <1>11 DEF DiskWorks, Has, CacheInv, TypeOK
  <2>7. holderOf' = holderOf
    BY <2>6, SameHolders
  <2>1. Head(idequeue) \in Bufs /\ Working(Head(idequeue))
    BY <1>11, DiskServes, Zenon DEF DiskWorks
  <2> DEFINE h == Head(idequeue)
  <2>2. /\ disk' = IF cmd.op = "write" THEN [disk EXCEPT ![cmd.blk] = cmd.val] ELSE disk
        /\ UNCHANGED <<blockno, valid, dirty, data>>
    BY <1>11 DEF DiskWorks
  <2>3. /\ h \in Bufs /\ cmd.blk = blockno[h]
        /\ cmd.op = "write" => valid[h]
    BY <2>1, ZenonT(30) DEF Working, CacheInv, FlagInv
  <2> HIDE DEF h
  <2>4. ASSUME NEW k \in Blocks, \A b \in Bufs : blockno[b] = k => ~valid[b] PROVE disk'[k] = disk[k]
    BY <2>2, <2>3, <2>4, ZenonT(30) DEF CacheInv, TypeOK
  <2>8. contents' = contents
    BY <2>2, <2>4, SameContents, Zenon
  <2> QED
    BY <2>7, <2>8 DEF Store!svars
<1>12. CASE Ideintr
  <2> DEFINE h == Head(idequeue)
  <2>1. /\ h \in Bufs /\ Working(h) /\ \E q \in Procs : pc[q] = "iosleep" /\ buf[q] = h
    BY <1>12, DiskServes, ZenonT(30) DEF Ideintr
  <2>2. /\ data' = [data EXCEPT ![h] = IF ~dirty[h] THEN disk[blockno[h]] ELSE @]
        /\ valid' = [valid EXCEPT ![h] = TRUE] /\ pc' = IoWakeup(h)
        /\ UNCHANGED <<blockno, disk, want, buf>>
    BY <1>12 DEF Ideintr
  <2> HIDE DEF h
  <2>3. PICK p \in Procs : pc[p] = "iosleep" /\ buf[p] = h
    BY <2>1
  <2>4. valid[h] <=> dirty[h]
    BY <2>1, <2>3, ZenonT(30) DEF CacheInv, FlagInv
  <2>5. ASSUME NEW q \in Procs, q # p PROVE Has(q)' <=> Has(q)
    <3>1. pc[q] \in Owning => buf[q] \in Bufs \ {h}
      BY <2>1, <2>3, <2>5 DEF CacheInv, LockInv, SlotInv, TypeOK, Owning
    <3>2. pc[q] \in Owning => valid'[buf[q]] = valid[buf[q]]
      BY <2>1, <2>2, <3>1, ZenonT(30) DEF CacheInv, TypeOK
    <3>3. pc[q] # "iosleep" => pc'[q] = pc[q]
      BY <2>2 DEF IoWakeup, Wakeup
    <3>4. pc[q] = "iosleep" => pc'[q] \in {"iosleep", "iowait"}
      BY <2>2 DEF IoWakeup, Wakeup
    <3> QED
      BY <2>2, <3>2, <3>3, <3>4, ZenonT(30) DEF Has, Owning
  <2>6. Has(p)' /\ (Has(p) <=> valid[h])
    BY <2>1, <2>2, <2>3, ZenonT(30) DEF Has, IoWakeup, Wakeup, CacheInv, TypeOK
  <2>8. contents' = contents
    <3>1. ASSUME NEW c \in Bufs, c # h
          PROVE  valid'[c] = valid[c] /\ data'[c] = data[c]
      BY <2>2, <3>1, ZenonT(30) DEF CacheInv, TypeOK
    <3>2. /\ valid'[h] /\ (valid[h] => data'[h] = data[h])
          /\ (~valid[h] => data'[h] = disk[blockno[h]])
      BY <2>1, <2>2, <2>4, ZenonT(30) DEF CacheInv, TypeOK
    <3>3. \A b \in Bufs : valid[b] => valid'[b] /\ data'[b] = data[b]
      BY <3>1, <3>2
    <3>4. \A b \in Bufs : ~valid[b] /\ valid'[b] => data'[b] = disk[blockno[b]]
      BY <3>1, <3>2
    <3> QED
      BY <2>2, <3>3, <3>4, SameContents, ZenonT(30)
  <2>9. CASE valid[h]
    <3>1. holderOf' = holderOf
      BY <2>2, <2>5, <2>6, <2>9, SameHolders
    <3> QED
      BY <2>8, <3>1 DEF Store!svars
  <2>10. CASE ~valid[h]
    <3>1. /\ want[p] \in Blocks /\ holderOf[want[p]] = Nobody
          /\ holderOf' = [holderOf EXCEPT ![want[p]] = p]
      BY <2>2, <2>5, <2>6, <2>10, HolderGets, ZenonT(30)
    <3>2. Store!Get(p, want[p])
      BY <2>8, <3>1 DEF Store!Get
    <3> QED
      BY <3>1, <3>2 DEF Store!StoreNext
  <2> QED
    BY <2>9, <2>10
<1>13. CASE Stops
  <2>6. \A q \in Procs : (Has(q)' <=> Has(q)) /\ (Has(q) => want'[q] = want[q])
    BY <1>13, StopsQuiet, ZenonT(30) DEF cache, Has, CacheInv, TypeOK
  <2>7. holderOf' = holderOf
    BY <2>6, SameHolders
  <2>8. contents' = contents
    BY <1>13, StopsQuiet DEF cache, contents, Copies, CacheInv
  <2> QED
    BY <2>7, <2>8 DEF Store!svars
<1> QED
  BY <1>1, <1>2, <1>3, <1>4, <1>5, <1>6, <1>7, <1>8,
     <1>9, <1>10, <1>11, <1>12, <1>13
     DEF Next, Bget, Kernel, Holder, Stops

\* The store begins with the contents of the disk, held by nobody.
LEMMA StoreInitially == Init => Store!StoreInit
<1> SUFFICES ASSUME Init PROVE Store!StoreInit
  OBVIOUS
<1>1. Mapped /\ TypeOK
  BY InitCache, Mapping DEF CacheInv
<1>2. \A k \in Blocks : holderOf[k] = Nobody
  BY <1>1 DEF Init, Has, Mapped
<1>3. \A k \in Blocks : contents[k] = disk[k]
  BY <1>1 DEF Init, Mapped
<1>4. disk \in [Blocks -> Vals]
  BY <1>1 DEF TypeOK
<1> QED
  BY <1>1, <1>2, <1>3, <1>4 DEF Mapped, Store!StoreInit

\* The cache implements the store, when reads do not fail: a block has one
\* holder at a time, who finds what the last holder left there, whatever is
\* recycled, written back or queued in between.
THEOREM CacheImplementsStore ==
  ASSUME ReadErrors = FALSE
  PROVE  Spec => ImplementsStore
<1>1. Init => CleanInv
  BY DEF Init, CleanInv
<1>2. CacheInv /\ CleanInv /\ [Next]_vars => CleanInv'
  BY CleanStep, Zenon
<1>3. CacheInv /\ CacheInv' /\ CleanInv /\ [Next]_vars => [Store!StoreNext]_(Store!svars)
  BY StoreStep, Zenon
<1> QED
  BY <1>1, <1>2, <1>3, StoreInitially, CacheInvariant, PTL
     DEF Spec, ImplementsStore, Store!StoreSpec
=============================================================================
