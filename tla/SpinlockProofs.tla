--------------------------- MODULE SpinlockProofs ---------------------------
(* Proofs, for any number of CPUs, threads and locks, that acquire() and     *)
(* release() exclude, and that pushcli() and popcli() match.  Both follow    *)
(* from SpinInv; it is shown inductive one conjunct at a time.               *)
EXTENDS Spinlock, FiniteSetTheorems, TLAPS

(* What a CPU executes is executed by no other CPU.                          *)
LEMMA CurOnce ==
  ASSUME TypeOK, OncePlaced, NEW c \in CPUs, NEW d \in CPUs,
         Cur(c) = Cur(d), Cur(c) # None
  PROVE  c = d
  BY SpinlockAssumption DEF TypeOK, OncePlaced, Cur

(* It is a thread, or the handler of that CPU.                               *)
LEMMA CurContext ==
  ASSUME TypeOK, NEW c \in CPUs, Cur(c) # None
  PROVE  Cur(c) \in Contexts
  BY Zenon DEF TypeOK, Cur, Contexts

(* ncli is zero exactly when what runs holds no lock and has called no       *)
(* pushcli(), and the last popcli() comes after the last release().          *)
LEMMA CountIdle ==
  ASSUME TypeOK, Matched, NEW c \in CPUs, Cur(c) # None
  PROVE  /\ ncli[c] = 0 <=> ~Busy(Cur(c))
         /\ pc[Cur(c)] = "pop" /\ ncli[c] = 1 => held[Cur(c)] = {}
<1> DEFINE n == Cardinality(held[Cur(c)])
<1>1. n \in Nat /\ (n = 0 <=> held[Cur(c)] = {})
  BY CurContext, FS_CardinalityType, FS_EmptySet, Zenon DEF TypeOK
<1>2. ncli[c] = n + (IF pc[Cur(c)] \in Pushed THEN 1 ELSE 0)
  BY Zenon DEF Matched, Pushes
<1> HIDE DEF n
<1> QED
  BY <1>1, <1>2 DEF Busy, Pushed

(* Before any CPU has taken a lock the inductive invariant holds.            *)
LEMMA SpinInit == Init => SpinInv
<1> SUFFICES ASSUME Init PROVE SpinInv
  BY Zenon
<1> USE SpinlockAssumption DEF Init
<1>1. TypeOK
  BY FS_EmptySet, Zenon DEF TypeOK, Pushed
<1>2. OncePlaced
  BY Zenon DEF OncePlaced, Contexts
<1>3. Masked
  BY Zenon DEF Masked, Busy, Pushed
<1>4. Matched
  BY Zenon DEF Matched, Pushes, Cur
<1>5. Restorable
  BY Zenon DEF Restorable
<1>6. NotHeld /\ OneOwner /\ LockedOwned /\ CpuOfHolder
  BY Zenon DEF NotHeld, OneOwner, LockedOwned, CpuOfHolder, Owned, Cur
<1> QED
  BY <1>1, <1>2, <1>3, <1>4, <1>5, <1>6, Zenon DEF SpinInv

(* Types are kept; that ncli does not go below zero rests on Matched.        *)
LEMMA TypeStep ==
  ASSUME TypeOK, OncePlaced, Matched, NEW c \in CPUs, Step(c)
  PROVE  TypeOK'
<1> USE SpinlockAssumption DEF TypeOK, Runs, Goto, Pushed
<1>0. Cur(c) # None => Cur(c) \in Contexts
  BY CurContext, Zenon
<1>1. ASSUME NEW l \in Locks, Acquire(c, l) PROVE TypeOK'
  BY <1>0, <1>1, Zenon DEF Acquire
<1>2. CASE Pushcli(c)
  BY <1>0, <1>2, SMTT(30) DEF Pushcli, SavedFlag
<1>3. CASE Xchg(c)
  BY <1>0, <1>3, Zenon DEF Xchg
<1>4. CASE Acquired(c)
  <2>1. IsFiniteSet(held[Cur(c)] \cup {lk[Cur(c)]})
    BY <1>0, <1>4, FS_AddElement, Zenon DEF Acquired
  <2> QED
    BY <1>0, <1>4, <2>1, Zenon DEF Acquired
<1>5. ASSUME NEW l \in Locks, Release(c, l) PROVE TypeOK'
  <2>1. IsFiniteSet(held[Cur(c)] \ {l})
    BY <1>0, <1>5, FS_RemoveElement, Zenon DEF Release
  <2> QED
    BY <1>0, <1>5, <2>1, Zenon DEF Release
<1>6. CASE Unlock(c)
  BY <1>0, <1>6, Zenon DEF Unlock
<1>7. CASE Popcli(c)
  <2>1. ncli[c] # 0
    BY <1>0, <1>7, FS_CardinalityType DEF Popcli, Matched, Pushes
  <2> QED
    BY <1>0, <1>7, <2>1 DEF Popcli
<1>8. CASE Interrupt(c)
  BY <1>8, Zenon DEF Interrupt
<1>9. ASSUME NEW next \in {on[c], None}, Iret(c, next) PROVE TypeOK'
  BY <1>9, Zenon DEF Iret
<1>10. ASSUME NEW t \in Threads, Dispatch(c, t) PROVE TypeOK'
  BY <1>10, Zenon DEF Dispatch
<1> QED
  BY <1>1, <1>2, <1>3, <1>4, <1>5, <1>6, <1>7, <1>8, <1>9, <1>10, Zenon DEF Step

(* Threads stay on one CPU each, and handlers run with interrupts off: the   *)
(* last popcli() of a handler restores intena, which is off.                 *)
LEMMA PlacedStep ==
  ASSUME SpinInv, TypeOK', NEW c \in CPUs, Step(c)
  PROVE  OncePlaced'
<1> USE SpinlockAssumption DEF SpinInv, TypeOK, Runs, Goto, Pushed, OncePlaced, Cur,
                               Contexts, Masked, Busy, Restorable
<1>0. /\ Cur(c) # None => Cur(c) \in Contexts
      /\ \A d \in CPUs : Cur(c) # None /\ Cur(d) = Cur(c) => d = c
  BY CurContext, CurOnce, Zenon
<1>1. ASSUME NEW l \in Locks, Acquire(c, l) PROVE OncePlaced'
  BY <1>0, <1>1, SMTT(30) DEF Acquire
<1>2. CASE Pushcli(c)
  BY <1>0, <1>2, SMTT(30) DEF Pushcli, SavedFlag
<1>3. CASE Xchg(c)
  BY <1>0, <1>3, Zenon DEF Xchg
<1>4. CASE Acquired(c)
  BY <1>0, <1>4, Zenon DEF Acquired
<1>5. ASSUME NEW l \in Locks, Release(c, l) PROVE OncePlaced'
  BY <1>0, <1>5, Zenon DEF Release
<1>6. CASE Unlock(c)
  BY <1>0, <1>6, Zenon DEF Unlock
<1>7. CASE Popcli(c)
  BY <1>0, <1>7, SMTT(30) DEF Popcli
<1>8. CASE Interrupt(c)
  BY <1>0, <1>8, SMTT(30) DEF Interrupt
<1>9. ASSUME NEW next \in {on[c], None}, Iret(c, next) PROVE OncePlaced'
  BY <1>0, <1>9, SMTT(30) DEF Iret
<1>10. ASSUME NEW t \in Threads, Dispatch(c, t) PROVE OncePlaced'
  BY <1>0, <1>10 DEF Dispatch
<1> QED
  BY <1>1, <1>2, <1>3, <1>4, <1>5, <1>6, <1>7, <1>8, <1>9, <1>10 DEF Step

(* Interrupts are not turned on under a lock, nor is its holder moved.       *)
LEMMA MaskedStep ==
  ASSUME SpinInv, TypeOK', NEW c \in CPUs, Step(c)
  PROVE  Masked'
<1> USE SpinlockAssumption DEF SpinInv, TypeOK, Runs, Goto, Pushed, OncePlaced, Masked,
                               Busy, Cur, Contexts
<1>0. /\ Cur(c) # None => Cur(c) \in Contexts
      /\ \A d \in CPUs : Cur(c) # None /\ Cur(d) = Cur(c) => d = c
  BY CurContext, CurOnce, Zenon
<1>1. ASSUME NEW l \in Locks, Acquire(c, l) PROVE Masked'
  BY <1>0, <1>1, Zenon DEF Acquire
<1>2. CASE Pushcli(c)
  BY <1>0, <1>2, SMTT(30) DEF Pushcli, SavedFlag
<1>3. CASE Xchg(c)
  BY <1>0, <1>3, Zenon DEF Xchg
<1>4. CASE Acquired(c)
  BY <1>0, <1>4, ZenonT(30) DEF Acquired
<1>5. ASSUME NEW l \in Locks, Release(c, l) PROVE Masked'
  BY <1>0, <1>5, Zenon DEF Release
<1>6. CASE Unlock(c)
  BY <1>0, <1>6, Zenon DEF Unlock
<1>7. CASE Popcli(c)
  <2>1. ncli[c] = 1 => held[Cur(c)] = {}
    BY <1>7, CountIdle, Zenon DEF Popcli
  <2> QED
    BY <1>0, <1>7, <2>1 DEF Popcli
<1>8. CASE Interrupt(c)
  BY <1>0, <1>8, SMTT(30) DEF Interrupt
<1>9. ASSUME NEW next \in {on[c], None}, Iret(c, next) PROVE Masked'
  BY <1>0, <1>9, SMTT(30) DEF Iret
<1>10. ASSUME NEW t \in Threads, Dispatch(c, t) PROVE Masked'
  BY <1>0, <1>10 DEF Dispatch
<1> QED
  BY <1>1, <1>2, <1>3, <1>4, <1>5, <1>6, <1>7, <1>8, <1>9, <1>10 DEF Step

(* The first pushcli() saves what interrupts are, on whatever CPU it goes on.*)
LEMMA RestorableStep ==
  ASSUME SpinInv, TypeOK', NEW c \in CPUs, Step(c)
  PROVE  Restorable'
<1> USE SpinlockAssumption DEF SpinInv, TypeOK, Runs, Goto, Pushed, Restorable, OncePlaced,
                               Matched, Busy, Cur, Contexts
<1>0. /\ Cur(c) # None => Cur(c) \in Contexts
      /\ \A d \in CPUs : Cur(c) # None /\ Cur(d) = Cur(c) => d = c
  BY CurContext, CurOnce, Zenon
<1>1. ASSUME NEW l \in Locks, Acquire(c, l) PROVE Restorable'
  <2>1. ncli[c] = 0 <=> ~Busy(Cur(c))
    BY <1>1, CountIdle, Zenon DEF Acquire
  <2> QED
    BY <1>0, <1>1, <2>1 DEF Acquire
<1>2. CASE Pushcli(c)
  <2>1. ncli[c] = 0 => eflags[Cur(c)] = ~handling[c]
    <3>1. ncli[c] = 0 => held[Cur(c)] = {}
      BY <1>2, CountIdle, Zenon DEF Pushcli
    <3>2. Cur(c) \in Threads <=> ~handling[c]
      BY <1>2 DEF Pushcli
    <3> QED
      BY <1>0, <1>2, <3>1, <3>2, SMTT(30) DEF Pushcli
  <2>2. intena'[c] = ~handling[c]
    BY <1>2, <2>1 DEF Pushcli, SavedFlag
  <2>3. \A d \in CPUs : ncli'[d] # 0 => intena'[d] = ~handling'[d]
    BY <1>2, <2>2 DEF Pushcli
  <2>4. \A x \in Contexts : (pc[x] = "cli" /\ held[x] = {} => eflags[x] = (x \in Threads))'
    BY <1>0, <1>2, Zenon DEF Pushcli
  <2> QED
    BY <2>3, <2>4, Zenon
<1>3. CASE Xchg(c)
  BY <1>0, <1>3, Zenon DEF Xchg
<1>4. CASE Acquired(c)
  BY <1>0, <1>4, Zenon DEF Acquired
<1>5. ASSUME NEW l \in Locks, Release(c, l) PROVE Restorable'
  BY <1>0, <1>5, Zenon DEF Release
<1>6. CASE Unlock(c)
  BY <1>0, <1>6, Zenon DEF Unlock
<1>7. CASE Popcli(c)
  BY <1>0, <1>7, SMTT(30) DEF Popcli
<1>8. CASE Interrupt(c)
  BY <1>0, <1>8, SMTT(30) DEF Interrupt
<1>9. ASSUME NEW next \in {on[c], None}, Iret(c, next) PROVE Restorable'
  <2>1. ncli[c] = 0 <=> ~Busy(Cur(c))
    BY <1>9, CountIdle DEF Iret
  <2> QED
    BY <1>0, <1>9, <2>1 DEF Iret
<1>10. ASSUME NEW t \in Threads, Dispatch(c, t) PROVE Restorable'
  BY <1>0, <1>10, Zenon DEF Dispatch
<1> QED
  BY <1>1, <1>2, <1>3, <1>4, <1>5, <1>6, <1>7, <1>8, <1>9, <1>10, Zenon DEF Step

(* Nobody asks for a lock it holds: callers keep the lock order.             *)
LEMMA NotHeldStep ==
  ASSUME SpinInv, TypeOK', NEW c \in CPUs, Step(c)
  PROVE  NotHeld'
<1> USE SpinlockAssumption DEF SpinInv, TypeOK, Runs, Goto, Pushed, NotHeld, OncePlaced, Contexts
<1>0. /\ Cur(c) # None => Cur(c) \in Contexts
      /\ \A d \in CPUs : Cur(c) # None /\ Cur(d) = Cur(c) => d = c
  BY CurContext, CurOnce, Zenon
<1>1. ASSUME NEW l \in Locks, Acquire(c, l) PROVE NotHeld'
  BY <1>0, <1>1, SMTT(30) DEF Acquire
<1>2. CASE Pushcli(c)
  BY <1>0, <1>2, Zenon DEF Pushcli, SavedFlag
<1>3. CASE Xchg(c)
  BY <1>0, <1>3, Zenon DEF Xchg
<1>4. CASE Acquired(c)
  BY <1>0, <1>4, Zenon DEF Acquired
<1>5. ASSUME NEW l \in Locks, Release(c, l) PROVE NotHeld'
  BY <1>0, <1>5, Zenon DEF Release
<1>6. CASE Unlock(c)
  BY <1>0, <1>6, Zenon DEF Unlock
<1>7. CASE Popcli(c)
  BY <1>0, <1>7, Zenon DEF Popcli
<1>8. CASE Interrupt(c)
  BY <1>0, <1>8, Zenon DEF Interrupt
<1>9. ASSUME NEW next \in {on[c], None}, Iret(c, next) PROVE NotHeld'
  BY <1>0, <1>9, Zenon DEF Iret
<1>10. ASSUME NEW t \in Threads, Dispatch(c, t) PROVE NotHeld'
  BY <1>0, <1>10, Zenon DEF Dispatch
<1> QED
  BY <1>1, <1>2, <1>3, <1>4, <1>5, <1>6, <1>7, <1>8, <1>9, <1>10, ZenonT(30) DEF Step

(* Only the xchg of acquire() makes an owner, of a lock that has none.       *)
LEMMA OneOwnerStep ==
  ASSUME SpinInv, TypeOK', NEW c \in CPUs, Step(c)
  PROVE  OneOwner'
<1> USE SpinlockAssumption DEF SpinInv, TypeOK, Runs, Goto, Pushed, OneOwner
<1>0. /\ Cur(c) # None => Cur(c) \in Contexts
      /\ \A d \in CPUs : Cur(c) # None /\ Cur(d) = Cur(c) => d = c
  BY CurContext, CurOnce, Zenon
<1>1. ASSUME NEW l \in Locks, Acquire(c, l) PROVE OneOwner'
  BY <1>0, <1>1, ZenonT(30) DEF Acquire, Owned
<1>2. CASE Pushcli(c)
  BY <1>0, <1>2 DEF Pushcli, SavedFlag, Owned
<1>3. CASE Xchg(c)
  <2>1. \A y \in Contexts : Owned(y)' \subseteq Owned(y) \cup {lk[Cur(c)]}
    BY <1>0, <1>3, Zenon DEF Xchg, Owned
  <2>2. \A y \in Contexts : y # Cur(c) => Owned(y)' = Owned(y)
    BY <1>0, <1>3, Zenon DEF Xchg, Owned
  <2>3. \A y \in Contexts : lk[Cur(c)] \notin Owned(y)
    BY <1>0, <1>3, Zenon DEF Xchg, LockedOwned
  <2> QED
    BY <1>0, <2>1, <2>2, <2>3, SMTT(30)
<1>4. CASE Acquired(c)
  <2>1. \A y \in Contexts : Owned(y)' = Owned(y)
    BY <1>0, <1>4, ZenonT(30) DEF Acquired, Owned
  <2> QED
    BY <2>1, Zenon
<1>5. ASSUME NEW l \in Locks, Release(c, l) PROVE OneOwner'
  <2>1. \A y \in Contexts : Owned(y)' = Owned(y)
    BY <1>0, <1>5 DEF Release, Owned
  <2> QED
    BY <2>1, Zenon
<1>6. CASE Unlock(c)
  BY <1>0, <1>6 DEF Unlock, Owned
<1>7. CASE Popcli(c)
  BY <1>0, <1>7, ZenonT(30) DEF Popcli, Owned
<1>8. CASE Interrupt(c)
  BY <1>0, <1>8, Zenon DEF Interrupt, Owned
<1>9. ASSUME NEW next \in {on[c], None}, Iret(c, next) PROVE OneOwner'
  BY <1>0, <1>9, Zenon DEF Iret, Owned
<1>10. ASSUME NEW t \in Threads, Dispatch(c, t) PROVE OneOwner'
  BY <1>0, <1>10, Zenon DEF Dispatch, Owned
<1> QED
  BY <1>1, <1>2, <1>3, <1>4, <1>5, <1>6, <1>7, <1>8, <1>9, <1>10, ZenonT(30) DEF Step

(* lk->locked is set by the xchg and cleared by the store of release().      *)
LEMMA LockedOwnedStep ==
  ASSUME SpinInv, TypeOK', NEW c \in CPUs, Step(c)
  PROVE  LockedOwned'
<1> USE SpinlockAssumption DEF SpinInv, TypeOK, Runs, Goto, Pushed, LockedOwned, OneOwner,
                               Owned, NotHeld
<1>0. /\ Cur(c) # None => Cur(c) \in Contexts
      /\ \A d \in CPUs : Cur(c) # None /\ Cur(d) = Cur(c) => d = c
  BY CurContext, CurOnce, Zenon
<1>1. ASSUME NEW l \in Locks, Acquire(c, l) PROVE LockedOwned'
  BY <1>0, <1>1, SMTT(30) DEF Acquire
<1>2. CASE Pushcli(c)
  BY <1>0, <1>2, SMTT(30) DEF Pushcli, SavedFlag
<1>3. CASE Xchg(c)
  BY <1>0, <1>3, SMTT(30) DEF Xchg
<1>4. CASE Acquired(c)
  BY <1>0, <1>4, SMTT(30) DEF Acquired
<1>5. ASSUME NEW l \in Locks, Release(c, l) PROVE LockedOwned'
  BY <1>0, <1>5, SMTT(30) DEF Release
<1>6. CASE Unlock(c)
  BY <1>0, <1>6, SMTT(30) DEF Unlock
<1>7. CASE Popcli(c)
  BY <1>0, <1>7, SMTT(30) DEF Popcli
<1>8. CASE Interrupt(c)
  BY <1>0, <1>8, Zenon DEF Interrupt
<1>9. ASSUME NEW next \in {on[c], None}, Iret(c, next) PROVE LockedOwned'
  BY <1>0, <1>9, Zenon DEF Iret
<1>10. ASSUME NEW t \in Threads, Dispatch(c, t) PROVE LockedOwned'
  BY <1>0, <1>10, Zenon DEF Dispatch
<1> QED
  BY <1>1, <1>2, <1>3, <1>4, <1>5, <1>6, <1>7, <1>8, <1>9, <1>10, ZenonT(30) DEF Step

(* lk->cpu stays right when CPUs switch, because a holder is not switched.   *)
LEMMA CpuOfHolderStep ==
  ASSUME SpinInv, TypeOK', NEW c \in CPUs, Step(c)
  PROVE  CpuOfHolder'
<1> USE SpinlockAssumption DEF SpinInv, TypeOK, Runs, Goto, Pushed, CpuOfHolder, OneOwner,
                               Owned, Masked, Busy, OncePlaced, Cur, Contexts
<1>0. /\ Cur(c) # None => Cur(c) \in Contexts
      /\ \A d \in CPUs : Cur(c) # None /\ Cur(d) = Cur(c) => d = c
  BY CurContext, CurOnce, ZenonT(30)
<1>1. ASSUME NEW l \in Locks, Acquire(c, l) PROVE CpuOfHolder'
  BY <1>0, <1>1, SMTT(30) DEF Acquire
<1>2. CASE Pushcli(c)
  BY <1>0, <1>2, SMTT(30) DEF Pushcli, SavedFlag
<1>3. CASE Xchg(c)
  BY <1>0, <1>3, SMTT(30) DEF Xchg
<1>4. CASE Acquired(c)
  BY <1>0, <1>4, SMTT(30) DEF Acquired
<1>5. ASSUME NEW l \in Locks, Release(c, l) PROVE CpuOfHolder'
  BY <1>0, <1>5, SMTT(30) DEF Release
<1>6. CASE Unlock(c)
  BY <1>0, <1>6, SMTT(30) DEF Unlock
<1>7. CASE Popcli(c)
  BY <1>0, <1>7, SMTT(30) DEF Popcli
<1>8. CASE Interrupt(c)
  BY <1>0, <1>8, SMTT(30) DEF Interrupt
<1>9. ASSUME NEW next \in {on[c], None}, Iret(c, next) PROVE CpuOfHolder'
  BY <1>0, <1>9, SMTT(30) DEF Iret
<1>10. ASSUME NEW t \in Threads, Dispatch(c, t) PROVE CpuOfHolder'
  BY <1>0, <1>10 DEF Dispatch
<1> QED
  BY <1>1, <1>2, <1>3, <1>4, <1>5, <1>6, <1>7, <1>8, <1>9, <1>10 DEF Step

(* A finite set without one of its members.                                  *)
LEMMA CardRemove ==
  ASSUME NEW S, NEW l \in S, IsFiniteSet(S)
  PROVE  Cardinality(S \ {l}) = Cardinality(S) - 1
  BY FS_RemoveElement, Zenon

(* ncli goes up with pushcli() and down with popcli(), and in between the    *)
(* count moves from the call under way to the lock held and back.            *)
LEMMA MatchedStep ==
  ASSUME SpinInv, TypeOK', NEW c \in CPUs, Step(c)
  PROVE  Matched'
<1> USE SpinlockAssumption DEF SpinInv, TypeOK, Runs, Goto
<1>0. /\ Cur(c) # None => Cur(c) \in Contexts
      /\ \A d \in CPUs : Cur(c) # None /\ Cur(d) = Cur(c) => d = c
  BY CurContext, CurOnce, Zenon
<1> DEFINE x == Cur(c)
           Card == Cardinality(held[x])
           Local == on' = on /\ handling' = handling
           Counted == ncli'[c] = Pushes(c)' /\ flag'[c] = (ncli'[c] = 0 /\ ~handling'[c])
<1>a. \A d \in CPUs : d # c =>
        /\ Cur(d)' = Cur(d)
        /\ ncli'[d] = ncli[d] /\ flag'[d] = flag[d] /\ handling'[d] = handling[d]
  <2> SUFFICES ASSUME NEW d \in CPUs, d # c
               PROVE  /\ on'[d] = on[d]
                      /\ ncli'[d] = ncli[d] /\ flag'[d] = flag[d] /\ handling'[d] = handling[d]
    BY ZenonT(30) DEF Cur
  <2> QED
    BY DEF Step, Acquire, Pushcli, Xchg, Acquired, Release, Unlock, Popcli, Interrupt,
           Iret, Dispatch
<1>b. \A d \in CPUs : d # c /\ Cur(d) # None =>
        held'[Cur(d)] = held[Cur(d)] /\ pc'[Cur(d)] = pc[Cur(d)]
  <2> SUFFICES ASSUME NEW d \in CPUs, d # c, Cur(d) # None
               PROVE  held'[Cur(d)] = held[Cur(d)] /\ pc'[Cur(d)] = pc[Cur(d)]
    BY Zenon
  <2>1. Cur(d) \in Contexts /\ Cur(d) # Cur(c)
    BY CurContext, CurOnce, Zenon
  <2> QED
    BY <2>1 DEF Step, Acquire, Pushcli, Xchg, Acquired, Release, Unlock, Popcli, Interrupt,
                Iret, Dispatch
<1>c. \A d \in CPUs : d # c => Pushes(d)' = Pushes(d)
  BY <1>a, <1>b, Zenon DEF Pushes
<1>d. SUFFICES Counted
  BY <1>a, <1>c, ZenonT(30) DEF Matched
<1>e. /\ ncli[c] = Pushes(c) /\ flag[c] = (ncli[c] = 0 /\ ~handling[c])
      /\ x # None => Pushes(c) = Card + (IF pc[x] \in Pushed THEN 1 ELSE 0)
      /\ x # None => Card \in Nat
  BY <1>0, FS_CardinalityType, Zenon DEF Matched, Pushes
<1>f. Local /\ x # None => Pushes(c)' = Cardinality(held'[x]) + (IF pc'[x] \in Pushed THEN 1 ELSE 0)
  BY Zenon DEF Pushes, Cur
<1>g. ASSUME NEW y \in Contexts, Cur(c)' = y, ~Busy(y), pc' = pc, held' = held
      PROVE  Pushes(c)' = 0
  <2>1. pc[y] \notin Pushed /\ held[y] = {} /\ y # None
    BY <1>g, SpinlockAssumption, Zenon DEF Busy, Contexts
  <2> QED
    BY <1>g, <2>1, FS_EmptySet DEF Pushes
<1>1. ASSUME NEW l \in Locks, Acquire(c, l) PROVE Counted
  BY <1>0, <1>e, <1>f, <1>1, Zenon DEF Acquire, Pushed
<1>2. CASE Pushcli(c)
  <2>1. /\ x # None /\ Local /\ held' = held /\ pc[x] = "cli" /\ pc'[x] = "spin"
        /\ ncli'[c] = ncli[c] + 1 /\ flag'[c] = FALSE
    BY <1>0, <1>2, Zenon DEF Pushcli
  <2> QED
    BY <1>e, <1>f, <2>1 DEF Pushed
<1>3. CASE Xchg(c)
  BY <1>0, <1>e, <1>f, <1>3, Zenon DEF Xchg, Pushed
<1>4. CASE Acquired(c)
  <2>1. Cardinality(held'[x]) = Card + 1
    <3>1. held'[x] = held[x] \cup {lk[x]} /\ lk[x] \notin held[x] /\ IsFiniteSet(held[x])
      BY <1>0, <1>4, Zenon DEF Acquired, NotHeld
    <3>2. Cardinality(held[x] \cup {lk[x]}) = Cardinality(held[x]) + 1
      BY <3>1, FS_AddElement, Zenon
    <3> QED
      BY <3>1, <3>2, Zenon
  <2> QED
    BY <1>0, <1>e, <1>f, <1>4, <2>1 DEF Acquired, Pushed
<1>5. ASSUME NEW l \in Locks, Release(c, l) PROVE Counted
  <2>1. Cardinality(held'[x]) = Card - 1
    <3>1. held'[x] = held[x] \ {l} /\ l \in held[x] /\ IsFiniteSet(held[x])
      BY <1>0, <1>5, Zenon DEF Release
    <3>2. Cardinality(held[x] \ {l}) = Cardinality(held[x]) - 1
      BY <3>1, CardRemove, Zenon
    <3> QED
      BY <3>1, <3>2, Zenon
  <2> QED
    BY <1>0, <1>e, <1>f, <1>5, <2>1 DEF Release, Pushed
<1>6. CASE Unlock(c)
  BY <1>0, <1>e, <1>f, <1>6, Zenon DEF Unlock, Pushed
<1>7. CASE Popcli(c)
  BY <1>0, <1>e, <1>f, <1>7, SMTT(30) DEF Popcli, Pushed, Restorable
<1>8. CASE Interrupt(c)
  <2>1. ~Busy(c) /\ Cur(c)' = c /\ c \in Contexts
    BY <1>8, ZenonT(30) DEF Interrupt, OncePlaced, Busy, Cur, Contexts, Pushed
  <2> QED
    BY <1>e, <1>g, <1>8, <2>1, Zenon DEF Interrupt
<1>9. ASSUME NEW next \in {on[c], None}, Iret(c, next) PROVE Counted
  <2>1. ncli[c] = 0
    BY <1>9, CountIdle, Zenon DEF Iret, Cur, Busy, Pushed
  <2>2. CASE next = None
    BY <1>9, <2>1, <2>2, Zenon DEF Iret, Pushes, Cur
  <2>3. CASE next # None
    <3>1. next \in Contexts /\ Cur(c)' = next
      BY <1>9, <2>3, Zenon DEF Iret, Cur, Contexts
    <3>2. ~Busy(next)
      BY <1>9, <2>3, <3>1, SMTT(30) DEF Iret, Masked, OncePlaced, Cur
    <3> QED
      BY <1>9, <1>g, <2>1, <3>1, <3>2, Zenon DEF Iret
  <2> QED
    BY <2>2, <2>3, Zenon
<1>10. ASSUME NEW t \in Threads, Dispatch(c, t) PROVE Counted
  <2>1. t \in Contexts /\ Cur(c)' = t /\ ncli[c] = 0
    BY <1>10, <1>e, Zenon DEF Dispatch, Cur, Contexts
  <2>2. ~Busy(t)
    BY <1>10, <2>1 DEF Dispatch, Masked, Cur
  <2> QED
    BY <1>10, <1>e, <1>g, <2>1, <2>2, Zenon DEF Dispatch
<1> QED
  BY <1>1, <1>2, <1>3, <1>4, <1>5, <1>6, <1>7, <1>8, <1>9, <1>10, Zenon DEF Step

(* The invariant is inductive.                                               *)
LEMMA SpinStep == SpinInv /\ [Next]_vars => SpinInv'
<1> SUFFICES ASSUME SpinInv, [Next]_vars PROVE SpinInv'
  BY Zenon
<1>1. ASSUME NEW c \in CPUs, Step(c) PROVE SpinInv'
  <2>1. TypeOK'
    BY <1>1, TypeStep, Zenon DEF SpinInv
  <2> QED
    BY <1>1, <2>1, PlacedStep, MaskedStep, MatchedStep, RestorableStep, NotHeldStep,
       OneOwnerStep, LockedOwnedStep, CpuOfHolderStep, Zenon DEF SpinInv
<1>2. CASE UNCHANGED vars
  <2> USE <1>2 DEF vars
  <2>1. TypeOK' /\ OncePlaced' /\ Restorable' /\ NotHeld'
    BY Zenon DEF SpinInv, TypeOK, OncePlaced, Restorable, NotHeld
  <2>2. Masked' /\ CpuOfHolder'
    BY Zenon DEF SpinInv, Masked, CpuOfHolder, Busy, Cur
  <2>3. Matched'
    BY Zenon DEF SpinInv, Matched, Pushes, Cur
  <2>4. OneOwner' /\ LockedOwned'
    BY Zenon DEF SpinInv, OneOwner, LockedOwned, Owned
  <2> QED
    BY <2>1, <2>2, <2>3, <2>4, Zenon DEF SpinInv
<1> QED
  BY <1>1, <1>2, Zenon DEF Next

(* It implies what acquire() and release() promise.                          *)
LEMMA SpinExcludes == SpinInv => Exclusion
<1> SUFFICES ASSUME SpinInv PROVE Exclusion
  BY Zenon
<1>1. ASSUME NEW x \in Contexts, Owned(x) # {}
      PROVE  \E c \in CPUs : Cur(c) = x /\ ~flag[c] /\ \A l \in held[x] : lcpu[l] = c
  <2>1. Busy(x) /\ x # None
    BY <1>1, SpinlockAssumption, Zenon DEF Owned, Busy, Pushed, Contexts
  <2> QED
    BY <2>1 DEF SpinInv, TypeOK, Masked, CpuOfHolder
<1>2. ASSUME NEW c \in CPUs, Runs(c, "spin")
      PROVE  /\ ~holding(c, lk[Cur(c)])
             /\ locked[lk[Cur(c)]] =>
                  \E d \in CPUs \ {c} : Cur(d) # None /\ lk[Cur(c)] \in Owned(Cur(d))
  <2>1. Cur(c) \in Contexts /\ lk[Cur(c)] \in Locks /\ lk[Cur(c)] \notin Owned(Cur(c))
    BY <1>2, CurContext, Zenon DEF SpinInv, Runs, NotHeld, Owned, TypeOK
  <2>2. ~holding(c, lk[Cur(c)])
    BY <1>2, <2>1, Zenon DEF SpinInv, Runs, holding, CpuOfHolder, Owned
  <2>3. ASSUME locked[lk[Cur(c)]]
        PROVE  \E d \in CPUs \ {c} : Cur(d) # None /\ lk[Cur(c)] \in Owned(Cur(d))
    <3>1. PICK x \in Contexts : lk[Cur(c)] \in Owned(x)
      BY <2>1, <2>3, Zenon DEF SpinInv, LockedOwned
    <3> QED
      BY <1>1, <2>1, <3>1, SpinlockAssumption, Zenon DEF Contexts
  <2> QED
    BY <2>2, <2>3, Zenon
<1> QED
  BY <1>1, <1>2, Zenon DEF Exclusion, SpinInv

(* acquire() and release(), spinlock.c:20-68, for any number of CPUs, threads *)
(* and locks: a lock has one owner, which is neither interrupted nor moved,   *)
(* and neither function panics.                                               *)
THEOREM LockExclusion == Spec => []Exclusion
<1>1. Init => SpinInv
  BY SpinInit, Zenon
<1>2. SpinInv /\ [Next]_vars => SpinInv'
  BY SpinStep, Zenon
<1>3. SpinInv => Exclusion
  BY SpinExcludes, Zenon
<1> QED
  BY <1>1, <1>2, <1>3, PTL DEF Spec

(* pushcli() and popcli(), spinlock.c:100-125: ncli counts the calls that are *)
(* open, and with the last popcli() interrupts are as before the first        *)
(* pushcli(), although a thread may change CPUs inside pushcli().             *)
THEOREM InterruptsMatched == Spec => []Matched
<1>1. Init => SpinInv
  BY SpinInit, Zenon
<1>2. SpinInv /\ [Next]_vars => SpinInv'
  BY SpinStep, Zenon
<1>3. SpinInv => Matched
  BY Zenon DEF SpinInv
<1> QED
  BY <1>1, <1>2, <1>3, PTL DEF Spec
=============================================================================
