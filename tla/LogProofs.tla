----------------------------- MODULE LogProofs -----------------------------
(***************************************************************************)
(* Proofs about Log, for every number of processes and blocks and every    *)
(* size of the log: who may commit when, that the room begin_op() reserves *)
(* is enough, and that the log implements the atomic disk whenever the     *)
(* machine crashes.                                                        *)
(***************************************************************************)
EXTENDS Log, Integers, FiniteSetTheorems, TLAPS

----------------------------------------------------------------------------
(* Who is where.                                                            *)

Committers ==
  {p \in Procs : pc[p] \in {"write_log", "write_head", "install", "erase", "finish"}}

\* One process at a time commits, and only while no operation is under way;
\* nothing runs during recovery; a process has a buffer locked exactly while
\* log_write() has not entered it, and no two have the same.
ControlInv ==
  /\ TypeOK
  /\ \A p \in Committers : committing
  /\ \A p, q \in Committers : p = q
  /\ committing => Operating = {}
  /\ IsFiniteSet(Operating) /\ outstanding = Cardinality(Operating)
  /\ boot # "up" => \A p \in Procs : pc[p] = "idle"
  /\ \A p \in Procs : pc[p] = "append" <=> blk[p] # NoBlock
  /\ \A p, q \in Procs : blk[p] = blk[q] /\ blk[p] # NoBlock => p = q
  /\ \A p \in Procs : pc[p] = "append" => blk[p] \in wrote[p]
  /\ \A p \in Procs : p \notin Operating => wrote[p] = {}
  /\ \A p \in Procs : IsFiniteSet(wrote[p]) /\ Cardinality(wrote[p]) <= OPBLOCKS

----------------------------------------------------------------------------
(* The room in the log.                                                     *)

Entries(p) == {b \in wrote[p] : Listed(lh, b)}

\* The entries that processes may still make under what begin_op() reserved.
Reserve == {r \in Operating \X (1 .. MAXOPBLOCKS) :
              r[2] <= MAXOPBLOCKS - Cardinality(Entries(r[1]))}

Distinct(s) == \A i, j \in 1 .. Len(s) : s[i] = s[j] => i = j

\* The entries and the reservations fit into the log.
RoomInv ==
  /\ Distinct(lh) /\ Distinct(head)
  /\ Len(lh) + Cardinality(Reserve) <= LOGSIZE
  /\ ~panicked


----------------------------------------------------------------------------
(* The reservations are enough.                                             *)

\* The numbers.
LEMMA Numbers ==
  /\ LOGSIZE \in Nat /\ MAXOPBLOCKS \in Nat /\ OPBLOCKS \in Nat
  /\ OPBLOCKS + 2 <= MAXOPBLOCKS /\ NoBlock \notin Blocks
  BY LogAssumption, Zenon

\* What is reserved is finite, and no more than begin_op() reckons with.
LEMMA ReserveBound ==
  ControlInv => /\ IsFiniteSet(Reserve)
                /\ Cardinality(Reserve) \in Nat
                /\ Cardinality(Reserve) <= outstanding * MAXOPBLOCKS
<1> SUFFICES ASSUME ControlInv
             PROVE  /\ IsFiniteSet(Reserve)
                    /\ Cardinality(Reserve) \in Nat
                    /\ Cardinality(Reserve) <= outstanding * MAXOPBLOCKS
  BY Zenon
<1> DEFINE I == 1 .. MAXOPBLOCKS
           F == Operating \X I
<1>1. IsFiniteSet(I) /\ Cardinality(I) = MAXOPBLOCKS
  BY Numbers, FS_Interval
<1>2. IsFiniteSet(F) /\ Cardinality(F) = outstanding * MAXOPBLOCKS
  <2> HIDE DEF I
  <2> QED BY <1>1, FS_Product, Zenon DEF ControlInv
<1>3. Reserve \subseteq F
  BY Zenon DEF Reserve
<1> HIDE DEF F
<1> QED BY <1>2, <1>3, FS_Subset, FS_CardinalityType, Zenon

\* The same after a step.
LEMMA ReserveBoundNext ==
  ASSUME ControlInv'
  PROVE  Cardinality(Reserve') \in Nat /\ Cardinality(Reserve') <= outstanding' * MAXOPBLOCKS
<1> SUFFICES ASSUME ControlInv'
             PROVE  (/\ IsFiniteSet(Reserve)
                     /\ Cardinality(Reserve) \in Nat
                     /\ Cardinality(Reserve) <= outstanding * MAXOPBLOCKS)'
  BY Zenon
<1> QED BY ReserveBound, PTL

\* A process has entered at most the blocks that it has written.
LEMMA EntriesBound ==
  ASSUME ControlInv, NEW q \in Procs
  PROVE  /\ IsFiniteSet(Entries(q)) /\ Cardinality(Entries(q)) \in Nat
         /\ Cardinality(Entries(q)) <= OPBLOCKS
<1>1. IsFiniteSet(wrote[q]) /\ Cardinality(wrote[q]) <= OPBLOCKS
  BY Zenon DEF ControlInv
<1>2. Entries(q) \subseteq wrote[q]
  BY Zenon DEF Entries
<1>3. IsFiniteSet(Entries(q)) /\ Cardinality(Entries(q)) <= Cardinality(wrote[q])
  BY <1>1, <1>2, FS_Subset, Zenon
<1>4. Cardinality(Entries(q)) \in Nat /\ Cardinality(wrote[q]) \in Nat
  BY <1>1, <1>3, FS_CardinalityType, Zenon
<1> QED BY <1>1, <1>3, <1>4, Numbers

\* A process inside an operation has room for two more entries at least.
LEMMA ReserveTwo ==
  ASSUME ControlInv, NEW q \in Operating
  PROVE  Cardinality(Reserve) >= 2
<1>0. q \in Procs
  BY Zenon DEF Operating
<1>1. 2 <= MAXOPBLOCKS - Cardinality(Entries(q)) /\ 2 <= MAXOPBLOCKS /\ MAXOPBLOCKS \in Nat
  BY <1>0, EntriesBound, Numbers
<1>2. <<q, 1>> \in Reserve /\ <<q, 2>> \in Reserve
  <2>1. 1 \in 1 .. MAXOPBLOCKS /\ 2 \in 1 .. MAXOPBLOCKS
        /\ 1 <= MAXOPBLOCKS - Cardinality(Entries(q))
    BY <1>0, <1>1, EntriesBound
  <2> QED BY <1>1, <2>1, Zenon DEF Reserve
<1> DEFINE a == <<q, 1>>
           b == <<q, 2>>
<1>3. a # b
  OBVIOUS
<1>4. a \in Reserve /\ b \in Reserve
  BY <1>2, Zenon
<1> HIDE DEF a, b
<1>5. IsFiniteSet({a}) /\ Cardinality({a}) = 1
  BY FS_Singleton, Zenon
<1>6. IsFiniteSet({a} \cup {b}) /\ Cardinality({a} \cup {b}) = 2
  BY <1>3, <1>5, FS_AddElement
<1>7. Cardinality({a} \cup {b}) <= Cardinality(Reserve)
  <2>1. {a} \cup {b} \subseteq Reserve
    BY <1>4, Zenon
  <2> QED BY <2>1, ReserveBound, FS_Subset, Zenon
<1> QED BY <1>6, <1>7, ReserveBound, Zenon

\* A step that takes no entry from a reservation keeps the account.
LEMMA ReserveShrinks ==
  ASSUME ControlInv, RoomInv, Reserve' \subseteq Reserve, lh' = lh \/ lh' = <<>>
  PROVE  Len(lh') + Cardinality(Reserve') <= LOGSIZE
<1>1. Cardinality(Reserve') \in Nat /\ Cardinality(Reserve') <= Cardinality(Reserve)
  BY ReserveBound, FS_Subset, FS_CardinalityType, Zenon
<1>2. Len(lh) \in Nat /\ Len(<<>>) = 0
  BY DEF ControlInv, TypeOK
<1> QED BY <1>1, <1>2, ReserveBound, Numbers DEF RoomInv

\* Without operations nothing is reserved.
LEMMA ReserveNone ==
  ASSUME Operating' = {}
  PROVE  Cardinality(Reserve') = 0
<1>1. Reserve' = {}
  BY Zenon DEF Reserve
<1> QED BY <1>1, FS_EmptySet, Zenon

\* A new entry uses up one reservation of the process that makes it.
LEMMA ReserveUsed ==
  ASSUME ControlInv, RoomInv, NEW p \in Procs, LogAppend(p)
  PROVE  Len(lh') + Cardinality(Reserve') <= LOGSIZE /\ Distinct(lh')
<1> USE DEF Goto
<1> DEFINE e == blk[p]
           n == MAXOPBLOCKS - Cardinality(Entries(p))
           r == <<p, n>>
<1>0. /\ p \in Operating /\ e \in wrote[p] /\ e \in Blocks /\ lh \in Seq(Blocks)
      /\ lh' = Entered(e) /\ wrote' = wrote
  BY Numbers, Zenon DEF LogAppend, Operating, ControlInv, TypeOK
<1>1. Operating' = Operating
  BY Zenon DEF LogAppend, Operating, ControlInv, TypeOK
<1>2. CASE Listed(lh, e)
  <2>1. lh' = lh
    BY <1>0, <1>2, Zenon DEF Entered
  <2>2. Reserve' = Reserve
    BY <1>0, <1>1, <2>1 DEF Reserve, Entries
  <2> QED BY <2>1, <2>2, Zenon DEF RoomInv, Distinct
<1>3. CASE ~Listed(lh, e)
  <2>1. lh' = Append(lh, e)
    BY <1>0, <1>3, Zenon DEF Entered
  <2>2. /\ Len(lh') = Len(lh) + 1 /\ Len(lh) \in Nat
        /\ lh'[Len(lh) + 1] = e
        /\ \A i \in 1 .. Len(lh) : lh'[i] = lh[i]
    BY <1>0, <2>1
  <2>3. Distinct(lh')
    BY <1>3, <2>2 DEF RoomInv, Distinct, Listed
  <2>4. \A b \in Blocks : Listed(lh', b) <=> Listed(lh, b) \/ b = e
    BY <2>2 DEF Listed
  <2>5. \A q \in Procs : Entries(q)' = IF e \in wrote[q] THEN Entries(q) \cup {e} ELSE Entries(q)
    BY <1>0, <2>4 DEF Entries, ControlInv, TypeOK
  <2>6. ASSUME NEW q \in Procs
        PROVE  /\ Cardinality(Entries(q)') \in Nat /\ Cardinality(Entries(q)') >= Cardinality(Entries(q))
               /\ q = p => Cardinality(Entries(q)') = Cardinality(Entries(q)) + 1
    <3>1. e \notin Entries(q)
      BY <1>3, Zenon DEF Entries
    <3>2. Cardinality(Entries(q) \cup {e}) = Cardinality(Entries(q)) + 1
      BY <3>1, EntriesBound, FS_AddElement, Zenon
    <3>3. Cardinality(Entries(q)) \in Nat
      BY EntriesBound, Zenon
    <3>4. CASE e \in wrote[q]
      <4>1. Entries(q)' = Entries(q) \cup {e}
        BY <2>5, <3>4, Zenon
      <4> QED BY <3>2, <3>3, <4>1
    <3>5. CASE e \notin wrote[q]
      BY <1>0, <2>5, <3>3, <3>5
    <3> QED BY <3>4, <3>5, Zenon
  <2>7. Reserve' \subseteq Reserve \ {r}
    <3> SUFFICES ASSUME NEW x \in Reserve' PROVE x \in Reserve /\ x # r
      BY Zenon
    <3>1. /\ x \in Operating \X (1 .. MAXOPBLOCKS)
          /\ x[2] <= MAXOPBLOCKS - Cardinality(Entries(x[1])')
      BY <1>1, Zenon DEF Reserve
    <3>2. x[1] \in Procs /\ x[2] \in 1 .. MAXOPBLOCKS
      BY <3>1, Zenon DEF Operating
    <3>3. /\ x[2] <= MAXOPBLOCKS - Cardinality(Entries(x[1]))
          /\ x[1] = p => x[2] # n
      BY <2>6, <3>1, <3>2, EntriesBound, Numbers
    <3> QED BY <3>1, <3>3 DEF Reserve
  <2>8. r \in Reserve
    <3>1. n \in 1 .. MAXOPBLOCKS
      BY EntriesBound, Numbers
    <3> QED BY <1>0, <3>1 DEF Reserve
  <2> HIDE DEF r
  <2>9. IsFiniteSet(Reserve \ {r}) /\ Cardinality(Reserve \ {r}) = Cardinality(Reserve) - 1
    BY <2>8, ReserveBound, FS_RemoveElement, Zenon
  <2>10. Cardinality(Reserve') \in Nat /\ Cardinality(Reserve') <= Cardinality(Reserve) - 1
    BY <2>7, <2>9, FS_Subset, FS_CardinalityType
  <2> QED BY <2>2, <2>3, <2>10, ReserveBound, Numbers DEF RoomInv
<1> QED BY <1>2, <1>3, Zenon

----------------------------------------------------------------------------
(* Control.                                                                 *)

\* One turn of a loop over the entries.
LEMMA LoopTurn ==
  ASSUME TypeOK, MoreEntries
  PROVE  /\ tail \in 1 .. Len(lh) /\ tail \in 1 .. LOGSIZE /\ tail + 1 \in 1 .. LOGSIZE + 1
         /\ lh[tail] \in Blocks /\ cache[lh[tail]] \in Vals /\ logb[tail] \in Vals
<1>1. /\ tail \in Nat /\ 1 <= tail /\ tail <= Len(lh) /\ Len(lh) \in Nat /\ Len(lh) <= LOGSIZE
      /\ lh \in Seq(Blocks) /\ LOGSIZE \in Nat
  BY Numbers DEF TypeOK, MoreEntries
<1>2. tail \in 1 .. Len(lh) /\ tail \in 1 .. LOGSIZE /\ tail + 1 \in 1 .. LOGSIZE + 1
  BY <1>1
<1>3. lh[tail] \in Blocks
  BY <1>1, <1>2
<1> QED BY <1>2, <1>3, Zenon DEF TypeOK

\* Steps that neither begin, end nor extend an operation.
LEMMA ControlFrame ==
  ASSUME ControlInv, TypeOK', wrote' = wrote, outstanding' = outstanding, blk' = blk,
         Operating' = Operating, Committers' \subseteq Committers,
         \A q \in Procs : pc'[q] = "append" <=> pc[q] = "append",
         committing' = committing \/ (~committing' /\ Committers' = {}),
         boot' # "up" => \A q \in Procs : pc'[q] = "idle"
  PROVE  ControlInv'
<1>1. Committers \subseteq Procs /\ Committers' \subseteq Procs
  BY Zenon DEF Committers
<1>2. /\ \A q \in Committers' : committing'
      /\ \A q, r \in Committers' : q = r
      /\ committing' => Operating' = {}
  BY <1>1 DEF ControlInv
<1>3. IsFiniteSet(Operating') /\ outstanding' = Cardinality(Operating')
  BY Zenon DEF ControlInv
<1>4. /\ \A q \in Procs : pc'[q] = "append" <=> blk'[q] # NoBlock
      /\ \A q \in Procs : pc'[q] = "append" => blk'[q] \in wrote'[q]
  BY Zenon DEF ControlInv
<1>5. /\ \A q, r \in Procs : blk'[q] = blk'[r] /\ blk'[q] # NoBlock => q = r
      /\ \A q \in Procs : q \notin Operating' => wrote'[q] = {}
  BY Zenon DEF ControlInv
<1>6. \A q \in Procs : IsFiniteSet(wrote'[q]) /\ Cardinality(wrote'[q]) <= OPBLOCKS
  BY Zenon DEF ControlInv
<1> QED BY <1>2, <1>3, <1>4, <1>5, <1>6, Zenon DEF ControlInv

\* Every step keeps ControlInv.
LEMMA ControlStep ==
  ASSUME ControlInv, RoomInv, [Next]_vars
  PROVE  ControlInv'
<1> USE DEF Goto, media
<1>1. ASSUME NEW p \in Procs, BeginSleep(p), ~panicked PROVE ControlInv'
  <2>1. Operating' = Operating /\ Committers' \subseteq Committers
    BY <1>1, Zenon DEF BeginSleep, ControlInv, TypeOK, Operating, Committers,
       WakeAndGoto, AfterWriteLog
  <2>2. TypeOK'
    BY <1>1, Numbers, Zenon DEF BeginSleep, ControlInv, TypeOK, WakeAndGoto
  <2>3. /\ wrote' = wrote /\ outstanding' = outstanding /\ blk' = blk
        /\ \A q \in Procs : pc'[q] = "append" <=> pc[q] = "append"
    BY <1>1, Zenon DEF BeginSleep, ControlInv, TypeOK, WakeAndGoto, AfterWriteLog,
       InstallTrans
  <2>4. boot' # "up" => \A q \in Procs : pc'[q] = "idle"
    BY <1>1, Zenon DEF BeginSleep, ControlInv, TypeOK, InstallTrans
  <2>5. committing' = committing \/ (~committing' /\ Committers' = {})
    BY <1>1, Zenon DEF BeginSleep, ControlInv, TypeOK, Committers, WakeAndGoto
  <2> QED BY <2>1, <2>2, <2>3, <2>4, <2>5, ControlFrame, Zenon
<1>2. ASSUME NEW p \in Procs, BeginOp(p), ~panicked PROVE ControlInv'
  <2>1. Operating' = Operating \cup {p} /\ p \notin Operating
    BY <1>2, ZenonT(30) DEF BeginOp, ControlInv, TypeOK, Operating
  <2>2. TypeOK'
    BY <1>2 DEF BeginOp, ControlInv, TypeOK
  <2>3. IsFiniteSet(Operating') /\ Cardinality(Operating') = Cardinality(Operating) + 1
    BY <2>1, FS_AddElement, Zenon DEF ControlInv
  <2>4. ~committing
    BY <1>2, Zenon DEF BeginOp, MustWait
  <2> QED BY <1>2, <2>1, <2>2, <2>3, <2>4, ZenonT(30) DEF BeginOp, ControlInv, TypeOK,
             Operating, Committers
<1>3. ASSUME NEW p \in Procs, LogAppend(p), ~panicked PROVE ControlInv'
  <2>1. Operating' = Operating /\ Committers' = Committers
    BY <1>3, Zenon DEF LogAppend, ControlInv, TypeOK, Operating, Committers
  <2>2. Len(lh') <= LOGSIZE
    <3>1. Cardinality(Reserve') \in Nat
      <4> DEFINE I == 1 .. MAXOPBLOCKS
      <4>1. IsFiniteSet(I)
        BY Numbers, FS_Interval
      <4>2. Reserve' \subseteq Operating \X I
        BY <2>1, Zenon DEF Reserve
      <4> HIDE DEF I
      <4>3. IsFiniteSet(Operating \X I)
        BY <4>1, FS_Product, Zenon DEF ControlInv
      <4> QED BY <4>2, <4>3, FS_Subset, FS_CardinalityType, Zenon
    <3>2. Len(lh') \in Nat
      BY <1>3, Numbers DEF LogAppend, Entered, ControlInv, TypeOK
    <3> QED BY <1>3, <3>1, <3>2, ReserveUsed, Numbers
  <2>3. /\ lh' \in Seq(Blocks)
        /\ dirty' \subseteq Blocks
    <3>1. blk[p] \in Blocks
      BY <1>3, Zenon DEF LogAppend, ControlInv, TypeOK
    <3> QED BY <1>3, <3>1 DEF LogAppend, Entered, Pinned, ControlInv, TypeOK
  <2>4. TypeOK'
    BY <1>3, <2>2, <2>3, Zenon DEF LogAppend, ControlInv, TypeOK
  <2>5. /\ \A q \in Procs : pc'[q] = "append" <=> blk'[q] # NoBlock
        /\ \A q \in Procs : pc'[q] = "append" => blk'[q] \in wrote'[q]
    BY <1>3, Zenon DEF LogAppend, ControlInv, TypeOK
  <2>6. \A q, r \in Procs : blk'[q] = blk'[r] /\ blk'[q] # NoBlock => q = r
    BY <1>3, Zenon DEF LogAppend, ControlInv, TypeOK
  <2>7. /\ wrote' = wrote /\ outstanding' = outstanding /\ committing' = committing
        /\ boot' = boot /\ boot = "up"
    BY <1>3, Zenon DEF LogAppend, ControlInv
  <2> QED BY <2>1, <2>4, <2>5, <2>6, <2>7, Zenon DEF ControlInv
<1>4. ASSUME NEW p \in Procs, EndOp(p), ~panicked PROVE ControlInv'
  <2>1. p \in Operating /\ pc[p] = "op"
    BY <1>4, Zenon DEF EndOp, Operating
  <2>2. Operating' = Operating \ {p}
    BY <1>4 DEF EndOp, ControlInv, TypeOK, Operating, WakeAndGoto
  <2>3. IsFiniteSet(Operating') /\ Cardinality(Operating') = Cardinality(Operating) - 1
    BY <2>1, <2>2, FS_RemoveElement, Zenon DEF ControlInv
  <2>4. Cardinality(Operating') \in Nat
    BY <2>3, FS_CardinalityType, Zenon
  <2>5. outstanding' = Cardinality(Operating') /\ outstanding' \in Nat
    BY <1>4, <2>3, <2>4, Zenon DEF EndOp, Ended, ControlInv, TypeOK
  <2>6. outstanding' = 0 => Operating' = {}
    BY <2>3, <2>5, FS_EmptySet, ZenonT(30)
  <2>7. ~committing /\ panicked' = FALSE /\ Committers = {}
    BY <1>4, <2>1 DEF EndOp, ControlInv
  <2>8. IsFiniteSet({}) /\ Cardinality({}) = 0
    BY FS_EmptySet, Zenon
  <2>9. /\ wrote' = [wrote EXCEPT ![p] = {}]
        /\ UNCHANGED <<disk, logb, head, cache, dirty, lh, tail, blk, boot>>
        /\ \/ outstanding' = 0 /\ committing' = TRUE /\ pc' = [pc EXCEPT ![p] = "write_log"]
           \/ committing' = committing
              /\ pc' = [q \in Procs |-> IF q = p THEN "idle"
                                        ELSE IF pc[q] = "asleep" THEN "begin" ELSE pc[q]]
    BY <1>4, Zenon DEF EndOp, WakeAndGoto
  <2>10. TypeOK'
    <3>1. wrote' \in [Procs -> SUBSET Blocks]
      BY <2>9, Zenon DEF ControlInv, TypeOK
    <3>2. /\ pc' \in [Procs -> {"idle", "begin", "asleep", "op", "append", "write_log",
                                "write_head", "install", "erase", "finish"}]
          /\ committing' \in BOOLEAN
      <4> USE DEF ControlInv, TypeOK
      <4>1. CASE outstanding' = 0 /\ committing' = TRUE /\ pc' = [pc EXCEPT ![p] = "write_log"]
        BY <4>1, Zenon
      <4>2. CASE /\ committing' = committing
                 /\ pc' = [q \in Procs |-> IF q = p THEN "idle"
                                           ELSE IF pc[q] = "asleep" THEN "begin" ELSE pc[q]]
        BY <4>2, Zenon
      <4> QED BY <2>9, <4>1, <4>2, ZenonT(30)
    <3> QED BY <2>5, <2>7, <2>9, <3>1, <3>2, ZenonT(30) DEF ControlInv, TypeOK
  <2>11. boot = "up"
    BY <2>1, Zenon DEF ControlInv, Operating
  <2>12. /\ \A q \in Procs \ {p} : wrote'[q] = wrote[q] /\ pc'[q] \in {pc[q], "begin"}
         /\ \A q \in Procs \ {p} : pc'[q] = "begin" => pc[q] \in {"begin", "asleep"}
         /\ wrote'[p] = {} /\ pc'[p] \in {"idle", "write_log"}
         /\ blk' = blk /\ boot' = boot
    BY <2>9 DEF ControlInv, TypeOK
  <2>13. /\ \A q \in Committers' : committing' /\ q = p
         /\ committing' => Operating' = {}
    BY <2>6, <2>7, <2>9 DEF Committers, ControlInv, TypeOK
  <2>14. /\ \A q \in Procs : pc'[q] = "append" <=> blk'[q] # NoBlock
         /\ \A q \in Procs : pc'[q] = "append" => blk'[q] \in wrote'[q]
    BY <2>1, <2>12, Zenon DEF ControlInv
  <2>15. ASSUME NEW q \in Procs
         PROVE  /\ q \notin Operating' => wrote'[q] = {}
                /\ IsFiniteSet(wrote'[q]) /\ Cardinality(wrote'[q]) <= OPBLOCKS
    <3>1. CASE q = p
      BY <2>8, <2>12, <3>1, Numbers
    <3>2. CASE q # p
      <4>1. wrote'[q] = wrote[q]
        BY <2>12, <3>2, Zenon
      <4> QED BY <2>2, <3>2, <4>1, Zenon DEF ControlInv
    <3> QED BY <3>1, <3>2, Zenon
  <2>16. \A q, r \in Procs : blk'[q] = blk'[r] /\ blk'[q] # NoBlock => q = r
    BY <2>12, Zenon DEF ControlInv
  <2> QED BY <2>3, <2>5, <2>10, <2>11, <2>12, <2>13, <2>14, <2>15, <2>16 DEF ControlInv
<1>5. ASSUME NEW p \in Procs, WriteLog(p), ~panicked PROVE ControlInv'
  <2>1. Operating' = Operating /\ Committers' \subseteq Committers
    BY <1>5 DEF WriteLog, ControlInv, TypeOK, Operating, Committers, WakeAndGoto, AfterWriteLog
  <2>2. TypeOK'
    <3>1. CASE MoreEntries
      BY <1>5, <3>1, LoopTurn, Zenon DEF WriteLog, ControlInv, TypeOK, InstallTrans
    <3>2. CASE ~MoreEntries
      <4>1. 1 \in 1 .. LOGSIZE + 1
        BY Numbers
      <4> QED BY <1>5, <3>2, <4>1, Zenon DEF WriteLog, ControlInv, TypeOK, AfterWriteLog
    <3> QED BY <3>1, <3>2, Zenon
  <2>3. /\ wrote' = wrote /\ outstanding' = outstanding /\ blk' = blk
        /\ \A q \in Procs : pc'[q] = "append" <=> pc[q] = "append"
    BY <1>5, Zenon DEF WriteLog, ControlInv, TypeOK, WakeAndGoto, AfterWriteLog,
       InstallTrans
  <2>4. boot' # "up" => \A q \in Procs : pc'[q] = "idle"
    BY <1>5, Zenon DEF WriteLog, ControlInv, TypeOK, InstallTrans
  <2>5. committing' = committing \/ (~committing' /\ Committers' = {})
    BY <1>5, Zenon DEF WriteLog, ControlInv, TypeOK, Committers, WakeAndGoto
  <2> QED BY <2>1, <2>2, <2>3, <2>4, <2>5, ControlFrame, Zenon
<1>6. ASSUME NEW p \in Procs, WriteHead(p), ~panicked PROVE ControlInv'
  <2>1. Operating' = Operating /\ Committers' \subseteq Committers
    BY <1>6, ZenonT(30) DEF WriteHead, ControlInv, TypeOK, Operating, Committers,
       WakeAndGoto, AfterWriteLog
  <2>2. TypeOK'
    BY <1>6, Numbers, Zenon DEF WriteHead, ControlInv, TypeOK, WakeAndGoto
  <2>3. /\ wrote' = wrote /\ outstanding' = outstanding /\ blk' = blk
        /\ \A q \in Procs : pc'[q] = "append" <=> pc[q] = "append"
    BY <1>6, Zenon DEF WriteHead, ControlInv, TypeOK, WakeAndGoto, AfterWriteLog,
       InstallTrans
  <2>4. boot' # "up" => \A q \in Procs : pc'[q] = "idle"
    BY <1>6, Zenon DEF WriteHead, ControlInv, TypeOK, InstallTrans
  <2>5. committing' = committing \/ (~committing' /\ Committers' = {})
    BY <1>6, ZenonT(30) DEF WriteHead, ControlInv, TypeOK, Committers, WakeAndGoto
  <2> QED BY <2>1, <2>2, <2>3, <2>4, <2>5, ControlFrame, Zenon
<1>7. ASSUME NEW p \in Procs, Install(p), ~panicked PROVE ControlInv'
  <2>1. Operating' = Operating /\ Committers' \subseteq Committers
    BY <1>7, ZenonT(30) DEF Install, ControlInv, TypeOK, Operating, Committers,
       WakeAndGoto, AfterWriteLog
  <2>2. TypeOK'
    <3>1. CASE MoreEntries
      BY <1>7, <3>1, LoopTurn, ZenonT(30) DEF Install, ControlInv, TypeOK, InstallTrans
    <3>2. CASE ~MoreEntries
      <4>1. 1 \in 1 .. LOGSIZE + 1
        BY Numbers
      <4> QED BY <1>7, <3>2, <4>1, ZenonT(30) DEF Install, ControlInv, TypeOK,
                 AfterWriteLog
    <3> QED BY <3>1, <3>2, Zenon
  <2>3. /\ wrote' = wrote /\ outstanding' = outstanding /\ blk' = blk
        /\ \A q \in Procs : pc'[q] = "append" <=> pc[q] = "append"
    BY <1>7, Zenon DEF Install, ControlInv, TypeOK, WakeAndGoto, AfterWriteLog,
       InstallTrans
  <2>4. boot' # "up" => \A q \in Procs : pc'[q] = "idle"
    BY <1>7, Zenon DEF Install, ControlInv, TypeOK, InstallTrans
  <2>5. committing' = committing \/ (~committing' /\ Committers' = {})
    BY <1>7, ZenonT(30) DEF Install, ControlInv, TypeOK, Committers, WakeAndGoto
  <2> QED BY <2>1, <2>2, <2>3, <2>4, <2>5, ControlFrame, Zenon
<1>8. ASSUME NEW p \in Procs, Erase(p), ~panicked PROVE ControlInv'
  <2>1. Operating' = Operating /\ Committers' \subseteq Committers
    BY <1>8, Zenon DEF Erase, ControlInv, TypeOK, Operating, Committers, WakeAndGoto,
       AfterWriteLog
  <2>2. TypeOK'
    BY <1>8, Numbers DEF Erase, ControlInv, TypeOK, WakeAndGoto
  <2>3. /\ wrote' = wrote /\ outstanding' = outstanding /\ blk' = blk
        /\ \A q \in Procs : pc'[q] = "append" <=> pc[q] = "append"
    BY <1>8, Zenon DEF Erase, ControlInv, TypeOK, WakeAndGoto, AfterWriteLog,
       InstallTrans
  <2>4. boot' # "up" => \A q \in Procs : pc'[q] = "idle"
    BY <1>8, Zenon DEF Erase, ControlInv, TypeOK, InstallTrans
  <2>5. committing' = committing \/ (~committing' /\ Committers' = {})
    BY <1>8, ZenonT(30) DEF Erase, ControlInv, TypeOK, Committers, WakeAndGoto
  <2> QED BY <2>1, <2>2, <2>3, <2>4, <2>5, ControlFrame, Zenon
<1>9. ASSUME NEW p \in Procs, Finish(p), ~panicked PROVE ControlInv'
  <2>1. Operating' = Operating /\ Committers' \subseteq Committers
    BY <1>9, Zenon DEF Finish, ControlInv, TypeOK, Operating, Committers, WakeAndGoto,
       AfterWriteLog
  <2>2. TypeOK'
    BY <1>9, Numbers, ZenonT(30) DEF Finish, ControlInv, TypeOK, WakeAndGoto
  <2>3. /\ wrote' = wrote /\ outstanding' = outstanding /\ blk' = blk
        /\ \A q \in Procs : pc'[q] = "append" <=> pc[q] = "append"
    BY <1>9, Zenon DEF Finish, ControlInv, TypeOK, WakeAndGoto, AfterWriteLog,
       InstallTrans
  <2>4. boot' # "up" => \A q \in Procs : pc'[q] = "idle"
    BY <1>9, Zenon DEF Finish, ControlInv, TypeOK, InstallTrans
  <2>5. committing' = committing \/ (~committing' /\ Committers' = {})
    BY <1>9 DEF Finish, ControlInv, TypeOK, Committers, WakeAndGoto
  <2> QED BY <2>1, <2>2, <2>3, <2>4, <2>5, ControlFrame, Zenon
<1>10. ASSUME NEW p \in Procs, NEW b \in Blocks, NEW v \in Vals, LogWrite(p, b, v), ~panicked
      PROVE  ControlInv'
  <2>0. pc' = [pc EXCEPT ![p] = "append"] /\ pc[p] = "op"
    BY <1>10, Zenon DEF LogWrite
  <2>1. Operating' = Operating /\ p \in Operating /\ Committers' = Committers
    BY <2>0, Zenon DEF ControlInv, TypeOK, Operating, Committers
  <2>2. TypeOK'
    BY <1>10, Zenon DEF LogWrite, ControlInv, TypeOK
  <2>3. ASSUME NEW q \in Procs
        PROVE  IsFiniteSet(wrote'[q]) /\ Cardinality(wrote'[q]) <= OPBLOCKS
    <3>1. CASE q # p
      <4>1. wrote'[q] = wrote[q]
        BY <1>10, <3>1, Zenon DEF LogWrite, ControlInv, TypeOK
      <4> QED BY <4>1, Zenon DEF ControlInv
    <3>2. CASE q = p
      <4>1. wrote'[p] = wrote[p] \cup {b}
        BY <1>10, Zenon DEF LogWrite, ControlInv, TypeOK
      <4>2. IsFiniteSet(wrote[p]) /\ Cardinality(wrote[p]) <= OPBLOCKS
        BY Zenon DEF ControlInv
      <4>3. Cardinality(wrote[p]) \in Nat
        BY <4>2, FS_CardinalityType, Zenon
      <4>4. /\ IsFiniteSet(wrote[p] \cup {b})
            /\ Cardinality(wrote[p] \cup {b}) =
                 IF b \in wrote[p] THEN Cardinality(wrote[p]) ELSE Cardinality(wrote[p]) + 1
        BY <4>2, FS_AddElement, Zenon
      <4>5. b \in wrote[p] \/ Cardinality(wrote[p]) < OPBLOCKS
        BY <1>10, Zenon DEF LogWrite
      <4> QED BY <3>2, <4>1, <4>2, <4>3, <4>4, <4>5, Numbers
    <3> QED BY <3>1, <3>2, Zenon
  <2>4. /\ \A q \in Procs : pc'[q] = "append" <=> blk'[q] # NoBlock
        /\ \A q \in Procs : pc'[q] = "append" => blk'[q] \in wrote'[q]
    BY <1>10, Numbers, Zenon DEF LogWrite, ControlInv, TypeOK
  <2>5. \A q, r \in Procs : blk'[q] = blk'[r] /\ blk'[q] # NoBlock => q = r
    BY <1>10, Numbers, Zenon DEF LogWrite, ControlInv, TypeOK
  <2>6. \A q \in Procs : q \notin Operating' => wrote'[q] = {}
    BY <1>10, <2>1, ZenonT(30) DEF LogWrite, ControlInv, TypeOK
  <2>7. /\ outstanding' = outstanding /\ committing' = committing
        /\ boot' = boot /\ boot = "up"
    BY <1>10, Zenon DEF LogWrite, ControlInv
  <2> QED BY <2>1, <2>2, <2>3, <2>4, <2>5, <2>6, <2>7, Zenon DEF ControlInv
<1>11. ASSUME NEW b \in Blocks, Evict(b), ~panicked PROVE ControlInv'
  <2>1. Operating' = Operating /\ Committers' \subseteq Committers
    BY <1>11, Zenon DEF Evict, ControlInv, TypeOK, Operating, Committers, WakeAndGoto,
       AfterWriteLog
  <2>2. TypeOK'
    BY <1>11, Numbers, Zenon DEF Evict, ControlInv, TypeOK, WakeAndGoto
  <2>3. /\ wrote' = wrote /\ outstanding' = outstanding /\ blk' = blk
        /\ \A q \in Procs : pc'[q] = "append" <=> pc[q] = "append"
    BY <1>11, Zenon DEF Evict, ControlInv, TypeOK, WakeAndGoto, AfterWriteLog,
       InstallTrans
  <2>4. boot' # "up" => \A q \in Procs : pc'[q] = "idle"
    BY <1>11, Zenon DEF Evict, ControlInv, TypeOK, InstallTrans
  <2>5. committing' = committing \/ (~committing' /\ Committers' = {})
    BY <1>11, Zenon DEF Evict, ControlInv, TypeOK, Committers, WakeAndGoto
  <2> QED BY <2>1, <2>2, <2>3, <2>4, <2>5, ControlFrame, Zenon
<1>12. CASE Crash
  <2>1. Operating' = {} /\ Committers' = {}
    BY <1>12, Zenon DEF Crash, Operating, Committers
  <2>2. TypeOK'
    <3>1. 1 \in 1 .. LOGSIZE + 1 /\ <<>> \in Seq(Blocks) /\ Len(<<>>) <= LOGSIZE
      BY Numbers
    <3> QED BY <1>12, <3>1, ZenonT(30) DEF Crash, ControlInv, TypeOK
  <2>3. IsFiniteSet({}) /\ Cardinality({}) = 0
    BY FS_EmptySet, Zenon
  <2> QED BY <1>12, <2>1, <2>2, <2>3, Numbers DEF Crash, ControlInv
<1>13. CASE ReadHead
  <2>1. Operating' = Operating /\ Committers' \subseteq Committers
    BY <1>13, Zenon DEF ReadHead, ControlInv, TypeOK, Operating, Committers,
       WakeAndGoto, AfterWriteLog
  <2>2. TypeOK'
    BY <1>13, Numbers, Zenon DEF ReadHead, ControlInv, TypeOK, WakeAndGoto
  <2>3. /\ wrote' = wrote /\ outstanding' = outstanding /\ blk' = blk
        /\ \A q \in Procs : pc'[q] = "append" <=> pc[q] = "append"
    BY <1>13, Zenon DEF ReadHead, ControlInv, TypeOK, WakeAndGoto, AfterWriteLog,
       InstallTrans
  <2>4. boot' # "up" => \A q \in Procs : pc'[q] = "idle"
    BY <1>13, Zenon DEF ReadHead, ControlInv, TypeOK, InstallTrans
  <2>5. committing' = committing \/ (~committing' /\ Committers' = {})
    BY <1>13, Zenon DEF ReadHead, ControlInv, TypeOK, Committers, WakeAndGoto
  <2> QED BY <2>1, <2>2, <2>3, <2>4, <2>5, ControlFrame, Zenon
<1>14. CASE RecoverInstall
  <2>1. Operating' = Operating /\ Committers' \subseteq Committers
    BY <1>14, Zenon DEF RecoverInstall, ControlInv, TypeOK, Operating, Committers,
       WakeAndGoto, AfterWriteLog
  <2>2. TypeOK'
    <3>1. CASE MoreEntries
      BY <1>14, <3>1, LoopTurn, ZenonT(30) DEF RecoverInstall, ControlInv, TypeOK, InstallTrans
    <3>2. CASE ~MoreEntries
      <4>1. 1 \in 1 .. LOGSIZE + 1
        BY Numbers
      <4> QED BY <1>14, <3>2, <4>1, Zenon DEF RecoverInstall, ControlInv, TypeOK,
                 AfterWriteLog
    <3> QED BY <3>1, <3>2, Zenon
  <2>3. /\ wrote' = wrote /\ outstanding' = outstanding /\ blk' = blk
        /\ \A q \in Procs : pc'[q] = "append" <=> pc[q] = "append"
    BY <1>14, Zenon DEF RecoverInstall, ControlInv, TypeOK, WakeAndGoto, AfterWriteLog,
       InstallTrans
  <2>4. boot' # "up" => \A q \in Procs : pc'[q] = "idle"
    BY <1>14, Zenon DEF RecoverInstall, ControlInv, TypeOK, InstallTrans
  <2>5. committing' = committing \/ (~committing' /\ Committers' = {})
    BY <1>14, ZenonT(30) DEF RecoverInstall, ControlInv, TypeOK, Committers, WakeAndGoto
  <2> QED BY <2>1, <2>2, <2>3, <2>4, <2>5, ControlFrame, Zenon
<1>15. CASE RecoverErase
  <2>1. Operating' = Operating /\ Committers' \subseteq Committers
    BY <1>15, Zenon DEF RecoverErase, ControlInv, TypeOK, Operating, Committers,
       WakeAndGoto, AfterWriteLog
  <2>2. TypeOK'
    BY <1>15, Numbers DEF RecoverErase, ControlInv, TypeOK, WakeAndGoto
  <2>3. /\ wrote' = wrote /\ outstanding' = outstanding /\ blk' = blk
        /\ \A q \in Procs : pc'[q] = "append" <=> pc[q] = "append"
    BY <1>15, Zenon DEF RecoverErase, ControlInv, TypeOK, WakeAndGoto, AfterWriteLog,
       InstallTrans
  <2>4. boot' # "up" => \A q \in Procs : pc'[q] = "idle"
    BY <1>15, Zenon DEF RecoverErase, ControlInv, TypeOK, InstallTrans
  <2>5. committing' = committing \/ (~committing' /\ Committers' = {})
    BY <1>15, Zenon DEF RecoverErase, ControlInv, TypeOK, Committers, WakeAndGoto
  <2> QED BY <2>1, <2>2, <2>3, <2>4, <2>5, ControlFrame, Zenon
<1>16. CASE UNCHANGED vars
  <2>1. Operating' = Operating /\ Committers' \subseteq Committers
    BY <1>16, Zenon DEF vars, ControlInv, TypeOK, Operating, Committers, WakeAndGoto,
       AfterWriteLog
  <2>2. TypeOK'
    BY <1>16, Numbers, Zenon DEF vars, ControlInv, TypeOK, WakeAndGoto
  <2>3. /\ wrote' = wrote /\ outstanding' = outstanding /\ blk' = blk
        /\ \A q \in Procs : pc'[q] = "append" <=> pc[q] = "append"
    BY <1>16, Zenon DEF vars, ControlInv, TypeOK, WakeAndGoto, AfterWriteLog,
       InstallTrans
  <2>4. boot' # "up" => \A q \in Procs : pc'[q] = "idle"
    BY <1>16, Zenon DEF vars, ControlInv, TypeOK, InstallTrans
  <2>5. committing' = committing \/ (~committing' /\ Committers' = {})
    BY <1>16, Zenon DEF vars, ControlInv, TypeOK, Committers, WakeAndGoto
  <2> QED BY <2>1, <2>2, <2>3, <2>4, <2>5, ControlFrame, Zenon
<1> QED
  BY <1>1, <1>2, <1>3, <1>4, <1>5, <1>6, <1>7, <1>8, <1>9, <1>10, <1>11, <1>12, <1>13,
     <1>14, <1>15, <1>16, ZenonT(30) DEF Next, Kernel, Recover

----------------------------------------------------------------------------
(* Room.                                                                    *)

\* Steps that leave the operations, their blocks and the header alone.
LEMMA RoomFrame ==
  ASSUME RoomInv, wrote' = wrote, lh' = lh, head' = head, panicked' = panicked,
         Operating' = Operating
  PROVE  RoomInv'
<1>1. Reserve' = Reserve
  BY Zenon DEF Reserve, Entries
<1> QED BY <1>1, Zenon DEF RoomInv, Distinct

\* A crash, a boot and the end of a commit leave no operation and at most the
\* header that is on disk.
LEMMA RoomCleared ==
  ASSUME ControlInv, RoomInv, Cardinality(Reserve') = 0,
         lh' \in {<<>>, head}, head' \in {<<>>, head}, ~panicked'
  PROVE  RoomInv'
<1>1. Distinct(<<>>) /\ Len(<<>>) = 0 /\ Len(head) \in Nat /\ Len(head) <= LOGSIZE
  BY DEF Distinct, ControlInv, TypeOK
<1>2. Distinct(lh') /\ Distinct(head')
  BY <1>1, Zenon DEF RoomInv
<1>3. Len(lh') + Cardinality(Reserve') <= LOGSIZE
  BY <1>1, Numbers
<1> QED BY <1>2, <1>3, Zenon DEF RoomInv, Distinct

\* Every step keeps RoomInv.
LEMMA RoomStep ==
  ASSUME ControlInv, RoomInv, ControlInv', [Next]_vars
  PROVE  RoomInv'
<1> USE DEF Goto, media
<1>1. ASSUME NEW p \in Procs, BeginSleep(p), ~panicked PROVE RoomInv'
  <2>1. Operating' = Operating
    BY <1>1, Zenon DEF BeginSleep, ControlInv, TypeOK, Operating, WakeAndGoto,
       AfterWriteLog
  <2> QED BY <1>1, <2>1, RoomFrame, Zenon DEF BeginSleep, InstallTrans
<1>2. ASSUME NEW p \in Procs, BeginOp(p), ~panicked PROVE RoomInv'
  <2>1. Len(lh) + (outstanding + 1) * MAXOPBLOCKS <= LOGSIZE
    BY <1>2, Numbers, SMTT(30) DEF BeginOp, MustWait, ControlInv, TypeOK
  <2>2. outstanding' = outstanding + 1 /\ lh' = lh /\ head' = head /\ panicked' = panicked
    BY <1>2, Zenon DEF BeginOp
  <2>3. Cardinality(Reserve') \in Nat /\ Cardinality(Reserve') <= outstanding' * MAXOPBLOCKS
    BY ReserveBoundNext, Zenon
  <2>4. outstanding' * MAXOPBLOCKS \in Nat /\ Len(lh) \in Nat
    BY <2>2, Numbers DEF ControlInv, TypeOK
  <2>5. Len(lh) + outstanding' * MAXOPBLOCKS <= LOGSIZE
    BY <2>1, <2>2, Zenon
  <2> DEFINE m == outstanding' * MAXOPBLOCKS
  <2> HIDE DEF m
  <2>6. m \in Nat /\ Len(lh) + m <= LOGSIZE /\ Cardinality(Reserve') <= m
    BY <2>3, <2>4, <2>5, Zenon DEF m
  <2>7. Len(lh) + Cardinality(Reserve') <= LOGSIZE
    BY <2>3, <2>4, <2>6, Numbers
  <2> QED BY <2>2, <2>7, Zenon DEF RoomInv, Distinct
<1>3. ASSUME NEW p \in Procs, LogAppend(p), ~panicked PROVE RoomInv'
  <2>1. Len(lh') + Cardinality(Reserve') <= LOGSIZE /\ Distinct(lh')
    BY <1>3, ReserveUsed, Zenon
  <2>2. head' = head /\ panicked' = panicked
    BY <1>3, Zenon DEF LogAppend
  <2> QED BY <2>1, <2>2, Zenon DEF RoomInv, Distinct
<1>4. ASSUME NEW p \in Procs, EndOp(p), ~panicked PROVE RoomInv'
  <2>1. Operating' \subseteq Operating \ {p}
    BY <1>4 DEF EndOp, ControlInv, TypeOK, Operating, WakeAndGoto
  <2>2. lh' = lh /\ head' = head /\ \A q \in Procs \ {p} : wrote'[q] = wrote[q]
    BY <1>4, SMTT(30) DEF EndOp, ControlInv, TypeOK
  <2>3. Reserve' \subseteq Reserve
    BY <2>1, <2>2, ZenonT(30) DEF Reserve, Entries, Operating
  <2>4. ~panicked'
    BY <1>4, Zenon DEF EndOp, ControlInv, Operating
  <2> QED BY <2>2, <2>3, <2>4, ReserveShrinks, Zenon DEF RoomInv, Distinct
<1>5. ASSUME NEW p \in Procs, WriteLog(p), ~panicked PROVE RoomInv'
  <2>1. Operating' = Operating
    BY <1>5 DEF WriteLog, ControlInv, TypeOK, Operating, WakeAndGoto, AfterWriteLog
  <2> QED BY <1>5, <2>1, RoomFrame, Zenon DEF WriteLog, InstallTrans
<1>6. ASSUME NEW p \in Procs, WriteHead(p), ~panicked PROVE RoomInv'
  <2>1. Operating' = Operating
    BY <1>6, Zenon DEF WriteHead, ControlInv, TypeOK, Operating
  <2>2. Reserve' = Reserve
    BY <1>6, <2>1, Zenon DEF WriteHead, Reserve, Entries
  <2> QED BY <1>6, <2>2, Zenon DEF WriteHead, RoomInv, Distinct
<1>7. ASSUME NEW p \in Procs, Install(p), ~panicked PROVE RoomInv'
  <2>1. Operating' = Operating
    BY <1>7 DEF Install, ControlInv, TypeOK, Operating, WakeAndGoto, AfterWriteLog
  <2> QED BY <1>7, <2>1, RoomFrame, Zenon DEF Install, InstallTrans
<1>8. ASSUME NEW p \in Procs, Erase(p), ~panicked PROVE RoomInv'
  <2>1. Operating' = {}
    BY <1>8, Zenon DEF Erase, ControlInv, TypeOK, Operating, Committers
  <2>2. Cardinality(Reserve') = 0
    BY <2>1, ReserveNone, Zenon
  <2>3. /\ lh' \in {<<>>, head} /\ head' \in {<<>>, head} /\ ~panicked'
    BY <1>8, Zenon DEF Erase, RoomInv
  <2> QED BY <2>2, <2>3, RoomCleared, Zenon
<1>9. ASSUME NEW p \in Procs, Finish(p), ~panicked PROVE RoomInv'
  <2>1. Operating' = Operating
    BY <1>9, Zenon DEF Finish, ControlInv, TypeOK, Operating, WakeAndGoto, AfterWriteLog
  <2> QED BY <1>9, <2>1, RoomFrame, Zenon DEF Finish, InstallTrans
<1>10. ASSUME NEW p \in Procs, NEW b \in Blocks, NEW v \in Vals, LogWrite(p, b, v), ~panicked
      PROVE  RoomInv'
  <2>0. pc' = [pc EXCEPT ![p] = "append"] /\ pc[p] = "op"
    BY <1>10, Zenon DEF LogWrite
  <2>1. Operating' = Operating /\ p \in Operating
    BY <2>0, ZenonT(30) DEF ControlInv, TypeOK, Operating
  <2>2. lh' = lh /\ head' = head /\ \A q \in Procs : wrote[q] \subseteq wrote'[q]
    BY <1>10 DEF LogWrite, ControlInv, TypeOK
  <2>3. ASSUME NEW q \in Procs
        PROVE  /\ Cardinality(Entries(q)) \in Nat /\ Cardinality(Entries(q)') \in Nat
               /\ Cardinality(Entries(q)) <= Cardinality(Entries(q)')
    <3>1. Entries(q) \subseteq Entries(q)'
      BY <2>2, ZenonT(30) DEF Entries
    <3>2. IsFiniteSet(wrote'[q]) /\ Entries(q)' \subseteq wrote'[q]
      BY Zenon DEF ControlInv, Entries
    <3>3. IsFiniteSet(Entries(q)')
      BY <3>2, FS_Subset, Zenon
    <3> QED BY <3>1, <3>3, FS_Subset, FS_CardinalityType, Zenon
  <2>4. Reserve' \subseteq Reserve
    <3> SUFFICES ASSUME NEW x \in Reserve' PROVE x \in Reserve
      BY Zenon
    <3>1. /\ x \in Operating \X (1 .. MAXOPBLOCKS)
          /\ x[2] <= MAXOPBLOCKS - Cardinality(Entries(x[1])')
      BY <2>1, Zenon DEF Reserve
    <3>2. x[1] \in Procs /\ x[2] \in 1 .. MAXOPBLOCKS
      BY <3>1, Zenon DEF Operating
    <3>3. x[2] <= MAXOPBLOCKS - Cardinality(Entries(x[1]))
      BY <2>3, <3>1, <3>2, Numbers
    <3> QED BY <3>1, <3>3, Zenon DEF Reserve
  <2>5. ~panicked'
    <3>1. Cardinality(Reserve) \in Nat /\ Cardinality(Reserve) >= 2 /\ Len(lh) \in Nat
      <4>1. Cardinality(Reserve) >= 2
        BY <2>1, ReserveTwo, Zenon
      <4>2. Cardinality(Reserve) \in Nat
        BY ReserveBound, ZenonT(30)
      <4>3. Len(lh) \in Nat
        BY DEF ControlInv, TypeOK
      <4> QED BY <4>1, <4>2, <4>3, Zenon
    <3>2. Len(lh) + 2 <= LOGSIZE
      BY <3>1, Numbers DEF RoomInv
    <3>3. outstanding \in Nat /\ outstanding # 0
      <4>1. Operating # {} /\ IsFiniteSet(Operating) /\ outstanding = Cardinality(Operating)
        BY <2>1, Zenon DEF ControlInv
      <4> QED BY <4>1, FS_EmptySet, FS_CardinalityType, Zenon
    <3>4. ~(Len(lh) >= LOGSIZE \/ Len(lh) >= SIZE - 1 \/ outstanding < 1)
      BY <3>1, <3>2, <3>3, Numbers DEF SIZE
    <3> QED BY <1>10, <3>4, Zenon DEF LogWrite
  <2> QED BY <2>2, <2>4, <2>5, ReserveShrinks, Zenon DEF RoomInv, Distinct
<1>11. ASSUME NEW b \in Blocks, Evict(b), ~panicked PROVE RoomInv'
  <2>1. Operating' = Operating
    BY <1>11, Zenon DEF Evict, ControlInv, TypeOK, Operating, WakeAndGoto, AfterWriteLog
  <2> QED BY <1>11, <2>1, RoomFrame, ZenonT(30) DEF Evict, InstallTrans
<1>12. CASE Crash
  <2>1. Operating' = {}
    BY <1>12, Zenon DEF Crash, ControlInv, TypeOK, Operating, Committers
  <2>2. Cardinality(Reserve') = 0
    BY <2>1, ReserveNone, Zenon
  <2>3. /\ lh' \in {<<>>, head} /\ head' \in {<<>>, head} /\ ~panicked'
    BY <1>12, Zenon DEF Crash, RoomInv
  <2> QED BY <2>2, <2>3, RoomCleared, Zenon
<1>13. CASE ReadHead
  <2>1. Operating' = {}
    BY <1>13, Zenon DEF ReadHead, ControlInv, TypeOK, Operating, Committers
  <2>2. Cardinality(Reserve') = 0
    BY <2>1, ReserveNone, Zenon
  <2>3. /\ lh' \in {<<>>, head} /\ head' \in {<<>>, head} /\ ~panicked'
    BY <1>13, Zenon DEF ReadHead, RoomInv
  <2> QED BY <2>2, <2>3, RoomCleared, Zenon
<1>14. CASE RecoverInstall
  <2>1. Operating' = Operating
    BY <1>14, ZenonT(30) DEF RecoverInstall, ControlInv, TypeOK, Operating, WakeAndGoto,
       AfterWriteLog
  <2> QED BY <1>14, <2>1, RoomFrame, Zenon DEF RecoverInstall, InstallTrans
<1>15. CASE RecoverErase
  <2>1. Operating' = {}
    BY <1>15, Zenon DEF RecoverErase, ControlInv, TypeOK, Operating, Committers
  <2>2. Cardinality(Reserve') = 0
    BY <2>1, ReserveNone, Zenon
  <2>3. /\ lh' \in {<<>>, head} /\ head' \in {<<>>, head} /\ ~panicked'
    BY <1>15, Zenon DEF RecoverErase, RoomInv
  <2> QED BY <2>2, <2>3, RoomCleared, Zenon
<1>16. CASE UNCHANGED vars
  <2>1. Operating' = Operating
    BY <1>16, Zenon DEF vars, ControlInv, TypeOK, Operating, WakeAndGoto, AfterWriteLog
  <2> QED BY <1>16, <2>1, RoomFrame, ZenonT(30) DEF vars, InstallTrans
<1> QED
  BY <1>1, <1>2, <1>3, <1>4, <1>5, <1>6, <1>7, <1>8, <1>9, <1>10, <1>11, <1>12, <1>13,
     <1>14, <1>15, <1>16, Zenon DEF Next, Kernel, Recover

----------------------------------------------------------------------------
(* The theorem.                                                             *)

\* Both invariants hold at boot.
LEMMA RoomInit == Init => ControlInv /\ RoomInv
<1> SUFFICES ASSUME Init PROVE ControlInv /\ RoomInv
  BY Zenon
<1>1. Operating = {} /\ Committers = {}
  BY Zenon DEF Init, Operating, Committers
<1>2. IsFiniteSet({}) /\ Cardinality({}) = 0
  BY FS_EmptySet, Zenon
<1>3. 1 \in 1 .. LOGSIZE + 1 /\ <<>> \in Seq(Blocks) /\ Len(<<>>) = 0 /\ 0 <= LOGSIZE
  BY Numbers
<1>4. TypeOK
  BY <1>3, ZenonT(30) DEF Init, TypeOK
<1>5. ControlInv
  BY <1>1, <1>2, <1>4, Numbers DEF Init, ControlInv
<1>6. Reserve = {}
  BY <1>1, Zenon DEF Reserve
<1>7. RoomInv
  BY <1>2, <1>3, <1>6 DEF Init, RoomInv, Distinct
<1> QED BY <1>5, <1>7, Zenon

\* ... and throughout.
LEMMA RoomInvariant == Spec => [](ControlInv /\ RoomInv)
<1>1. ControlInv /\ RoomInv /\ [Next]_vars => (ControlInv /\ RoomInv)'
  BY ControlStep, RoomStep, Zenon
<1> QED BY <1>1, RoomInit, PTL DEF Spec

\* begin_op() reserves enough: log_write() never finds the log full nor an
\* operation missing, and end_op() no commit under way, for every number of
\* processes and every size of the log.
THEOREM NoLogPanic == Spec => []NoPanic
<1>1. ControlInv /\ RoomInv => NoPanic
  BY Zenon DEF ControlInv, RoomInv, NoPanic
<1> QED BY <1>1, RoomInvariant, PTL


----------------------------------------------------------------------------
(* What is where.                                                           *)

\* The first n log blocks on disk are copies of the buffers of lh.
Logged(n) == \A i \in 1 .. n : logb[i] = cache[lh[i]]

\* The first n home blocks of lh are up to date.
Installed(n) == \A i \in 1 .. n : disk[lh[i]] = logb[i]

\* What is pinned is in the header.
Pins == \A b \in dirty : Listed(lh, b)

\* Between commits the header on disk is empty, and no loop is under way.
Quiet ==
  boot = "up" =>
    /\ (\A p \in Procs : pc[p] \notin {"install", "erase"}) => head = <<>>
    /\ (\A p \in Procs : pc[p] \notin {"write_log", "install"}) => tail = 1

\* What commit() has done so far.
Phase(p) ==
  /\ pc[p] = "write_log" => tail <= Len(lh) + 1 /\ Logged(tail - 1)
  /\ pc[p] = "write_head" => Logged(Len(lh))
  /\ pc[p] = "install" =>
       /\ head = lh /\ Logged(Len(lh))
       /\ tail <= Len(lh) + 1 /\ Installed(tail - 1)
       /\ \A i \in 1 .. tail - 1 : lh[i] \notin dirty
  /\ pc[p] = "erase" => head = lh /\ Installed(Len(lh)) /\ dirty = {}
  /\ pc[p] = "finish" => lh = <<>>

\* What recover_from_log() has done so far.
Booting ==
  /\ boot # "up" => cache = disk /\ dirty = {}
  /\ boot = "read_head" => lh = <<>> /\ tail = 1
  /\ boot = "install" => lh = head /\ tail <= Len(lh) + 1 /\ Installed(tail - 1)
  /\ boot = "erase" => lh = head /\ tail = 1 /\ Installed(Len(lh))

DataInv ==
  /\ Pins /\ CleanIsOnDisk /\ Quiet /\ Booting
  /\ \A p \in Procs : Phase(p)

----------------------------------------------------------------------------
(* Data.                                                                    *)

\* While a process commits, nobody else does, and no operation is under way.
LEMMA Alone ==
  ASSUME ControlInv, NEW c \in Committers
  PROVE  /\ c \in Procs /\ boot = "up"
         /\ \A q \in Procs : q # c => pc[q] \in {"idle", "begin", "asleep"}
         /\ \A q \in Procs : blk[q] = NoBlock
<1>1. c \in Procs /\ boot = "up" /\ Operating = {}
  BY Zenon DEF ControlInv, Committers
<1>2. \A q \in Procs : q # c => q \notin Committers
  BY Zenon DEF ControlInv
<1>3. \A q \in Procs : pc[q] # "append"
  BY <1>1, Zenon DEF Operating
<1> QED BY <1>1, <1>2, <1>3 DEF ControlInv, TypeOK, Operating, Committers

\* While an operation is under way, nobody commits.
LEMMA Busy ==
  ASSUME ControlInv, NEW c \in Operating
  PROVE  /\ c \in Procs /\ boot = "up"
         /\ \A q \in Procs : pc[q] \in {"idle", "begin", "asleep", "op", "append"}
<1>1. c \in Procs /\ boot = "up" /\ Committers = {}
  BY Zenon DEF ControlInv, Operating
<1> QED BY <1>1, Zenon DEF ControlInv, TypeOK, Committers

\* Steps that change nothing but where processes outside commit() are.
LEMMA DataFrame ==
  ASSUME DataInv,
         UNCHANGED <<disk, logb, head, cache, dirty, lh, tail, blk, boot>>,
         \A q \in Procs :
           pc'[q] \in {"write_log", "write_head", "install", "erase", "finish"} => pc'[q] = pc[q],
         \A q \in Procs : pc[q] \in {"write_log", "install", "erase"} => pc'[q] = pc[q]
  PROVE  DataInv'
<1>1. Pins' /\ CleanIsOnDisk'
  BY Zenon DEF DataInv, Pins, CleanIsOnDisk
<1>2. Quiet'
  BY Zenon DEF DataInv, Quiet
<1>3. Booting'
  BY Zenon DEF DataInv, Booting, Installed
<1>4. ASSUME NEW q \in Procs PROVE Phase(q)'
  <2>1. Phase(q)
    BY Zenon DEF DataInv
  <2> QED BY <2>1, Zenon DEF Phase, Logged, Installed
<1> QED BY <1>1, <1>2, <1>3, <1>4, Zenon DEF DataInv

\* Every step keeps DataInv.
LEMMA DataStep ==
  ASSUME ControlInv, RoomInv, DataInv, ControlInv', [Next]_vars
  PROVE  DataInv'
<1> USE DEF Goto, media
<1>1. ASSUME NEW p \in Procs, BeginSleep(p), ~panicked PROVE DataInv'
  BY <1>1, DataFrame DEF BeginSleep, ControlInv, TypeOK
<1>2. ASSUME NEW p \in Procs, BeginOp(p), ~panicked PROVE DataInv'
  BY <1>2, DataFrame DEF BeginOp, ControlInv, TypeOK
<1>3. ASSUME NEW p \in Procs, LogAppend(p), ~panicked PROVE DataInv'
  <2>1. p \in Operating
    BY <1>3, Zenon DEF LogAppend, Operating
  <2>2. /\ \A q \in Procs : pc[q] \in {"idle", "begin", "asleep", "op", "append"}
        /\ boot = "up"
    BY <2>1, Busy, Zenon
  <2>3. \A q \in Procs : pc'[q] \in {"idle", "begin", "asleep", "op", "append"}
    BY <1>3, <2>2 DEF LogAppend, ControlInv, TypeOK
  <2>4. UNCHANGED <<disk, logb, head, cache, tail, boot>>
    BY <1>3, Zenon DEF LogAppend
  <2>5. Quiet' /\ Booting' /\ \A q \in Procs : Phase(q)'
    BY <2>2, <2>3, <2>4, Zenon DEF DataInv, Quiet, Booting, Phase
  <2>6. CleanIsOnDisk'
    <3> SUFFICES ASSUME NEW c \in Blocks, cache[c] # disk[c], c \notin dirty'
                 PROVE  \E q \in Procs : blk'[q] = c
      BY <2>4, Zenon DEF CleanIsOnDisk
    <3>1. c \notin dirty /\ c # blk[p]
      BY <1>3, Zenon DEF LogAppend, Pinned
    <3>2. PICK q \in Procs : blk[q] = c
      BY <3>1, Zenon DEF DataInv, CleanIsOnDisk
    <3> QED BY <1>3, <3>1, <3>2 DEF LogAppend, ControlInv, TypeOK
  <2>7. Pins'
    <3>1. blk[p] \in Blocks /\ lh \in Seq(Blocks)
      BY <1>3, Zenon DEF LogAppend, ControlInv, TypeOK
    <3>2. lh' = Entered(blk[p]) /\ dirty' = dirty \cup {blk[p]}
      BY <1>3, Zenon DEF LogAppend, Pinned
    <3>3. CASE Listed(lh, blk[p])
      BY <3>2, <3>3, Zenon DEF Entered, DataInv, Pins
    <3>4. CASE ~Listed(lh, blk[p])
      <4>1. lh' = Append(lh, blk[p])
        BY <3>2, <3>4, Zenon DEF Entered
      <4>2. /\ Len(lh') = Len(lh) + 1 /\ Len(lh) \in Nat
            /\ lh'[Len(lh) + 1] = blk[p]
            /\ \A i \in 1 .. Len(lh) : lh'[i] = lh[i]
        BY <3>1, <4>1
      <4> QED BY <3>2, <4>2 DEF DataInv, Pins, Listed
    <3> QED BY <3>3, <3>4, Zenon
  <2> QED BY <2>5, <2>6, <2>7, Zenon DEF DataInv
<1>4. ASSUME NEW p \in Procs, EndOp(p), ~panicked PROVE DataInv'
  <2>1. p \in Operating
    BY <1>4, Zenon DEF EndOp, Operating
  <2>2. /\ \A q \in Procs : pc[q] \in {"idle", "begin", "asleep", "op", "append"}
        /\ boot = "up"
    BY <2>1, Busy, Zenon
  <2>3. UNCHANGED <<disk, logb, head, cache, dirty, lh, tail, blk, boot>>
    BY <1>4, Zenon DEF EndOp
  <2>4. CASE Ended = 0
    <3>1. pc' = [pc EXCEPT ![p] = "write_log"]
      BY <1>4, <2>4, Zenon DEF EndOp
    <3>2. tail = 1 /\ head = <<>>
      BY <2>2, Zenon DEF DataInv, Quiet
    <3>3. Pins' /\ CleanIsOnDisk' /\ Booting'
      BY <2>2, <2>3, Zenon DEF DataInv, Pins, CleanIsOnDisk, Booting
    <3>4. Quiet'
      BY <2>3, <3>2, Zenon DEF Quiet
    <3>5. ASSUME NEW q \in Procs PROVE Phase(q)'
      <4>1. pc'[q] \in {"write_log", "idle", "begin", "asleep", "op", "append"}
        BY <2>2, <3>1, ZenonT(30) DEF ControlInv, TypeOK
      <4>2. tail' = 1 /\ Len(lh') \in Nat
        BY <2>3, <3>2 DEF ControlInv, TypeOK
      <4> QED BY <4>1, <4>2 DEF Phase, Logged
    <3> QED BY <3>3, <3>4, <3>5, Zenon DEF DataInv
  <2>5. CASE Ended # 0
    <3>1. \A q \in Procs : pc'[q] \in {"idle", "begin", "asleep", "op", "append"}
      BY <1>4, <2>2, <2>5, Zenon DEF EndOp, WakeAndGoto
    <3> QED BY <2>2, <2>3, <3>1, DataFrame, Zenon
  <2> QED BY <2>4, <2>5, Zenon
<1>5. ASSUME NEW p \in Procs, WriteLog(p), ~panicked PROVE DataInv'
  <2>1. p \in Committers
    BY <1>5, Zenon DEF WriteLog, Committers
  <2>2. /\ \A q \in Procs : q # p => pc[q] \in {"idle", "begin", "asleep"}
        /\ \A q \in Procs : q # p => pc'[q] = pc[q]
        /\ boot = "up" /\ boot' = boot /\ blk' = blk
    BY <1>5, <2>1, Alone DEF WriteLog, ControlInv, TypeOK
  <2>3. \A q \in Procs : q # p => Phase(q)'
    BY <2>2, Zenon DEF Phase
  <2>4. Phase(p) /\ Pins /\ CleanIsOnDisk /\ Quiet
    BY Zenon DEF DataInv
  <2>5. lh \in Seq(Blocks) /\ Len(lh) \in Nat /\ tail \in Nat /\ tail >= 1
    BY Numbers DEF ControlInv, TypeOK
  <2>6. Booting'
    BY <2>2, Zenon DEF Booting
  <2>7. UNCHANGED <<disk, head, cache, dirty, lh, blk>> /\ pc[p] = "write_log"
    BY <1>5, Zenon DEF WriteLog
  <2>8. Pins' /\ CleanIsOnDisk'
    BY <2>4, <2>7, Zenon DEF Pins, CleanIsOnDisk
  <2>9. tail <= Len(lh) + 1 /\ Logged(tail - 1) /\ head = <<>>
    BY <2>2, <2>4, <2>7, Zenon DEF Phase, Quiet
  <2>10. CASE MoreEntries
    <3>1. /\ logb' = [logb EXCEPT ![tail] = cache[lh[tail]]]
          /\ tail' = tail + 1 /\ pc' = pc
      BY <1>5, <2>10, Zenon DEF WriteLog
    <3>2. tail \in 1 .. Len(lh) /\ tail \in 1 .. LOGSIZE
      BY <2>10, LoopTurn, Zenon DEF ControlInv
    <3>3. Quiet'
      BY <2>7, <2>9, <3>1, Zenon DEF Quiet
    <3>4. ASSUME NEW i \in 1 .. tail PROVE logb'[i] = cache'[lh'[i]]
      <4>1. i \in 1 .. LOGSIZE /\ (i # tail => i \in 1 .. tail - 1)
        BY <2>5, <3>2, Numbers
      <4>2. CASE i = tail
        BY <2>7, <3>1, <4>1, <4>2, ZenonT(30) DEF ControlInv, TypeOK
      <4>3. CASE i # tail
        BY <2>7, <2>9, <3>1, <4>1, <4>3, Zenon DEF Logged, ControlInv, TypeOK
      <4> QED BY <4>2, <4>3, Zenon
    <3>5. tail' - 1 = tail /\ tail' <= Len(lh') + 1 /\ pc'[p] = "write_log"
      BY <2>5, <2>7, <3>1, <3>2
    <3>6. Phase(p)'
      BY <3>4, <3>5, ZenonT(30) DEF Phase, Logged
    <3> QED BY <2>3, <2>6, <2>8, <3>3, <3>6, Zenon DEF DataInv
  <2>11. CASE ~MoreEntries
    <3>1. logb' = logb /\ tail' = 1 /\ pc'[p] = AfterWriteLog
      BY <1>5, <2>11 DEF WriteLog, ControlInv, TypeOK
    <3>2. tail - 1 = Len(lh)
      BY <2>5, <2>9, <2>11 DEF MoreEntries
    <3>3. Quiet'
      BY <2>7, <2>9, <3>1, Zenon DEF Quiet
    <3>4. Logged(Len(lh))'
      BY <2>7, <2>9, <3>1, <3>2, Zenon DEF Logged
    <3>5. Phase(p)'
      BY <2>7, <3>1, <3>4, Zenon DEF Phase, AfterWriteLog
    <3> QED BY <2>3, <2>6, <2>8, <3>3, <3>5, Zenon DEF DataInv
  <2> QED BY <2>10, <2>11, Zenon
<1>6. ASSUME NEW p \in Procs, WriteHead(p), ~panicked PROVE DataInv'
  <2>1. p \in Committers
    BY <1>6, Zenon DEF WriteHead, Committers
  <2>2. /\ \A q \in Procs : q # p => pc[q] \in {"idle", "begin", "asleep"}
        /\ \A q \in Procs : q # p => pc'[q] = pc[q]
        /\ boot = "up" /\ boot' = boot /\ blk' = blk
    BY <1>6, <2>1, Alone, ZenonT(30) DEF WriteHead, ControlInv, TypeOK
  <2>3. \A q \in Procs : q # p => Phase(q)'
    BY <2>2, Zenon DEF Phase
  <2>4. Phase(p) /\ Pins /\ CleanIsOnDisk /\ Quiet
    BY Zenon DEF DataInv
  <2>5. lh \in Seq(Blocks) /\ Len(lh) \in Nat /\ tail \in Nat /\ tail >= 1
    BY Numbers DEF ControlInv, TypeOK
  <2>6. Booting'
    BY <2>2, Zenon DEF Booting
  <2>7. /\ UNCHANGED <<disk, logb, cache, dirty, lh, tail, blk>> /\ head' = lh
        /\ pc[p] = "write_head" /\ pc'[p] = "install"
    BY <1>6, Zenon DEF WriteHead, ControlInv, TypeOK
  <2>8. tail = 1 /\ Logged(Len(lh))
    BY <2>2, <2>4, <2>7, Zenon DEF Phase, Quiet
  <2>9. Pins' /\ CleanIsOnDisk' /\ Quiet'
    BY <2>4, <2>7, Zenon DEF Pins, CleanIsOnDisk, Quiet
  <2>10. Phase(p)'
    <3>1. Logged(Len(lh))'
      BY <2>7, <2>8, Zenon DEF Logged
    <3>2. tail' = 1 /\ tail' <= Len(lh') + 1
      BY <2>5, <2>7, <2>8
    <3>3. Installed(tail - 1)' /\ \A i \in 1 .. tail' - 1 : lh'[i] \notin dirty'
      BY <3>2 DEF Installed
    <3> QED BY <2>7, <3>1, <3>2, <3>3, Zenon DEF Phase
  <2> QED BY <2>3, <2>6, <2>9, <2>10, Zenon DEF DataInv
<1>7. ASSUME NEW p \in Procs, Install(p), ~panicked PROVE DataInv'
  <2>1. p \in Committers
    BY <1>7, ZenonT(30) DEF Install, Committers
  <2>2. /\ \A q \in Procs : q # p => pc[q] \in {"idle", "begin", "asleep"}
        /\ \A q \in Procs : q # p => pc'[q] = pc[q]
        /\ boot = "up" /\ boot' = boot /\ blk' = blk
    BY <1>7, <2>1, Alone DEF Install, ControlInv, TypeOK
  <2>3. \A q \in Procs : q # p => Phase(q)'
    BY <2>2, Zenon DEF Phase
  <2>4. Phase(p) /\ Pins /\ CleanIsOnDisk /\ Quiet
    BY Zenon DEF DataInv
  <2>5. lh \in Seq(Blocks) /\ Len(lh) \in Nat /\ tail \in Nat /\ tail >= 1
    BY Numbers DEF ControlInv, TypeOK
  <2>6. Booting'
    BY <2>2, Zenon DEF Booting
  <2>7. UNCHANGED <<logb, head, lh, blk>> /\ pc[p] = "install"
    BY <1>7, Zenon DEF Install
  <2>8. /\ head = lh /\ Logged(Len(lh)) /\ tail <= Len(lh) + 1 /\ Installed(tail - 1)
        /\ \A i \in 1 .. tail - 1 : lh[i] \notin dirty
    BY <2>4, <2>7, Zenon DEF Phase
  <2>9. CASE MoreEntries
    <3> DEFINE e == lh[tail]
    <3>1. /\ disk' = [disk EXCEPT ![e] = logb[tail]]
          /\ cache' = [cache EXCEPT ![e] = logb[tail]]
          /\ dirty' = dirty \ {e}
          /\ tail' = tail + 1 /\ pc' = pc
      BY <1>7, <2>9, Zenon DEF Install, InstallTrans
    <3>2. tail \in 1 .. Len(lh) /\ e \in Blocks
      BY <2>9, LoopTurn, Zenon DEF ControlInv
    <3>3. cache' = cache
      <4>1. cache[e] = logb[tail]
        BY <2>8, <3>2, Zenon DEF Logged
      <4> QED BY <3>1, <3>2, <4>1 DEF ControlInv, TypeOK
    <3>4. Pins' /\ Quiet'
      BY <2>4, <2>7, <3>1, Zenon DEF Pins, Quiet
    <3>5. disk'[e] = logb[tail] /\ \A c \in Blocks : c # e => disk'[c] = disk[c]
      BY <3>1, <3>2 DEF ControlInv, TypeOK
    <3>6. CleanIsOnDisk'
      <4> SUFFICES ASSUME NEW c \in Blocks, cache[c] # disk'[c]
                   PROVE  c \in dirty' \/ \E q \in Procs : blk'[q] = c
        BY <3>3, ZenonT(30) DEF CleanIsOnDisk
      <4>1. c # e
        BY <2>8, <3>2, <3>5, Zenon DEF Logged
      <4> QED BY <2>4, <2>7, <3>1, <3>5, <4>1, Zenon DEF CleanIsOnDisk
    <3>7. ASSUME NEW i \in 1 .. tail PROVE disk'[lh[i]] = logb[i] /\ lh[i] \notin dirty'
      <4>1. i \in 1 .. Len(lh) /\ lh[i] \in Blocks /\ (i # tail => i \in 1 .. tail - 1)
        BY <2>5, <3>2
      <4>2. CASE i = tail
        BY <3>1, <3>5, <4>2, Zenon
      <4>3. CASE i # tail
        <5>1. lh[i] # e
          BY <3>2, <4>1, <4>3, Zenon DEF RoomInv, Distinct
        <5> QED BY <2>8, <3>1, <3>5, <4>1, <4>3, <5>1, Zenon DEF Installed
      <4> QED BY <4>2, <4>3, Zenon
    <3>8. tail' - 1 = tail /\ tail' <= Len(lh') + 1 /\ pc'[p] = "install"
      BY <2>5, <2>7, <3>1, <3>2
    <3>9. Phase(p)'
      <4>1. Logged(Len(lh))'
        BY <2>7, <2>8, <3>3, Zenon DEF Logged
      <4> HIDE DEF e
      <4>2. Installed(tail - 1)' /\ \A i \in 1 .. tail' - 1 : lh'[i] \notin dirty'
        BY <2>7, <3>7, <3>8, ZenonT(30) DEF Installed
      <4> QED BY <2>7, <2>8, <3>8, <4>1, <4>2, Zenon DEF Phase
    <3> QED BY <2>3, <2>6, <3>4, <3>6, <3>9, Zenon DEF DataInv
  <2>10. CASE ~MoreEntries
    <3>1. UNCHANGED <<disk, cache, dirty>> /\ tail' = 1 /\ pc'[p] = "erase"
      BY <1>7, <2>10 DEF Install, ControlInv, TypeOK
    <3>2. tail - 1 = Len(lh)
      BY <2>5, <2>8, <2>10 DEF MoreEntries
    <3>3. dirty = {}
      BY <2>4, <2>8, <3>2, Zenon DEF Pins, Listed
    <3>4. Pins' /\ CleanIsOnDisk' /\ Quiet'
      BY <2>4, <2>7, <3>1, Zenon DEF Pins, CleanIsOnDisk, Quiet
    <3>5. Installed(Len(lh))'
      BY <2>7, <2>8, <3>1, <3>2, Zenon DEF Installed
    <3>6. Phase(p)'
      BY <2>7, <2>8, <3>1, <3>3, <3>5, Zenon DEF Phase
    <3> QED BY <2>3, <2>6, <3>4, <3>6, Zenon DEF DataInv
  <2> QED BY <2>9, <2>10, Zenon
<1>8. ASSUME NEW p \in Procs, Erase(p), ~panicked PROVE DataInv'
  <2>1. p \in Committers
    BY <1>8, Zenon DEF Erase, Committers
  <2>2. /\ \A q \in Procs : q # p => pc[q] \in {"idle", "begin", "asleep"}
        /\ \A q \in Procs : q # p => pc'[q] = pc[q]
        /\ boot = "up" /\ boot' = boot /\ blk' = blk
    BY <1>8, <2>1, Alone, ZenonT(30) DEF Erase, ControlInv, TypeOK
  <2>3. \A q \in Procs : q # p => Phase(q)'
    BY <2>2, Zenon DEF Phase
  <2>4. Phase(p) /\ Pins /\ CleanIsOnDisk /\ Quiet
    BY Zenon DEF DataInv
  <2>5. lh \in Seq(Blocks) /\ Len(lh) \in Nat /\ tail \in Nat /\ tail >= 1
    BY Numbers DEF ControlInv, TypeOK
  <2>6. Booting'
    BY <2>2, Zenon DEF Booting
  <2>7. /\ UNCHANGED <<disk, logb, cache, dirty, tail, blk>> /\ head' = <<>> /\ lh' = <<>>
        /\ pc[p] = "erase" /\ pc'[p] = "finish"
    BY <1>8, Zenon DEF Erase, ControlInv, TypeOK
  <2>8. tail = 1 /\ dirty = {}
    BY <2>2, <2>4, <2>7, Zenon DEF Phase, Quiet
  <2>9. Pins' /\ CleanIsOnDisk' /\ Quiet'
    BY <2>4, <2>7, <2>8, Zenon DEF Pins, CleanIsOnDisk, Quiet
  <2>10. Phase(p)'
    BY <2>7, Zenon DEF Phase
  <2> QED BY <2>3, <2>6, <2>9, <2>10, Zenon DEF DataInv
<1>9. ASSUME NEW p \in Procs, Finish(p), ~panicked PROVE DataInv'
  <2>1. p \in Committers
    BY <1>9, Zenon DEF Finish, Committers
  <2>2. /\ \A q \in Procs : q # p => pc[q] \in {"idle", "begin", "asleep"}
        /\ boot = "up"
    BY <2>1, Alone, ZenonT(30)
  <2>3. /\ UNCHANGED <<disk, logb, head, cache, dirty, lh, tail, blk, boot>>
        /\ pc[p] = "finish"
        /\ \A q \in Procs : pc'[q] \in {"idle", "begin"}
    BY <1>9, <2>2, Zenon DEF Finish, WakeAndGoto, ControlInv, TypeOK
  <2> QED BY <2>2, <2>3, DataFrame, Zenon
<1>10. ASSUME NEW p \in Procs, NEW b \in Blocks, NEW v \in Vals, LogWrite(p, b, v), ~panicked
      PROVE  DataInv'
  <2>1. p \in Operating
    BY <1>10, Zenon DEF LogWrite, Operating
  <2>2. /\ \A q \in Procs : pc[q] \in {"idle", "begin", "asleep", "op", "append"}
        /\ boot = "up"
    BY <2>1, Busy, ZenonT(30)
  <2>3. \A q \in Procs : pc'[q] \in {"idle", "begin", "asleep", "op", "append"}
    BY <1>10, <2>2 DEF LogWrite, ControlInv, TypeOK
  <2>4. UNCHANGED <<disk, logb, head, dirty, lh, tail, boot>>
    BY <1>10, ZenonT(30) DEF LogWrite
  <2>5. Pins' /\ Quiet' /\ Booting' /\ \A q \in Procs : Phase(q)'
    BY <2>2, <2>3, <2>4, Zenon DEF DataInv, Pins, Quiet, Booting, Phase
  <2>6. CleanIsOnDisk'
    <3> SUFFICES ASSUME NEW c \in Blocks, cache'[c] # disk[c], c \notin dirty
                 PROVE  \E q \in Procs : blk'[q] = c
      BY <2>4, Zenon DEF CleanIsOnDisk
    <3>1. CASE c = b
      <4>1. blk \in [Procs -> Blocks \cup {NoBlock}] /\ blk' = [blk EXCEPT ![p] = b]
        BY <1>10, Zenon DEF LogWrite, ControlInv, TypeOK
      <4> QED BY <3>1, <4>1, Zenon
    <3>2. CASE c # b
      <4>1. cache'[c] = cache[c]
        BY <1>10, <3>2 DEF LogWrite, ControlInv, TypeOK
      <4>2. PICK q \in Procs : blk[q] = c
        BY <4>1, Zenon DEF DataInv, CleanIsOnDisk
      <4>3. q # p
        BY <1>10, <4>2, Numbers, ZenonT(30) DEF LogWrite, ControlInv
      <4>4. blk \in [Procs -> Blocks \cup {NoBlock}] /\ blk' = [blk EXCEPT ![p] = b]
        BY <1>10, Zenon DEF LogWrite, ControlInv, TypeOK
      <4> QED BY <4>2, <4>3, <4>4, Zenon
    <3> QED BY <3>1, <3>2, Zenon
  <2> QED BY <2>5, <2>6, Zenon DEF DataInv
<1>11. ASSUME NEW b \in Blocks, Evict(b), ~panicked PROVE DataInv'
  <2>1. cache[b] = disk[b]
    BY <1>11, Zenon DEF Evict, DataInv, CleanIsOnDisk
  <2>2. cache' = cache
    BY <1>11, <2>1 DEF Evict, ControlInv, TypeOK
  <2> QED BY <1>11, <2>2, DataFrame, Zenon DEF Evict
<1>12. CASE Crash
  <2>1. \A q \in Procs : Phase(q)'
    BY <1>12, Zenon DEF Crash, Phase
  <2>2. Pins' /\ CleanIsOnDisk' /\ Quiet' /\ Booting'
    BY <1>12, ZenonT(30) DEF Crash, Pins, CleanIsOnDisk, Quiet, Booting
  <2> QED BY <2>1, <2>2, Zenon DEF DataInv
<1>13. CASE ReadHead
  <2>1. \A q \in Procs : pc[q] = "idle" /\ pc' = pc
    BY <1>13, Zenon DEF ReadHead, ControlInv
  <2>2. \A q \in Procs : Phase(q)'
    BY <2>1, Zenon DEF Phase
  <2>3. Booting /\ cache = disk /\ dirty = {}
    BY <1>13, Zenon DEF ReadHead, DataInv, Booting
  <2>4. lh \in Seq(Blocks) /\ Len(lh) \in Nat /\ tail \in Nat /\ tail >= 1 /\ Len(head) \in Nat
    BY Numbers DEF ControlInv, TypeOK
  <2>5. /\ UNCHANGED <<disk, logb, head, cache, dirty, tail, blk>> /\ lh' = head
        /\ boot' = "install" /\ tail = 1
    BY <1>13, <2>3, Zenon DEF ReadHead, Booting
  <2>6. Installed(tail - 1)' /\ tail' <= Len(lh') + 1
    BY <2>4, <2>5 DEF Installed
  <2>7. Pins' /\ CleanIsOnDisk' /\ Quiet' /\ Booting'
    BY <2>3, <2>5, <2>6, Zenon DEF Pins, CleanIsOnDisk, Quiet, Booting
  <2> QED BY <2>2, <2>7, Zenon DEF DataInv
<1>14. CASE RecoverInstall
  <2>1. \A q \in Procs : pc[q] = "idle" /\ pc' = pc
    BY <1>14, Zenon DEF RecoverInstall, ControlInv
  <2>2. \A q \in Procs : Phase(q)'
    BY <2>1, Zenon DEF Phase
  <2>3. Booting /\ cache = disk /\ dirty = {}
    BY <1>14, Zenon DEF RecoverInstall, DataInv, Booting
  <2>4. lh \in Seq(Blocks) /\ Len(lh) \in Nat /\ tail \in Nat /\ tail >= 1 /\ Len(head) \in Nat
    BY Numbers DEF ControlInv, TypeOK
  <2>5. UNCHANGED <<logb, head, lh, blk>> /\ boot = "install"
    BY <1>14, Zenon DEF RecoverInstall
  <2>6. lh = head /\ tail <= Len(lh) + 1 /\ Installed(tail - 1)
    BY <2>3, <2>5, Zenon DEF Booting
  <2>7. CASE MoreEntries
    <3> DEFINE e == lh[tail]
    <3>1. /\ disk' = [disk EXCEPT ![e] = logb[tail]]
          /\ cache' = [cache EXCEPT ![e] = logb[tail]]
          /\ dirty' = dirty \ {e}
          /\ tail' = tail + 1 /\ boot' = "install"
      BY <1>14, <2>7, ZenonT(30) DEF RecoverInstall, InstallTrans
    <3>2. tail \in 1 .. Len(lh) /\ e \in Blocks
      BY <2>7, LoopTurn, Zenon DEF ControlInv
    <3>3. cache' = disk' /\ dirty' = {}
      BY <2>3, <3>1, ZenonT(30)
    <3>4. disk'[e] = logb[tail] /\ \A c \in Blocks : c # e => disk'[c] = disk[c]
      BY <3>1, <3>2 DEF ControlInv, TypeOK
    <3>5. ASSUME NEW i \in 1 .. tail PROVE disk'[lh[i]] = logb[i]
      <4>1. i \in 1 .. Len(lh) /\ lh[i] \in Blocks /\ (i # tail => i \in 1 .. tail - 1)
        BY <2>4, <3>2
      <4>2. CASE i = tail
        BY <3>4, <4>2, ZenonT(30)
      <4>3. CASE i # tail
        <5>1. lh[i] # e
          BY <3>2, <4>1, <4>3, Zenon DEF RoomInv, Distinct
        <5> QED BY <2>6, <3>4, <4>1, <4>3, <5>1, Zenon DEF Installed
      <4> QED BY <4>2, <4>3, Zenon
    <3>6. tail' - 1 = tail /\ tail' <= Len(lh') + 1
      BY <2>4, <2>5, <3>1, <3>2
    <3>7. Installed(tail - 1)'
      <4> HIDE DEF e
      <4> QED BY <2>5, <3>5, <3>6, Zenon DEF Installed
    <3>8. Pins' /\ CleanIsOnDisk' /\ Quiet' /\ Booting'
      BY <2>5, <2>6, <3>1, <3>3, <3>6, <3>7, ZenonT(30)
      DEF Pins, CleanIsOnDisk, Quiet, Booting
    <3> QED BY <2>2, <3>8, Zenon DEF DataInv
  <2>8. CASE ~MoreEntries
    <3>1. UNCHANGED <<disk, cache, dirty>> /\ tail' = 1 /\ boot' = "erase"
      BY <1>14, <2>8, Zenon DEF RecoverInstall
    <3>2. tail - 1 = Len(lh)
      BY <2>4, <2>6, <2>8 DEF MoreEntries
    <3>3. Installed(Len(lh))'
      BY <2>5, <2>6, <3>1, <3>2, Zenon DEF Installed
    <3>4. Pins' /\ CleanIsOnDisk' /\ Quiet' /\ Booting'
      BY <2>3, <2>5, <2>6, <3>1, <3>3, ZenonT(30) DEF Pins, CleanIsOnDisk, Quiet,
         Booting
    <3> QED BY <2>2, <3>4, Zenon DEF DataInv
  <2> QED BY <2>7, <2>8, ZenonT(30)
<1>15. CASE RecoverErase
  <2>1. \A q \in Procs : pc[q] = "idle" /\ pc' = pc
    BY <1>15, Zenon DEF RecoverErase, ControlInv
  <2>2. \A q \in Procs : Phase(q)'
    BY <2>1, Zenon DEF Phase
  <2>3. Booting /\ cache = disk /\ dirty = {}
    BY <1>15, Zenon DEF RecoverErase, DataInv, Booting
  <2>4. lh \in Seq(Blocks) /\ Len(lh) \in Nat /\ tail \in Nat /\ tail >= 1 /\ Len(head) \in Nat
    BY Numbers DEF ControlInv, TypeOK
  <2>5. /\ UNCHANGED <<disk, logb, cache, dirty, tail, blk>>
        /\ lh' = <<>> /\ head' = <<>> /\ boot' = "up" /\ tail = 1
    BY <1>15, <2>3, Zenon DEF RecoverErase, Booting
  <2>6. Pins' /\ CleanIsOnDisk' /\ Quiet' /\ Booting'
    BY <2>3, <2>5, Zenon DEF Pins, CleanIsOnDisk, Quiet, Booting
  <2> QED BY <2>2, <2>6, Zenon DEF DataInv
<1>16. CASE UNCHANGED vars
  BY <1>16, DataFrame, Zenon DEF vars
<1> QED
  BY <1>1, <1>2, <1>3, <1>4, <1>5, <1>6, <1>7, <1>8, <1>9, <1>10, <1>11, <1>12, <1>13,
     <1>14, <1>15, <1>16, ZenonT(30) DEF Next, Kernel, Recover

----------------------------------------------------------------------------
(* The theorems.                                                            *)

\* The invariant holds at boot.
LEMMA DataInit == Init => DataInv
<1> SUFFICES ASSUME Init PROVE DataInv
  BY Zenon
<1>1. Pins /\ CleanIsOnDisk /\ Quiet /\ Booting
  BY Zenon DEF Init, Pins, CleanIsOnDisk, Quiet, Booting
<1>2. \A q \in Procs : Phase(q)
  BY Zenon DEF Init, Phase
<1> QED BY <1>1, <1>2, Zenon DEF DataInv

\* ... and throughout.
LEMMA DataInvariant == Spec => []DataInv
<1>1. DataInv /\ ControlInv /\ RoomInv /\ (ControlInv /\ RoomInv)' /\ [Next]_vars => DataInv'
  BY DataStep, Zenon
<1> QED BY <1>1, DataInit, RoomInvariant, PTL DEF Spec

\* The pin that log_write() sets keeps every update in the cache until
\* install_trans() has written it home.
THEOREM CleanBuffers == Spec => []CleanIsOnDisk
<1>1. DataInv => CleanIsOnDisk
  BY Zenon DEF DataInv
<1> QED BY <1>1, DataInvariant, PTL

\* What recovery puts into each block.
LEMMA RecoveredAt ==
  TypeOK /\ Distinct(head) =>
    /\ \A i \in 1 .. Len(head) : Recovered[head[i]] = logb[i]
    /\ \A b \in Blocks : ~Listed(head, b) => Recovered[b] = disk[b]
<1> SUFFICES ASSUME TypeOK, Distinct(head)
             PROVE  /\ \A i \in 1 .. Len(head) : Recovered[head[i]] = logb[i]
                    /\ \A b \in Blocks : ~Listed(head, b) => Recovered[b] = disk[b]
  BY Zenon
<1>1. ASSUME NEW i \in 1 .. Len(head) PROVE Recovered[head[i]] = logb[i]
  <2> DEFINE E == {k \in 1 .. Len(head) : head[k] = head[i]}
  <2>1. head[i] \in Blocks /\ Len(head) \in Nat
    BY DEF TypeOK
  <2>2. E = {i}
    BY Zenon DEF Distinct
  <2>3. (CHOOSE k \in E : \A j \in E : j <= k) = i
    BY <2>1, <2>2
  <2>4. Recovered[head[i]] = IF E = {} THEN disk[head[i]]
                             ELSE logb[CHOOSE k \in E : \A j \in E : j <= k]
    BY <2>1, Zenon DEF Recovered
  <2> HIDE DEF E
  <2> QED BY <2>2, <2>3, <2>4, Zenon
<1>2. ASSUME NEW b \in Blocks, ~Listed(head, b) PROVE Recovered[b] = disk[b]
  <2>1. {i \in 1 .. Len(head) : head[i] = b} = {}
    BY <1>2, Zenon DEF Listed
  <2> QED BY <2>1, Zenon DEF Recovered
<1> QED BY <1>1, <1>2, Zenon

\* Recovered is a function on Blocks, of disk alone when the header is empty.
LEMMA RecoveredEmpty ==
  ASSUME TypeOK, head = <<>>
  PROVE  Recovered = disk
<1>1. \A b \in Blocks : {i \in 1 .. Len(head) : head[i] = b} = {}
  OBVIOUS
<1> QED BY <1>1, Zenon DEF Recovered, TypeOK

\* Once every entry is home, recovery changes nothing.
LEMMA RecoveredHome ==
  ASSUME TypeOK, Distinct(head), head = lh, Installed(Len(lh))
  PROVE  Recovered = disk
<1>1. ASSUME NEW b \in Blocks PROVE Recovered[b] = disk[b]
  <2>1. CASE Listed(head, b)
    <3>1. PICK i \in 1 .. Len(head) : head[i] = b
      BY <2>1, Zenon DEF Listed
    <3> QED BY <3>1, RecoveredAt, Zenon DEF Installed
  <2>2. CASE ~Listed(head, b)
    BY <2>2, RecoveredAt, Zenon
  <2> QED BY <2>1, <2>2, Zenon
<1>2. Recovered = [b \in Blocks |-> Recovered[b]]
  BY DEF Recovered
<1>3. disk = [b \in Blocks |-> disk[b]]
  BY Zenon DEF TypeOK
<1> DEFINE r == Recovered
<1> HIDE DEF r
<1>4. r = [b \in Blocks |-> r[b]] /\ \A b \in Blocks : r[b] = disk[b]
  BY <1>1, <1>2, Zenon DEF r
<1>5. r = disk
  BY <1>3, <1>4, Zenon
<1> QED BY <1>5, Zenon DEF r

\* Only the disk matters to recovery.
LEMMA RecoveredSame ==
  ASSUME disk' = disk, logb' = logb, head' = head
  PROVE  Recovered' = Recovered
  BY SMTT(30) DEF Recovered

\* Without a header the log blocks do not matter to recovery.
LEMMA RecoveredClear ==
  ASSUME head = <<>>, head' = head, disk' = disk
  PROVE  Recovered' = Recovered
<1>1. \A b \in Blocks : {i \in 1 .. Len(head) : head[i] = b} = {}
  OBVIOUS
<1> QED BY <1>1 DEF Recovered

\* A buffer that gets what it has does not change.
LEMMA Rewritten ==
  ASSUME ControlInv, NEW e, NEW v, cache[e] = v, cache' = [cache EXCEPT ![e] = v]
  PROVE  cache' = cache
  BY Zenon DEF ControlInv, TypeOK

\* One turn of install_trans() writes the home block of an entry, and no other.
LEMMA HomeWritten ==
  ASSUME ControlInv, head = lh, tail \in 1 .. Len(lh),
         disk' = [disk EXCEPT ![lh[tail]] = logb[tail]]
  PROVE  Listed(head, lh[tail]) /\ \A b \in Blocks : b # lh[tail] => disk'[b] = disk[b]
  BY Zenon DEF Listed, ControlInv, TypeOK

\* Home blocks of entries may be written at any time after the header.
LEMMA RecoveredKept ==
  ASSUME NEW e, Listed(head, e), head' = head, logb' = logb,
         \A b \in Blocks : b # e => disk'[b] = disk[b]
  PROVE  Recovered' = Recovered
<1>1. ASSUME NEW b \in Blocks, {i \in 1 .. Len(head) : head[i] = b} = {}
      PROVE  disk'[b] = disk[b]
  BY <1>1, Zenon DEF Listed
<1> QED BY <1>1 DEF Recovered

\* Every step is a step of the atomic disk, or none.
LEMMA AtomicStep ==
  ASSUME ControlInv, RoomInv, DataInv, ControlInv', RoomInv', [Next]_vars
  PROVE  Atomic!DiskNext \/ UNCHANGED Atomic!avars
<1> USE DEF Goto, media
<1>1. ASSUME NEW p \in Procs, BeginSleep(p), ~panicked PROVE Atomic!DiskNext \/ UNCHANGED Atomic!avars
  <2>1. Operating' = Operating
    BY <1>1, Zenon DEF BeginSleep, ControlInv, TypeOK, Operating, WakeAndGoto
  <2>2. Recovered' = Recovered
    BY <1>1, RecoveredSame, Zenon DEF BeginSleep
  <2>9. UNCHANGED <<memory, Recovered, Operating>>
    BY <1>1, <2>1, <2>2, Zenon DEF BeginSleep, memory
  <2> QED BY <2>9, ZenonT(30) DEF Atomic!avars
<1>2. ASSUME NEW p \in Procs, BeginOp(p), ~panicked PROVE Atomic!DiskNext \/ UNCHANGED Atomic!avars
  <2>1. Operating' = Operating \cup {p} /\ p \notin Operating
    BY <1>2 DEF BeginOp, ControlInv, TypeOK, Operating
  <2>2. Recovered' = Recovered
    BY <1>2, RecoveredSame, Zenon DEF BeginOp
  <2>3. memory' = memory
    BY <1>2, <2>2, Zenon DEF BeginOp, memory
  <2>4. Atomic!DiskBegin(p)
    BY <2>1, <2>2, <2>3, Zenon DEF Atomic!DiskBegin
  <2> QED BY <2>4, ZenonT(30) DEF Atomic!DiskNext
<1>3. ASSUME NEW p \in Procs, LogAppend(p), ~panicked PROVE Atomic!DiskNext \/ UNCHANGED Atomic!avars
  <2>1. Operating' = Operating
    BY <1>3, Zenon DEF LogAppend, ControlInv, TypeOK, Operating, WakeAndGoto
  <2>2. Recovered' = Recovered
    BY <1>3, RecoveredSame, Zenon DEF LogAppend
  <2>9. UNCHANGED <<memory, Recovered, Operating>>
    BY <1>3, <2>1, <2>2, Zenon DEF LogAppend, memory
  <2> QED BY <2>9, Zenon DEF Atomic!avars
<1>4. ASSUME NEW p \in Procs, EndOp(p), ~panicked PROVE Atomic!DiskNext \/ UNCHANGED Atomic!avars
  <2>1. Operating' = Operating \ {p} /\ p \in Operating
    BY <1>4 DEF EndOp, ControlInv, TypeOK, Operating, WakeAndGoto
  <2>2. Recovered' = Recovered
    BY <1>4, RecoveredSame, Zenon DEF EndOp
  <2>3. memory' = memory
    BY <1>4, <2>2, Zenon DEF EndOp, memory
  <2>4. Atomic!DiskEnd(p)
    BY <2>1, <2>2, <2>3, ZenonT(30) DEF Atomic!DiskEnd
  <2> QED BY <2>4, ZenonT(30) DEF Atomic!DiskNext
<1>5. ASSUME NEW p \in Procs, WriteLog(p), ~panicked PROVE Atomic!DiskNext \/ UNCHANGED Atomic!avars
  <2>1. Operating' = Operating
    BY <1>5, SMTT(30) DEF WriteLog, AfterWriteLog, ControlInv, TypeOK, Operating
  <2>2. p \in Committers /\ pc[p] = "write_log"
    BY <1>5, Zenon DEF WriteLog, Committers
  <2>3. boot = "up" /\ \A q \in Procs : pc[q] \notin {"install", "erase"}
    BY <2>2, Alone, Zenon
  <2>4. head = <<>>
    BY <2>3, Zenon DEF DataInv, Quiet
  <2>5. head' = head /\ disk' = disk
    BY <1>5, Zenon DEF WriteLog
  <2>6. Recovered' = Recovered
    BY <2>4, <2>5, RecoveredClear, Zenon
  <2>9. UNCHANGED <<memory, Recovered, Operating>>
    BY <1>5, <2>1, <2>6, Zenon DEF WriteLog, memory
  <2> QED BY <2>9, Zenon DEF Atomic!avars
<1>6. ASSUME NEW p \in Procs, WriteHead(p), ~panicked PROVE Atomic!DiskNext \/ UNCHANGED Atomic!avars
  <2>1. p \in Committers /\ pc[p] = "write_head"
    BY <1>6, Zenon DEF WriteHead, Committers
  <2>2. boot = "up" /\ Operating = {} /\ \A q \in Procs : blk[q] = NoBlock
    BY <2>1, Alone, Zenon DEF ControlInv
  <2>3. Operating' = {} /\ memory' = cache /\ memory = cache
    BY <1>6, <2>2, ZenonT(30) DEF WriteHead, ControlInv, TypeOK, Operating, memory
  <2>4. (/\ \A i \in 1 .. Len(head) : Recovered[head[i]] = logb[i]
         /\ \A b \in Blocks : ~Listed(head, b) => Recovered[b] = disk[b])'
    <3>1. TypeOK' /\ Distinct(head)'
      BY Zenon DEF ControlInv, RoomInv
    <3> QED BY <3>1, RecoveredAt, PTL
  <2>5. /\ head' = lh /\ logb' = logb /\ disk' = disk
        /\ Logged(Len(lh))
    BY <1>6, Zenon DEF WriteHead, DataInv, Phase
  <2>6. ASSUME NEW b \in Blocks PROVE Recovered'[b] = cache[b]
    <3>1. CASE Listed(lh, b)
      <4>1. PICK i \in 1 .. Len(lh) : lh[i] = b
        BY <3>1, Zenon DEF Listed
      <4> QED BY <2>4, <2>5, <4>1, Zenon DEF Logged
    <3>2. CASE ~Listed(lh, b)
      <4>1. cache[b] = disk[b]
        BY <2>2, <3>2, Numbers, ZenonT(30) DEF DataInv, Pins, CleanIsOnDisk
      <4> QED BY <2>4, <2>5, <3>2, <4>1, Zenon
    <3> QED BY <3>1, <3>2, Zenon
  <2>7. Recovered' = cache
    <3>1. Recovered' = [b \in Blocks |-> Recovered'[b]]
      BY SMTT(30) DEF Recovered
    <3>2. cache = [b \in Blocks |-> cache[b]]
      BY Zenon DEF ControlInv, TypeOK
    <3> DEFINE r == Recovered'
    <3> HIDE DEF r
    <3>3. r = [b \in Blocks |-> r[b]] /\ \A b \in Blocks : r[b] = cache[b]
      BY <2>6, <3>1, Zenon DEF r
    <3>4. r = cache
      BY <3>2, <3>3, Zenon
    <3> QED BY <3>4, Zenon DEF r
  <2>8. Atomic!DiskCommit
    BY <2>2, <2>3, <2>7, Zenon DEF Atomic!DiskCommit
  <2> QED BY <2>8, Zenon DEF Atomic!DiskNext
<1>7. ASSUME NEW p \in Procs, Install(p), ~panicked PROVE Atomic!DiskNext \/ UNCHANGED Atomic!avars
  <2>1. Operating' = Operating
    BY <1>7 DEF Install, ControlInv, TypeOK, Operating
  <2>2. p \in Committers /\ pc[p] = "install"
    BY <1>7, Zenon DEF Install, Committers
  <2>3. boot = "up" /\ boot' = boot /\ head = lh /\ head' = head /\ logb' = logb /\ Logged(Len(lh))
    BY <1>7, <2>2, Alone, Zenon DEF Install, DataInv, Phase
  <2>4. CASE MoreEntries
    <3>1. /\ disk' = [disk EXCEPT ![lh[tail]] = logb[tail]]
          /\ cache' = [cache EXCEPT ![lh[tail]] = logb[tail]]
      BY <1>7, <2>4, Zenon DEF Install, InstallTrans
    <3>2. tail \in 1 .. Len(lh) /\ lh[tail] \in Blocks
      BY <2>4, LoopTurn, Zenon DEF ControlInv
    <3>3. cache[lh[tail]] = logb[tail]
      BY <2>3, <3>2, Zenon DEF Logged
    <3>4. cache' = cache
      BY <3>1, <3>3, Rewritten, Zenon
    <3>5. Listed(head, lh[tail]) /\ \A b \in Blocks : b # lh[tail] => disk'[b] = disk[b]
      BY <2>3, <3>1, <3>2, HomeWritten, Zenon
    <3>6. Recovered' = Recovered
      BY <2>3, <3>5, RecoveredKept, Zenon
    <3> QED BY <2>1, <2>3, <3>4, <3>6, Zenon DEF memory, Atomic!avars
  <2>5. CASE ~MoreEntries
    <3>1. disk' = disk /\ cache' = cache
      BY <1>7, <2>5, Zenon DEF Install
    <3>2. Recovered' = Recovered
      BY <2>3, <3>1, RecoveredSame, Zenon
    <3> QED BY <2>1, <2>3, <3>1, <3>2, Zenon DEF memory, Atomic!avars
  <2> QED BY <2>4, <2>5, Zenon
<1>8. ASSUME NEW p \in Procs, Erase(p), ~panicked PROVE Atomic!DiskNext \/ UNCHANGED Atomic!avars
  <2>1. Operating' = Operating
    BY <1>8, Zenon DEF Erase, ControlInv, TypeOK, Operating
  <2>2. Recovered = disk
    BY <1>8, RecoveredHome, Zenon DEF Erase, ControlInv, RoomInv, DataInv, Phase
  <2>3. Recovered' = disk'
    <3>1. TypeOK' /\ head' = <<>>
      BY <1>8, Zenon DEF Erase, ControlInv
    <3>2. \A b \in Blocks : {i \in 1 .. Len(head') : head'[i] = b} = {}
      BY <3>1
    <3> QED BY <3>1, <3>2, Zenon DEF Recovered, TypeOK
  <2>9. UNCHANGED <<memory, Recovered, Operating>>
    BY <1>8, <2>1, <2>2, <2>3, Zenon DEF Erase, memory
  <2> QED BY <2>9, Zenon DEF Atomic!avars
<1>9. ASSUME NEW p \in Procs, Finish(p), ~panicked PROVE Atomic!DiskNext \/ UNCHANGED Atomic!avars
  <2>1. Operating' = Operating
    BY <1>9, Zenon DEF Finish, ControlInv, TypeOK, Operating, WakeAndGoto
  <2>2. Recovered' = Recovered
    BY <1>9, RecoveredSame, Zenon DEF Finish
  <2>9. UNCHANGED <<memory, Recovered, Operating>>
    BY <1>9, <2>1, <2>2, Zenon DEF Finish, memory
  <2> QED BY <2>9, Zenon DEF Atomic!avars
<1>10. ASSUME NEW p \in Procs, NEW b \in Blocks, NEW v \in Vals, LogWrite(p, b, v), ~panicked
      PROVE  Atomic!DiskNext \/ UNCHANGED Atomic!avars
  <2>0. pc' = [pc EXCEPT ![p] = "append"] /\ pc[p] = "op"
    BY <1>10, Zenon DEF LogWrite
  <2>1. Operating' = Operating /\ p \in Operating
    BY <2>0 DEF ControlInv, TypeOK, Operating
  <2>2. Recovered' = Recovered
    BY <1>10, RecoveredSame, Zenon DEF LogWrite
  <2>3. boot = "up"
    BY <2>1, Busy, Zenon
  <2>4. memory' = [memory EXCEPT ![b] = v]
    BY <1>10, <2>3, Zenon DEF LogWrite, memory
  <2>5. Atomic!DiskWrite(p, b, v)
    BY <2>1, <2>2, <2>4, Zenon DEF Atomic!DiskWrite
  <2> QED BY <2>5, Zenon DEF Atomic!DiskNext
<1>11. ASSUME NEW b \in Blocks, Evict(b), ~panicked PROVE Atomic!DiskNext \/ UNCHANGED Atomic!avars
  <2>1. cache[b] = disk[b]
    BY <1>11, Zenon DEF Evict, DataInv, CleanIsOnDisk
  <2>2. cache' = cache
    BY <1>11, <2>1, Rewritten, Zenon DEF Evict
  <2>3. Recovered' = Recovered /\ Operating' = Operating
    BY <1>11 DEF Evict, Recovered, Operating
  <2>9. UNCHANGED <<memory, Recovered, Operating>>
    BY <1>11, <2>2, <2>3, Zenon DEF Evict, memory
  <2> QED BY <2>9, Zenon DEF Atomic!avars
<1>12. CASE Crash
  <2>1. Operating' = {}
    BY <1>12, Zenon DEF Crash, Operating
  <2>2. Recovered' = Recovered
    BY <1>12, RecoveredSame, Zenon DEF Crash
  <2>3. memory' = Recovered
    BY <1>12, <2>2, Zenon DEF Crash, memory
  <2>4. Atomic!DiskCrash
    BY <2>1, <2>2, <2>3, Zenon DEF Atomic!DiskCrash
  <2> QED BY <2>4, Zenon DEF Atomic!DiskNext
<1>13. CASE ReadHead
  <2>1. Operating' = Operating
    BY <1>13, Zenon DEF ReadHead, ControlInv, TypeOK, Operating, WakeAndGoto
  <2>2. Recovered' = Recovered
    BY <1>13, RecoveredSame, Zenon DEF ReadHead
  <2>9. UNCHANGED <<memory, Recovered, Operating>>
    BY <1>13, <2>1, <2>2, Zenon DEF ReadHead, memory
  <2> QED BY <2>9, Zenon DEF Atomic!avars
<1>14. CASE RecoverInstall
  <2>1. Operating' = Operating
    BY <1>14, Zenon DEF RecoverInstall, InstallTrans, Operating
  <2>2. boot = "install" /\ boot' # "up" /\ head = lh /\ head' = head /\ logb' = logb
    BY <1>14, Zenon DEF RecoverInstall, DataInv, Booting
  <2>3. Recovered' = Recovered
    <3>1. CASE MoreEntries
      <4>1. disk' = [disk EXCEPT ![lh[tail]] = logb[tail]]
        BY <1>14, <3>1, Zenon DEF RecoverInstall, InstallTrans
      <4>2. tail \in 1 .. Len(lh) /\ lh[tail] \in Blocks
        BY <3>1, LoopTurn, Zenon DEF ControlInv
      <4>3. Listed(head, lh[tail]) /\ \A b \in Blocks : b # lh[tail] => disk'[b] = disk[b]
        BY <2>2, <4>1, <4>2, HomeWritten, Zenon
      <4> QED BY <2>2, <4>3, RecoveredKept, Zenon
    <3>2. CASE ~MoreEntries
      BY <1>14, <2>2, <3>2, RecoveredSame, Zenon DEF RecoverInstall
    <3> QED BY <3>1, <3>2, Zenon
  <2>9. UNCHANGED <<memory, Recovered, Operating>>
    BY <2>1, <2>2, <2>3, Zenon DEF memory
  <2> QED BY <2>9, Zenon DEF Atomic!avars
<1>15. CASE RecoverErase
  <2>1. Operating' = Operating
    BY <1>15, Zenon DEF RecoverErase, Operating
  <2>2. Recovered = disk /\ cache = disk
    BY <1>15, RecoveredHome, ZenonT(30) DEF RecoverErase, ControlInv, RoomInv, DataInv,
       Booting
  <2>3. Recovered' = disk'
    <3>1. TypeOK' /\ head' = <<>>
      BY <1>15, Zenon DEF RecoverErase, ControlInv
    <3>2. \A b \in Blocks : {i \in 1 .. Len(head') : head'[i] = b} = {}
      BY <3>1
    <3> QED BY <3>1, <3>2, Zenon DEF Recovered, TypeOK
  <2>9. UNCHANGED <<memory, Recovered, Operating>>
    BY <1>15, <2>1, <2>2, <2>3, ZenonT(30) DEF RecoverErase, memory
  <2> QED BY <2>9, Zenon DEF Atomic!avars
<1>16. CASE UNCHANGED vars
  <2>1. Operating' = Operating
    BY <1>16, Zenon DEF vars, ControlInv, TypeOK, Operating, WakeAndGoto
  <2>2. Recovered' = Recovered
    BY <1>16, RecoveredSame, Zenon DEF vars
  <2>9. UNCHANGED <<memory, Recovered, Operating>>
    BY <1>16, <2>1, <2>2, Zenon DEF vars, memory
  <2> QED BY <2>9, Zenon DEF Atomic!avars
<1> QED
  BY <1>1, <1>2, <1>3, <1>4, <1>5, <1>6, <1>7, <1>8, <1>9, <1>10, <1>11, <1>12, <1>13,
     <1>14, <1>15, <1>16, ZenonT(30) DEF Next, Kernel, Recover

\* The log implements the atomic disk: whatever the interleaving of
\* operations, commits, evictions and crashes, reads return what was last
\* written, and recovery restores the disk of a moment when no operation was
\* under way.  The commit point is write_head().
THEOREM LogImplementsAtomicDisk == Spec => ImplementsAtomicDisk
<1>1. Init => Atomic!DiskInit
  <2> SUFFICES ASSUME Init PROVE Atomic!DiskInit
    BY Zenon
  <2>1. TypeOK /\ head = <<>> /\ boot # "up" /\ Operating = {}
    BY RoomInit, Zenon DEF ControlInv, Init, Operating
  <2>2. Recovered = disk
    BY <2>1, RecoveredEmpty, Zenon
  <2> QED BY <2>1, <2>2, ZenonT(30) DEF Atomic!DiskInit, memory, TypeOK
<1>2. /\ DataInv /\ ControlInv /\ RoomInv /\ (ControlInv /\ RoomInv)' /\ [Next]_vars
      => [Atomic!DiskNext]_(Atomic!avars)
  BY AtomicStep, Zenon
<1> QED BY <1>1, <1>2, DataInvariant, RoomInvariant, PTL DEF Spec, ImplementsAtomicDisk, Atomic!DiskSpec
============================================================================
