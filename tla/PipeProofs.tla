----------------------------- MODULE PipeProofs -----------------------------
(***************************************************************************)
(* Proofs about Pipe, for every number of processes, size of the ring and  *)
(* width of its counters.                                                  *)
(***************************************************************************)
EXTENDS Pipe, Integers, SequenceTheorems, TLAPS

----------------------------------------------------------------------------
(* Arithmetic of the two counters and of the index into the ring.           *)

\* Quotient and remainder.
LEMMA DivMod ==
  ASSUME NEW P \in Nat \ {0}, NEW a \in Nat
  PROVE  /\ \E q \in Nat : a = P * q + (a % P)
         /\ a % P \in 0 .. P - 1
<1>1. a = P * (a \div P) + (a % P) /\ a \div P \in Nat /\ a % P \in 0 .. P - 1
  OBVIOUS
<1> QED BY <1>1, Zenon

\* A positive multiple of P is at least P.
LEMMA MulGap ==
  ASSUME NEW P \in Nat \ {0}, NEW q \in Int, q >= 1
  PROVE  P * q >= P
  OBVIOUS

\* Quotient and remainder are unique.
LEMMA Unique ==
  ASSUME NEW P \in Nat \ {0}, NEW q1 \in Int, NEW q2 \in Int,
         NEW r1 \in 0 .. P - 1, NEW r2 \in 0 .. P - 1,
         P * q1 + r1 = P * q2 + r2
  PROVE  r1 = r2
<1>1. P * (q1 - q2) = r2 - r1
  OBVIOUS
<1>2. CASE q1 - q2 >= 1
  <2>1. P * (q1 - q2) >= P
    BY <1>2, MulGap
  <2> QED BY <1>1, <2>1
<1>3. CASE q2 - q1 >= 1
  <2>1. P * (q2 - q1) >= P
    BY <1>3, MulGap
  <2>2. P * (q2 - q1) = r1 - r2
    OBVIOUS
  <2> QED BY <2>2, <2>1
<1> QED BY <1>2, <1>3

\* A remainder that is known.
LEMMA ModIs ==
  ASSUME NEW P \in Nat \ {0}, NEW q \in Nat, NEW r \in 0 .. P - 1, NEW a \in Nat,
         a = P * q + r
  PROVE  a % P = r
<1> DEFINE r1 == a % P
<1>1. r1 \in 0 .. P - 1
  BY DivMod
<1>2. PICK q1 \in Nat : a = P * q1 + r1
  BY DivMod, Zenon
<1> HIDE DEF r1
<1>3. P * q1 + r1 = P * q + r /\ q1 \in Int /\ q \in Int
  BY <1>2
<1>4. r1 = r
  BY ONLY <1>1, <1>3, Unique, P \in Nat \ {0}, r \in 0 .. P - 1
<1> QED BY <1>4 DEF r1

\* Multiples of P do not change a remainder.
LEMMA ModPlus ==
  ASSUME NEW P \in Nat \ {0}, NEW m \in Nat, NEW a \in Nat
  PROVE  (a + P * m) % P = a % P
<1> DEFINE r == a % P
<1>1. r \in 0 .. P - 1
  BY DivMod
<1>2. PICK q \in Nat : a = P * q + r
  BY DivMod, Zenon
<1> HIDE DEF r
<1> DEFINE b == a + P * m
           n == q + m
<1>3. b = P * n + r /\ b \in Nat /\ n \in Nat
  BY <1>1, <1>2
<1> HIDE DEF b, n
<1>4. b % P = r
  BY <1>1, <1>3, ModIs
<1> QED BY <1>4 DEF r, b

\* Numbers less than P apart have different remainders.
LEMMA ModInj ==
  ASSUME NEW P \in Nat \ {0}, NEW a \in Nat, NEW b \in Nat,
         a % P = b % P, a <= b, b < a + P
  PROVE  a = b
<1> DEFINE r == b % P
<1>1. PICK q1 \in Nat : b = P * q1 + r
  BY DivMod, Zenon
<1>2. PICK q2 \in Nat : a = P * q2 + r
  BY DivMod, Zenon
<1>3. r \in Nat
  BY DivMod
<1> HIDE DEF r
<1>5. P * (q1 - q2) = b - a
  BY <1>1, <1>2, <1>3
<1>6. q1 - q2 < 1
  BY <1>5, MulGap
<1>7. P * (q2 - q1) = a - b
  BY <1>1, <1>2, <1>3
<1>8. q2 - q1 < 1
  BY <1>7, MulGap
<1> QED BY <1>1, <1>2, <1>3, <1>6, <1>8

\* A counter that has wrapped around at most once.
LEMMA ModOnce ==
  ASSUME NEW P \in Nat \ {0}, NEW a \in Nat, a < P + P
  PROVE  a % P = IF a < P THEN a ELSE a - P
<1>1. CASE a < P
  <2>1. a = P * 0 + a /\ a \in 0 .. P - 1
    BY <1>1
  <2> QED BY <1>1, <2>1, ModIs
<1>2. CASE a >= P
  <2>1. a = P * 1 + (a - P) /\ a - P \in 0 .. P - 1
    BY <1>2
  <2>2. a % P = a - P
    BY <2>1, ModIs
  <2> QED BY <1>2, <2>2
<1> QED BY <1>1, <1>2

\* The least of two numbers.
LEMMA MinPair ==
  ASSUME NEW a \in Int, NEW b \in Int
  PROVE  Min({a, b}) = IF a <= b THEN a ELSE b
  BY DEF Min

\* The constants without their divisibility.
LEMMA Sizes ==
  /\ PIPESIZE \in Nat \ {0} /\ WORD \in Nat \ {0} /\ PIPESIZE < WORD /\ MaxN \in Nat
  BY PipeAssumption

\* The distance between two counters, one of which may have wrapped.
LEMMA Distance ==
  ASSUME NEW w \in 0 .. WORD - 1, NEW r \in 0 .. WORD - 1
  PROVE  /\ (w + WORD - r) % WORD = IF w >= r THEN w - r ELSE w + WORD - r
         /\ (w + WORD - r) % WORD \in 0 .. WORD - 1
<1> DEFINE a == w + WORD - r
<1>1. a \in Nat /\ WORD \in Nat \ {0} /\ a < WORD + WORD
  BY Sizes
<1> HIDE DEF a
<1>2. a % WORD = IF a < WORD THEN a ELSE a - WORD
  BY <1>1, ModOnce, Zenon
<1> QED BY <1>1, <1>2 DEF a

\* The number of bytes in the ring.
LEMMA CountIs ==
  ASSUME nread \in 0 .. WORD - 1, nwrite \in 0 .. WORD - 1
  PROVE  /\ Count = IF nwrite >= nread THEN nwrite - nread ELSE nwrite + WORD - nread
         /\ Count \in 0 .. WORD - 1
  BY Distance DEF Count

\* The number of bytes in the ring after a step.
LEMMA CountNext ==
  ASSUME nread' \in 0 .. WORD - 1, nwrite' \in 0 .. WORD - 1
  PROVE  Count' = IF nwrite' >= nread' THEN nwrite' - nread' ELSE nwrite' + WORD - nread'
  BY Distance, Zenon DEF Count

\* A counter advances by less than a whole turn.
LEMMA AdvanceIs ==
  ASSUME NEW n \in 0 .. WORD - 1, NEW k \in 0 .. WORD - 1
  PROVE  /\ Advance(n, k) = IF n + k < WORD THEN n + k ELSE n + k - WORD
         /\ Advance(n, k) \in 0 .. WORD - 1
<1> DEFINE a == n + k
<1>1. a \in Nat /\ WORD \in Nat \ {0} /\ a < WORD + WORD
  BY Sizes
<1> HIDE DEF a
<1>2. a % WORD = IF a < WORD THEN a ELSE a - WORD
  BY <1>1, ModOnce, Zenon
<1> QED BY <1>1, <1>2 DEF a, Advance

----------------------------------------------------------------------------
(* Sleeps and wakeups.                                                      *)

\* What every step keeps: the ring is never overfull, an end is open as long
\* as somebody holds it, and who is inside a call holds the end it uses.
PipeInv ==
  /\ NoMissedWakeup
  /\ Count <= PIPESIZE
  /\ readopen <=> rfd # {}
  /\ writeopen <=> wfd # {}
  /\ \A p \in Procs : pc[p] \in {"read", "rsleep"} => p \in rfd
  /\ \A p \in Procs : pc[p] \in {"write", "wsleep"} => p \in wfd

\* A write fills at most the room there is.
LEMMA WriteCount ==
  ASSUME PipeInv, NEW p \in Procs, PipeWrite(p)
  PROVE  LET k == Min({left[p], Room})
         IN  /\ k \in 0 .. PIPESIZE - Count
             /\ k = left[p] \/ (k = PIPESIZE - Count /\ k < left[p])
             /\ nwrite' = Advance(nwrite, k)
             /\ nwrite' \in 0 .. WORD - 1
             /\ Count' = Count + k
<1> DEFINE k == Min({left[p], Room})
<1>1. left[p] \in 0 .. MaxN /\ Room = PIPESIZE - Count /\ Count \in 0 .. PIPESIZE
      /\ nread \in 0 .. WORD - 1 /\ nwrite \in 0 .. WORD - 1 /\ WORD \in Nat /\ PIPESIZE \in Nat
      /\ PIPESIZE < WORD /\ MaxN \in Nat
  BY Sizes, CountIs DEF PipeInv, NoMissedWakeup, TypeOK, Room
<1>2. k = IF left[p] <= Room THEN left[p] ELSE Room
  BY <1>1, MinPair
<1> HIDE DEF k
<1>3. k \in 0 .. PIPESIZE - Count /\ (k = left[p] \/ (k = PIPESIZE - Count /\ k < left[p]))
  BY <1>1, <1>2
<1>4. nwrite' = Advance(nwrite, k) /\ nread' = nread
  BY DEF PipeWrite, k
<1>5. k \in 0 .. WORD - 1
  BY <1>1, <1>3
<1>6. /\ nwrite' = IF nwrite + k < WORD THEN nwrite + k ELSE nwrite + k - WORD
      /\ nwrite' \in 0 .. WORD - 1
  BY <1>1, <1>4, <1>5, AdvanceIs, Zenon
<1>7. Count' = IF nwrite' >= nread THEN nwrite' - nread ELSE nwrite' + WORD - nread
  BY <1>1, <1>4, <1>6, CountNext
<1>8. Count = IF nwrite >= nread THEN nwrite - nread ELSE nwrite + WORD - nread
  BY <1>1, CountIs
<1>9. Count' = Count + k
  BY <1>1, <1>3, <1>6, <1>7, <1>8
<1> QED BY <1>3, <1>4, <1>6, <1>9 DEF k

\* A read takes at most the bytes there are.
LEMMA ReadCount ==
  ASSUME PipeInv, NEW p \in Procs, PipeRead(p)
  PROVE  LET k == Min({left[p], Count})
         IN  /\ k \in 0 .. Count
             /\ nread' = Advance(nread, k)
             /\ nread' \in 0 .. WORD - 1
             /\ Count' = Count - k
<1> DEFINE k == Min({left[p], Count})
<1>1. left[p] \in 0 .. MaxN /\ Count \in 0 .. PIPESIZE
      /\ nread \in 0 .. WORD - 1 /\ nwrite \in 0 .. WORD - 1 /\ WORD \in Nat /\ PIPESIZE \in Nat
      /\ PIPESIZE < WORD /\ MaxN \in Nat
  BY Sizes, CountIs DEF PipeInv, NoMissedWakeup, TypeOK
<1>2. k = IF left[p] <= Count THEN left[p] ELSE Count
  BY <1>1, MinPair
<1> HIDE DEF k
<1>3. k \in 0 .. Count
  BY <1>1, <1>2
<1>4. nread' = Advance(nread, k) /\ nwrite' = nwrite
  BY DEF PipeRead, k
<1>5. k \in 0 .. WORD - 1
  BY <1>1, <1>3
<1>6. /\ nread' = IF nread + k < WORD THEN nread + k ELSE nread + k - WORD
      /\ nread' \in 0 .. WORD - 1
  BY <1>1, <1>4, <1>5, AdvanceIs, Zenon
<1>7. Count' = IF nwrite >= nread' THEN nwrite - nread' ELSE nwrite + WORD - nread'
  BY <1>1, <1>4, <1>6, CountNext
<1>8. Count = IF nwrite >= nread THEN nwrite - nread ELSE nwrite + WORD - nread
  BY <1>1, CountIs
<1>9. Count' = Count - k
  BY <1>1, <1>3, <1>6, <1>7, <1>8
<1> QED BY <1>3, <1>4, <1>6, <1>9 DEF k

\* The index of a byte: at most one of k bytes goes to a place of the ring.
LEMMA OnePlace ==
  ASSUME NEW n \in Nat, NEW k \in 0 .. PIPESIZE, NEW i \in 1 .. k, NEW j \in 1 .. k,
         (n + i - 1) % PIPESIZE = (n + j - 1) % PIPESIZE
  PROVE  i = j
<1> DEFINE a == n + i - 1
           b == n + j - 1
<1>1. a \in Nat /\ b \in Nat /\ a < b + PIPESIZE /\ b < a + PIPESIZE /\ a % PIPESIZE = b % PIPESIZE
  BY Sizes
<1> HIDE DEF a, b
<1>2. a = b
  <2>1. CASE a <= b
    BY <1>1, <2>1, ModInj, Sizes, Zenon
  <2>2. CASE b <= a
    BY <1>1, <2>2, ModInj, Sizes, Zenon
  <2> QED BY <1>1, <2>1, <2>2
<1> QED BY <1>2, Sizes DEF a, b

\* The ring after a write: the byte of the one index that falls on a place.
LEMMA StoredAt ==
  ASSUME TypeOK, NEW k \in 0 .. PIPESIZE, NEW s \in [1 .. k -> Bytes],
         NEW i \in 0 .. PIPESIZE - 1
  PROVE  /\ \A j \in 1 .. k : (nwrite + j - 1) % PIPESIZE = i => Stored(s, k)[i] = s[j]
         /\ (\A j \in 1 .. k : (nwrite + j - 1) % PIPESIZE # i) => Stored(s, k)[i] = data[i]
<1> DEFINE js == {j \in 1 .. k : (nwrite + j - 1) % PIPESIZE = i}
<1>0. Stored(s, k)[i] = IF js = {} THEN data[i] ELSE s[Max(js)]
  BY DEF Stored, TypeOK
<1>1. ASSUME NEW j \in 1 .. k, (nwrite + j - 1) % PIPESIZE = i PROVE Stored(s, k)[i] = s[j]
  <2>0. nwrite \in Nat
    BY Sizes DEF TypeOK
  <2>1. \A l \in js : l = j
    BY <1>1, <2>0, OnePlace
  <2>2. js = {j}
    BY <1>1, <2>1
  <2>3. Max({j}) = j
    BY DEF Max
  <2> QED BY <1>0, <2>2, <2>3, Zenon
<1>2. ASSUME \A j \in 1 .. k : (nwrite + j - 1) % PIPESIZE # i PROVE Stored(s, k)[i] = data[i]
  BY <1>0, <1>2
<1> QED BY <1>1, <1>2

\* The ring keeps its type.
LEMMA StoredType ==
  ASSUME TypeOK, NEW k \in 0 .. PIPESIZE, NEW s \in [1 .. k -> Bytes]
  PROVE  Stored(s, k) \in [0 .. PIPESIZE - 1 -> Bytes]
<1>1. ASSUME NEW i \in 0 .. PIPESIZE - 1 PROVE Stored(s, k)[i] \in Bytes
  <2>1. CASE \E j \in 1 .. k : (nwrite + j - 1) % PIPESIZE = i
    <3>1. PICK j \in 1 .. k : (nwrite + j - 1) % PIPESIZE = i
      BY <2>1, Zenon
    <3>2. Stored(s, k)[i] = s[j]
      BY <3>1, StoredAt, Zenon
    <3> QED BY <3>2, Zenon
  <2>2. CASE \A j \in 1 .. k : (nwrite + j - 1) % PIPESIZE # i
    <3>1. Stored(s, k)[i] = data[i]
      BY <2>2, StoredAt
    <3> QED BY <3>1, Zenon DEF TypeOK
  <2> QED BY <2>1, <2>2
<1>2. Stored(s, k) = [i \in 0 .. PIPESIZE - 1 |-> Stored(s, k)[i]]
  BY DEF Stored, TypeOK
<1> QED BY <1>1, <1>2

\* Every step keeps the sleepers in order.
LEMMA PipeStep == PipeInv /\ [Next]_vars => PipeInv'
<1> SUFFICES ASSUME PipeInv, [Next]_vars PROVE PipeInv'
  OBVIOUS
<1> USE DEF ring, ends
<1>0. TypeOK /\ Count \in 0 .. PIPESIZE /\ PIPESIZE \in Nat \ {0} /\ MaxN \in Nat
  BY Sizes, CountIs DEF PipeInv, NoMissedWakeup, TypeOK
<1>1. ASSUME NEW p \in Procs, WriteCall(p) PROVE PipeInv'
  BY <1>0, <1>1 DEF WriteCall, PipeInv, NoMissedWakeup, TypeOK, Count
<1>2. ASSUME NEW p \in Procs, ReadCall(p) PROVE PipeInv'
  BY <1>0, <1>2 DEF ReadCall, PipeInv, NoMissedWakeup, TypeOK, Count
<1>3. ASSUME NEW p \in Procs, PipeWrite(p) PROVE PipeInv'
  <2> DEFINE k == Min({left[p], Room})
  <2>1. /\ k \in 0 .. PIPESIZE - Count
        /\ k = left[p] \/ (k = PIPESIZE - Count /\ k < left[p])
        /\ nwrite' \in 0 .. WORD - 1
        /\ Count' = Count + k
    BY <1>3, WriteCount
  <2>2. PICK s \in [1 .. k -> Bytes] : data' = Stored(s, k)
    BY <1>3, Zenon DEF PipeWrite
  <2>3. /\ pc[p] = "write"
        /\ \/ /\ k = left[p]
              /\ pc' = WakeReaders(p, "idle")
              /\ left' = [left EXCEPT ![p] = 0]
           \/ /\ k < left[p] /\ (~readopen \/ killed[p])
              /\ pc' = [pc EXCEPT ![p] = "idle"]
              /\ left' = [left EXCEPT ![p] = 0]
           \/ /\ k < left[p] /\ readopen /\ ~killed[p]
              /\ pc' = WakeReaders(p, "wsleep")
              /\ left' = [left EXCEPT ![p] = @ - k]
        /\ UNCHANGED <<nread, ends, killed>>
    BY <1>3 DEF PipeWrite
  <2> HIDE DEF k
  <2>4. data' \in [0 .. PIPESIZE - 1 -> Bytes]
    BY <1>0, <2>1, <2>2, StoredType DEF TypeOK
  <2>5. TypeOK'
    <3>1. left' \in [Procs -> 0 .. MaxN]
      <4>1. left[p] - k \in 0 .. MaxN \/ k > left[p]
        BY <1>0, <2>1 DEF TypeOK
      <4> QED BY <1>0, <2>1, <2>3, <4>1 DEF TypeOK
    <3>2. pc' \in [Procs -> {"idle", "write", "wsleep", "read", "rsleep"}]
      BY <1>0, <2>3 DEF TypeOK, WakeReaders, Wakeup
    <3> QED BY <1>0, <2>1, <2>3, <2>4, <3>1, <3>2 DEF TypeOK
  <2>6. \A q \in Procs : pc'[q] = "rsleep" => pc[q] = "rsleep" /\ (Count' = 0 \/ killed[p])
    BY <1>0, <2>3 DEF TypeOK, WakeReaders, Wakeup, PipeInv, NoMissedWakeup
  <2>7. \A q \in Procs : pc'[q] = "wsleep" => Count' = PIPESIZE /\ readopen /\ ~killed[q]
    BY <1>0, <2>1, <2>3 DEF TypeOK, WakeReaders, Wakeup, PipeInv, NoMissedWakeup
  <2>8. NoMissedWakeup'
    BY <2>3, <2>5, <2>6, <2>7 DEF PipeInv, NoMissedWakeup
  <2> QED BY <1>0, <2>1, <2>3, <2>8 DEF PipeInv, TypeOK, WakeReaders, Wakeup
<1>4. ASSUME NEW p \in Procs, ReadWait(p) PROVE PipeInv'
  <2>1. Count' = Count /\ Count = 0
    BY <1>0, <1>4, CountIs DEF ReadWait, Count, TypeOK
  <2> QED BY <1>0, <1>4, <2>1 DEF ReadWait, PipeInv, NoMissedWakeup, TypeOK
<1>5. ASSUME NEW p \in Procs, PipeRead(p) PROVE PipeInv'
  <2>1. Count' <= Count /\ Count' \in Nat /\ nread' \in 0 .. WORD - 1
    <3> DEFINE k == Min({left[p], Count})
    <3>1. k \in 0 .. Count /\ nread' \in 0 .. WORD - 1 /\ Count' = Count - k
      BY <1>5, ReadCount
    <3> HIDE DEF k
    <3> QED BY <1>0, <3>1
  <2>2. /\ pc' = WakeWriters(p, "idle") /\ left' = [left EXCEPT ![p] = 0]
        /\ UNCHANGED <<data, nwrite, ends, killed>>
    BY <1>5 DEF PipeRead
  <2>3. TypeOK'
    BY <1>0, <2>1, <2>2 DEF TypeOK, WakeWriters, Wakeup
  <2>4. NoMissedWakeup'
    BY <1>0, <2>1, <2>2, <2>3 DEF TypeOK, WakeWriters, Wakeup, PipeInv, NoMissedWakeup
  <2> QED BY <1>0, <2>1, <2>2, <2>4 DEF PipeInv, TypeOK, WakeWriters, Wakeup
<1>6. ASSUME NEW p \in Procs, CloseWrite(p) PROVE PipeInv'
  <2>1. Count' = Count
    BY <1>6 DEF CloseWrite, Count
  <2> QED BY <1>0, <1>6, <2>1, Zenon DEF CloseWrite, WakeReaders, Wakeup, PipeInv,
             NoMissedWakeup, TypeOK
<1>7. ASSUME NEW p \in Procs, CloseRead(p) PROVE PipeInv'
  <2>1. Count' = Count
    BY <1>7 DEF CloseRead, Count
  <2> QED BY <1>0, <1>7, <2>1, Zenon DEF CloseRead, WakeWriters, Wakeup, PipeInv,
             NoMissedWakeup, TypeOK
<1>8. ASSUME NEW p \in Procs, NEW q \in Procs, Fork(p, q) PROVE PipeInv'
  <2>1. Count' = Count
    BY <1>8 DEF Fork, Count
  <2> QED BY <1>0, <1>8, <2>1 DEF Fork, PipeInv, NoMissedWakeup, TypeOK
<1>9. ASSUME NEW p \in Procs, Kill(p) PROVE PipeInv'
  <2>1. Count' = Count
    BY <1>9 DEF Kill, Count
  <2> QED BY <1>0, <1>9, <2>1 DEF Kill, PipeInv, NoMissedWakeup, TypeOK
<1>10. CASE UNCHANGED vars
  BY <1>10 DEF vars, PipeInv, NoMissedWakeup, TypeOK, Count
<1> QED
  BY <1>1, <1>2, <1>3, <1>4, <1>5, <1>6, <1>7, <1>8, <1>9, <1>10 DEF Next, InCall

\* pipealloc() makes an empty ring with both ends open.
LEMMA PipeStart == Init => PipeInv
<1> SUFFICES ASSUME Init PROVE PipeInv
  OBVIOUS
<1>1. nread = 0 /\ nwrite = 0 /\ 0 \in 0 .. WORD - 1 /\ 0 \in 0 .. MaxN
  BY Sizes DEF Init
<1>2. Count = 0
  BY <1>1, CountIs
<1> QED BY <1>1, <1>2, Sizes DEF Init, PipeInv, NoMissedWakeup, TypeOK

\* Nobody sleeps in a pipe without a reason, for any number of readers and
\* writers.
THEOREM PipeWakeups == Spec => []NoMissedWakeup
<1>1. PipeInv => NoMissedWakeup
  BY DEF PipeInv
<1> QED BY <1>1, PipeStart, PipeStep, PTL DEF Spec

----------------------------------------------------------------------------
(* The ring is a queue.                                                     *)

\* The place of a byte does not depend on whether its counter has wrapped.
LEMMA Wrap ==
  ASSUME NEW a \in Nat
  PROVE  (a + WORD) % PIPESIZE = a % PIPESIZE
<1>1. PICK m \in Nat : WORD = PIPESIZE * m + (WORD % PIPESIZE)
  BY DivMod, Sizes, Zenon
<1>2. WORD = PIPESIZE * m
  BY <1>1, PipeAssumption
<1>3. (a + PIPESIZE * m) % PIPESIZE = a % PIPESIZE
  BY ModPlus, Sizes, Zenon
<1> QED BY <1>2, <1>3

\* The next byte is written behind the last one that was not yet read.
LEMMA WritePlace ==
  ASSUME TypeOK, NEW j \in Nat \ {0}
  PROVE  (nread + Count + j - 1) % PIPESIZE = (nwrite + j - 1) % PIPESIZE
<1> DEFINE a == nwrite + j - 1
<1>1. nread \in 0 .. WORD - 1 /\ nwrite \in 0 .. WORD - 1
  BY DEF TypeOK
<1>2. a \in Nat /\ (nread + Count + j - 1 = a \/ nread + Count + j - 1 = a + WORD)
  BY <1>1, CountIs, Sizes
<1> HIDE DEF a
<1>3. (a + WORD) % PIPESIZE = a % PIPESIZE
  BY <1>2, Wrap
<1>4. (nread + Count + j - 1) % PIPESIZE = a % PIPESIZE
  BY <1>2, <1>3
<1> QED BY <1>4 DEF a

\* A byte waiting to be read is not overwritten.
LEMMA NotOverwritten ==
  ASSUME TypeOK, Count \in 0 .. PIPESIZE, NEW k \in 0 .. PIPESIZE - Count,
         NEW i \in 1 .. Count, NEW j \in 1 .. k
  PROVE  (nwrite + j - 1) % PIPESIZE # (nread + i - 1) % PIPESIZE
<1> DEFINE a == nread + i - 1
           b == nread + Count + j - 1
<1>1. a \in Nat /\ b \in Nat /\ a < b /\ b < a + PIPESIZE
  BY Sizes DEF TypeOK
<1>2. j \in Nat \ {0}
  BY Sizes
<1>3. b % PIPESIZE = (nwrite + j - 1) % PIPESIZE
  BY <1>2, WritePlace
<1> HIDE DEF a, b
<1>4. ASSUME a % PIPESIZE = b % PIPESIZE PROVE FALSE
  <2>1. a <= b /\ a # b
    BY <1>1
  <2> QED BY <1>1, <1>4, <2>1, ModInj, Sizes, Zenon
<1> QED BY <1>3, <1>4 DEF a

\* The bytes in the ring are a sequence.
LEMMA ContentsSeq ==
  ASSUME TypeOK
  PROVE  contents \in Seq(Bytes) /\ Len(contents) = Count
<1>1. Count \in Nat
  BY CountIs, Sizes DEF TypeOK
<1>2. \A i \in 1 .. Count : (nread + i - 1) % PIPESIZE \in 0 .. PIPESIZE - 1
  <2> SUFFICES ASSUME NEW i \in 1 .. Count PROVE (nread + i - 1) % PIPESIZE \in 0 .. PIPESIZE - 1
    OBVIOUS
  <2>1. nread + i - 1 \in Nat
    BY <1>1, Sizes DEF TypeOK
  <2> QED BY <2>1, DivMod, Sizes, Zenon
<1>3. contents \in [1 .. Count -> Bytes]
  BY <1>2 DEF contents, TypeOK
<1> QED BY <1>1, <1>3

\* A write appends its bytes.
LEMMA WriteAppends ==
  ASSUME PipeInv, NEW p \in Procs, PipeWrite(p)
  PROVE  contents' = contents \/ Fifo!FifoWrite
<1> DEFINE k == Min({left[p], Room})
<1>1. /\ k \in 0 .. PIPESIZE - Count
      /\ Count' = Count + k
  BY WriteCount
<1>2. PICK s \in [1 .. k -> Bytes] : data' = Stored(s, k)
  BY Zenon DEF PipeWrite
<1>3. nread' = nread
  BY DEF PipeWrite
<1> HIDE DEF k
<1>4. TypeOK /\ Count \in 0 .. PIPESIZE /\ PIPESIZE \in Nat
  BY Sizes, CountIs DEF PipeInv, NoMissedWakeup, TypeOK
<1>5. k \in 0 .. PIPESIZE
  BY <1>1, <1>4
<1>6. ASSUME NEW i \in 1 .. Count PROVE contents'[i] = contents[i]
  <2> DEFINE d == (nread + i - 1) % PIPESIZE
  <2>1. nread + i - 1 \in Nat
    BY <1>4, Sizes DEF TypeOK
  <2>2. d \in 0 .. PIPESIZE - 1
    BY <2>1, DivMod, Sizes, Zenon
  <2>3. \A j \in 1 .. k : (nwrite + j - 1) % PIPESIZE # d
    BY <1>1, <1>4, NotOverwritten
  <2> HIDE DEF d
  <2>4. data'[d] = data[d]
    BY <1>2, <1>4, <1>5, <2>2, <2>3, StoredAt
  <2>5. i \in 1 .. Count'
    BY <1>1, <1>4
  <2> QED BY <1>3, <2>4, <2>5 DEF contents, d
<1>7. ASSUME NEW j \in 1 .. k PROVE contents'[Count + j] = s[j]
  <2> DEFINE d == (nwrite + j - 1) % PIPESIZE
  <2>1. nwrite + j - 1 \in Nat /\ j \in Nat \ {0}
    BY <1>5, Sizes DEF TypeOK, PipeInv, NoMissedWakeup
  <2>2. d \in 0 .. PIPESIZE - 1
    BY <2>1, DivMod, Sizes, Zenon
  <2>3. data'[d] = s[j]
    BY <1>2, <1>4, <1>5, <2>2, StoredAt
  <2>4. (nread + (Count + j) - 1) % PIPESIZE = d
    <3>1. nread + (Count + j) - 1 = nread + Count + j - 1
      BY <1>4, <2>1 DEF TypeOK
    <3> QED BY <1>4, <2>1, <3>1, WritePlace
  <2> HIDE DEF d
  <2>5. Count + j \in 1 .. Count'
    BY <1>1, <1>4
  <2> QED BY <1>3, <2>3, <2>4, <2>5 DEF contents
<1>8. contents' = [i \in 1 .. Count + k |-> contents'[i]]
  BY <1>1 DEF contents
<1>9. contents \in Seq(Bytes) /\ Len(contents) = Count /\ contents = [i \in 1 .. Count |-> contents[i]]
  BY <1>4, ContentsSeq DEF contents
<1>10. CASE k = 0
  BY <1>4, <1>6, <1>8, <1>9, <1>10
<1>11. CASE k # 0
  <2>1. s \in Seq(Bytes) /\ Len(s) = k
    BY <1>5
  <2>2. contents \o s = [i \in 1 .. Count + k |-> IF i <= Count THEN contents[i] ELSE s[i - Count]]
    <3>1. /\ contents \o s \in Seq(Bytes) /\ Len(contents \o s) = Count + k
          /\ \A i \in 1 .. Count + k : (contents \o s)[i] =
               IF i <= Count THEN contents[i] ELSE s[i - Count]
      BY <1>9, <2>1, ConcatProperties, ZenonT(30)
    <3>2. contents \o s \in [1 .. Count + k -> Bytes]
      BY <3>1, LenProperties, Zenon
    <3> QED BY <3>1, <3>2, Zenon
  <2>3. ASSUME NEW i \in 1 .. Count + k
        PROVE  contents'[i] = IF i <= Count THEN contents[i] ELSE s[i - Count]
    <3>1. CASE i <= Count
      BY <1>4, <1>6, <3>1
    <3>2. CASE ~(i <= Count)
      <4>1. i - Count \in 1 .. k /\ Count + (i - Count) = i
        BY <1>4, <1>5, <3>2
      <4> QED BY <1>7, <3>2, <4>1
    <3> QED BY <3>1, <3>2
  <2>4. contents' = contents \o s
    BY <1>8, <2>2, <2>3
  <2>5. k \in 1 .. PIPESIZE /\ Len(contents) + k <= PIPESIZE
    BY <1>1, <1>4, <1>9, <1>11
  <2> QED BY <2>4, <2>5, Zenon DEF Fifo!FifoWrite
<1> QED BY <1>10, <1>11

\* A read takes bytes from the front.
LEMMA ReadTakes ==
  ASSUME PipeInv, NEW p \in Procs, PipeRead(p)
  PROVE  contents' = contents \/ Fifo!FifoRead
<1> DEFINE k == Min({left[p], Count})
<1>1. /\ k \in 0 .. Count
      /\ nread' = Advance(nread, k)
      /\ Count' = Count - k
  BY ReadCount
<1>2. data' = data
  BY DEF PipeRead
<1> HIDE DEF k
<1>3. TypeOK /\ Count \in 0 .. PIPESIZE /\ PIPESIZE \in Nat
  BY Sizes, CountIs DEF PipeInv, NoMissedWakeup, TypeOK
<1>4. nread \in 0 .. WORD - 1 /\ k \in 0 .. WORD - 1
  BY <1>1, <1>3, Sizes DEF TypeOK
<1>5. nread' \in Nat /\ (nread + k = nread' \/ nread + k = nread' + WORD)
  BY <1>1, <1>4, AdvanceIs, Sizes
<1>6. ASSUME NEW i \in 1 .. Count - k PROVE contents'[i] = contents[i + k]
  <2> DEFINE a == nread' + i - 1
  <2>1. a \in Nat /\ (nread + (i + k) - 1 = a \/ nread + (i + k) - 1 = a + WORD)
    BY <1>1, <1>3, <1>4, <1>5, Sizes
  <2> HIDE DEF a
  <2>2. (a + WORD) % PIPESIZE = a % PIPESIZE
    BY <2>1, Wrap
  <2>3. (nread + (i + k) - 1) % PIPESIZE = a % PIPESIZE
    BY <2>1, <2>2
  <2>4. i \in 1 .. Count' /\ i + k \in 1 .. Count
    BY <1>1, <1>3
  <2>5. contents'[i] = data[a % PIPESIZE]
    BY <1>2, <2>4 DEF contents, a
  <2> QED BY <2>3, <2>4, <2>5 DEF contents
<1>7. contents' = [i \in 1 .. Count - k |-> contents'[i]]
  BY <1>1 DEF contents
<1>8. contents \in Seq(Bytes) /\ Len(contents) = Count /\ contents = [i \in 1 .. Count |-> contents[i]]
  BY <1>3, ContentsSeq DEF contents
<1>9. CASE k = 0
  <2>1. \A i \in 1 .. Count : contents'[i] = contents[i]
    BY <1>3, <1>6, <1>9
  <2> QED BY <1>3, <1>7, <1>8, <1>9, <2>1
<1>10. CASE k # 0
  <2>1. SubSeq(contents, k + 1, Len(contents)) = [i \in 1 .. Count - k |-> contents[i + k]]
    BY <1>1, <1>3, <1>8
  <2>2. contents' = SubSeq(contents, k + 1, Len(contents))
    BY <1>6, <1>7, <2>1
  <2>3. k \in 1 .. Len(contents)
    BY <1>1, <1>3, <1>8, <1>10
  <2> QED BY <2>2, <2>3 DEF Fifo!FifoRead
<1> QED BY <1>9, <1>10

\* The other steps leave the ring alone.
LEMMA FifoStep == PipeInv /\ [Next]_vars => [Fifo!FifoWrite \/ Fifo!FifoRead]_contents
<1> SUFFICES ASSUME PipeInv, [Next]_vars, contents' # contents
             PROVE  Fifo!FifoWrite \/ Fifo!FifoRead
  OBVIOUS
<1>1. ~(UNCHANGED ring)
  BY DEF ring, contents, Count
<1>2. PICK p \in Procs : PipeWrite(p) \/ PipeRead(p)
  BY <1>1 DEF Next, InCall, WriteCall, ReadCall, ReadWait, CloseWrite, CloseRead, Kill, Fork,
              vars, ring
<1> QED BY <1>2, WriteAppends, ReadTakes

\* For any size of the ring, any width of the counters that it divides, and
\* any number of processes, the pipe is a first-in first-out queue of bytes.
THEOREM PipeImplementsFifo == Spec => ImplementsFifo
<1>1. Init => PipeInv
  BY PipeStart
<1>2. Init => Fifo!FifoInit
  <2> SUFFICES ASSUME Init PROVE contents = << >>
    BY DEF Fifo!FifoInit
  <2>1. Count = 0
    BY CountIs, Sizes DEF Init
  <2> QED BY <2>1 DEF contents
<1> QED BY <1>1, <1>2, PipeStep, FifoStep, PTL DEF Spec, ImplementsFifo, Fifo!FifoSpec
=============================================================================
