--------------------------- MODULE FileSysProofs ---------------------------
(***************************************************************************)
(* Proofs about FileSys, for any processes, inodes, names, paths and       *)
(* initial trees: the reference counts, the inode locks and the inode      *)
(* cache.                                                                  *)
(***************************************************************************)
EXTENDS FileSys, FiniteSetTheorems, TLAPS

\* Is the process in iput()?
InIput(s) == s.pc \in {"put", "free", "drop"}

Ptrs == {"cwd", "fd", "ip", "dp", "put"}
Locals == [pc : Labels, call : Calls \cup {None}, new : LinkPaths \cup {<<>>},
           rest : Seq(Elems), ip : Inums \cup {0}, dp : Inums \cup {0},
           put : Inums \cup {0}, ret : Labels]

InodeTypes ==
  /\ disk \in [Inums -> Dinode] /\ mem \in [Inums -> Dinode]
  /\ ref \in [Inums -> Int] /\ valid \in [Inums -> BOOLEAN]

TypeInv ==
  /\ InodeTypes
  /\ ents \in [Inums -> Entries]
  /\ lock \in [Inums -> Procs \cup {None}]
  /\ cwd \in [Procs -> Inums] /\ fd \in [Procs -> Inums \cup {0}]
  /\ st \in [Procs -> Locals]
  /\ calls \in 0 .. MaxCalls /\ panic \in BOOLEAN /\ strayed \in BOOLEAN

\* The inode locks that a call holds: outside iput(), and with iput()'s.
CallLocks(s, i) ==
  \/ Where(s) \in {"init", "unlink", "unlinkbad", "linkfail"} /\ s.dp = i
  \/ Where(s) \in {"created", "unlinked"} /\ s.ip = i
Locks(s, i) == (s.pc = "free" /\ s.put = i) \/ CallLocks(s, i)

\* Which local variables of a call point to an inode, at each of its labels.
Shape(s) ==
  LET w == Where(s) IN
  /\ InIput(s) <=> s.put # 0
  /\ ~InIput(s) => s.ret = "user"
  /\ w \notin {"put", "free", "drop"}
  /\ s.ip # 0 <=> \/ w \in {"found", "chdir", "new", "exists", "init", "created", "linked",
                            "bad", "linkfail", "unlink", "unlinked"}
                  \/ w \in {"walk", "parent"} /\ s.call = "link" /\ s.ip # 0
  /\ s.dp # 0 <=> w \in {"walk", "parent", "init", "linkfail", "unlink", "unlinkbad"}
  /\ w \in {"walk", "parent", "init", "unlink"} => s.rest # <<>>
  /\ w = "parent" => Nameiparent(s)
  /\ w \in {"found", "new"} => s.call \notin Creates \cup {"unlink"}
  /\ w \in {"exists", "init", "created"} => s.call \in Creates
  /\ w \in {"linkfail", "bad", "new"} => s.call = "link"
  /\ s.call = "link" /\ (w \in {"found", "new"} \/ (w = "walk" /\ s.ip = 0)) => s.new \in LinkPaths
  /\ w \in {"unlink", "unlinked"} => s.call = "unlink"
  /\ w = "init" => s.ip # s.dp
  /\ s.pc = "free" => ~CallLocks(s, s.put)
ShapeInv == \A p \in Procs : Shape(st[p])

LockInv == \A i \in Inums, p \in Procs : lock[i] = p <=> Locks(st[p], i)

Coherent == \A i \in Inums : valid[i] => mem[i] = disk[i] /\ disk[i].type # "free"
RefInv == \A i \in Inums : ref[i] = Cardinality(Refs(i))

\* The inductive invariant.
Inv == TypeInv /\ ShapeInv /\ LockInv /\ Coherent /\ RefInv

----------------------------------------------------------------------------
(* Counting pointers.                                                       *)

One(x, i) == IF x = i THEN 1 ELSE 0

\* The pointers to i of a process with local variables s, current directory c
\* and open file f, and their number.
PtrsTo(s, c, f, i) ==
  {x \in Ptrs : CASE x = "cwd" -> c = i /\ Where(s) # "chdir"
                  [] x = "fd" -> f = i
                  [] OTHER -> s[x] = i}
Points(s, c, f, i) ==
  (IF Where(s) = "chdir" THEN 0 ELSE One(c, i)) + One(f, i) + One(s.ip, i) + One(s.dp, i)
    + One(s.put, i)

\* Adding one element to a finite set, or nothing, counts one more or none.
LEMMA CountOne ==
  ASSUME NEW S, IsFiniteSet(S), NEW x, x \notin S, NEW T, NEW b \in BOOLEAN,
         T = IF b THEN S \cup {x} ELSE S
  PROVE  IsFiniteSet(T) /\ Cardinality(T) = Cardinality(S) + (IF b THEN 1 ELSE 0)
<1>1. Cardinality(S) \in Nat
  BY FS_CardinalityType, Zenon
<1>2. CASE b
  BY <1>1, <1>2, FS_AddElement, Zenon
<1>3. CASE ~b
  BY <1>1, <1>3
<1> QED
  BY <1>2, <1>3, Zenon

\* The pointers of a process to an inode are as many as Points says.
LEMMA PtrsCount ==
  ASSUME NEW s, NEW c, NEW f, NEW i
  PROVE  /\ IsFiniteSet(PtrsTo(s, c, f, i))
         /\ Cardinality(PtrsTo(s, c, f, i)) = Points(s, c, f, i)
<1> DEFINE K == PtrsTo(s, c, f, i)
           K1 == K \cap {"cwd"}
           K2 == K \cap {"cwd", "fd"}
           K3 == K \cap {"cwd", "fd", "ip"}
           K4 == K \cap {"cwd", "fd", "ip", "dp"}
           b1 == c = i /\ Where(s) # "chdir"
           b2 == f = i
           b3 == s.ip = i
           b4 == s.dp = i
           b5 == s.put = i
<1>0. IsFiniteSet({}) /\ Cardinality({}) = 0
  BY FS_EmptySet, Zenon
<1>1. /\ K1 = IF b1 THEN {} \cup {"cwd"} ELSE {}
      /\ K2 = IF b2 THEN K1 \cup {"fd"} ELSE K1
      /\ K3 = IF b3 THEN K2 \cup {"ip"} ELSE K2
      /\ K4 = IF b4 THEN K3 \cup {"dp"} ELSE K3
      /\ K = IF b5 THEN K4 \cup {"put"} ELSE K4
  BY Zenon DEF PtrsTo, Ptrs
<1>2. "fd" \notin K1 /\ "ip" \notin K2 /\ "dp" \notin K3 /\ "put" \notin K4
  BY Zenon
<1> HIDE DEF K, K1, K2, K3, K4, b1, b2, b3, b4, b5
<1>b. b1 \in BOOLEAN /\ b2 \in BOOLEAN /\ b3 \in BOOLEAN /\ b4 \in BOOLEAN /\ b5 \in BOOLEAN
  BY Zenon DEF b1, b2, b3, b4, b5
<1>3. IsFiniteSet(K1) /\ Cardinality(K1) = 0 + (IF b1 THEN 1 ELSE 0)
  BY <1>0, <1>1, <1>b, CountOne, ZenonT(30)
<1>4. IsFiniteSet(K2) /\ Cardinality(K2) = Cardinality(K1) + (IF b2 THEN 1 ELSE 0)
  BY <1>1, <1>2, <1>3, <1>b, CountOne
<1>5. IsFiniteSet(K3) /\ Cardinality(K3) = Cardinality(K2) + (IF b3 THEN 1 ELSE 0)
  BY <1>1, <1>2, <1>4, <1>b, CountOne
<1>6. IsFiniteSet(K4) /\ Cardinality(K4) = Cardinality(K3) + (IF b4 THEN 1 ELSE 0)
  <2>1. K4 = IF b4 THEN K3 \cup {"dp"} ELSE K3
    BY <1>1, Zenon
  <2> QED
    BY <2>1, <1>2, <1>5, <1>b, CountOne, Zenon
<1>7. IsFiniteSet(K) /\ Cardinality(K) = Cardinality(K4) + (IF b5 THEN 1 ELSE 0)
  BY <1>1, <1>2, <1>6, <1>b, CountOne
<1>8. Cardinality(K) = (IF b1 THEN 1 ELSE 0) + (IF b2 THEN 1 ELSE 0) + (IF b3 THEN 1 ELSE 0)
                         + (IF b4 THEN 1 ELSE 0) + (IF b5 THEN 1 ELSE 0)
  BY <1>3, <1>4, <1>5, <1>6, <1>7
<1> QED
  BY <1>7, <1>8, Zenon DEF K, b1, b2, b3, b4, b5, Points, One

\* The pointers to i are those of p and those of the others.
OthersTo(p, i) == {h \in Refs(i) : h[1] # p}

Split(p, i) ==
  /\ IsFiniteSet(Refs(i)) /\ IsFiniteSet(OthersTo(p, i))
  /\ Cardinality(Refs(i)) = Cardinality(OthersTo(p, i)) + Points(st[p], cwd[p], fd[p], i)

AllSplit == \A p \in Procs, i \in Inums : Split(p, i)

\* Of the pointers to an inode, those of a process are as many as Points says.
LEMMA RefsSplit == AllSplit
<1> SUFFICES ASSUME NEW p \in Procs, NEW i \in Inums
             PROVE  Split(p, i)
  BY Zenon DEF AllSplit
<1> USE DEF Split
<1> DEFINE K == PtrsTo(st[p], cwd[p], fd[p], i)
           M == {p} \X K
<1>1. IsFiniteSet(Ptrs)
  <2>1. IsFiniteSet({"cwd"})
    BY FS_Singleton, Zenon
  <2>2. IsFiniteSet({"cwd"} \cup {"fd"})
    BY <2>1, FS_AddElement, Zenon
  <2>3. IsFiniteSet(({"cwd"} \cup {"fd"}) \cup {"ip"})
    BY <2>2, FS_AddElement, Zenon
  <2>4. IsFiniteSet((({"cwd"} \cup {"fd"}) \cup {"ip"}) \cup {"dp"})
    BY <2>3, FS_AddElement, Zenon
  <2>5. IsFiniteSet(((({"cwd"} \cup {"fd"}) \cup {"ip"}) \cup {"dp"}) \cup {"put"})
    BY <2>4, FS_AddElement, Zenon
  <2>6. Ptrs = ((({"cwd"} \cup {"fd"}) \cup {"ip"}) \cup {"dp"}) \cup {"put"}
    BY Zenon DEF Ptrs
  <2> QED
    BY <2>5, <2>6, Zenon
<1>2. IsFiniteSet(Procs \X Ptrs)
  BY <1>1, FS_Product, FileSysAssumption, Zenon
<1>3. Refs(i) \subseteq Procs \X Ptrs
  BY Zenon DEF Refs, Ptrs
<1>4. IsFiniteSet(Refs(i)) /\ IsFiniteSet(OthersTo(p, i))
  BY <1>2, <1>3, FS_Subset, Zenon DEF OthersTo
<1>5. M = Refs(i) \ OthersTo(p, i)
  <2>1. ASSUME NEW x \in K PROVE <<p, x>> \in Refs(i)
    BY <2>1, Zenon DEF Refs, PtrsTo, Ptrs
  <2>2. ASSUME NEW h \in Refs(i), h[1] = p PROVE h \in M
    <3>1. h = <<p, h[2]>> /\ h[2] \in Ptrs
      BY <1>3, <2>2
    <3>2. h[2] \in K
      BY <2>2, <3>1, Zenon DEF Refs, PtrsTo, Ptrs
    <3> QED
      BY <3>1, <3>2
  <2> QED
    BY <2>1, <2>2 DEF OthersTo
<1>6. IsFiniteSet(K) /\ Cardinality(K) = Points(st[p], cwd[p], fd[p], i)
  BY PtrsCount, Zenon
<1>7. IsFiniteSet(M) /\ Cardinality(M) = Cardinality(K)
  <2>1. IsFiniteSet({p}) /\ Cardinality({p}) = 1
    BY FS_Singleton, Zenon
  <2>2. IsFiniteSet(M) /\ Cardinality(M) = 1 * Cardinality(K)
    BY <2>1, <1>6, FS_Product, Zenon
  <2> QED
    BY <2>2, <1>6, FS_CardinalityType
<1>8. Refs(i) = OthersTo(p, i) \cup M /\ OthersTo(p, i) \cap M = {}
  BY <1>5, Zenon DEF OthersTo
<1>9. Cardinality(Refs(i)) = Cardinality(OthersTo(p, i)) + Cardinality(M) - Cardinality({})
  BY <1>4, <1>7, <1>8, FS_Union
<1> HIDE DEF M, K
<1> QED
  BY <1>4, <1>6, <1>7, <1>9, FS_EmptySet, FS_CardinalityType

\* The same after a step.
LEMMA RefsSplitNext == AllSplit'
BY RefsSplit, PTL

----------------------------------------------------------------------------
(* What a step of p does, and that it keeps the invariant.                  *)

\* Only p's local variables, current directory and open file change.
Frame(p) ==
  /\ st'[p] \in Locals /\ Shape(st'[p])
  /\ st' = [st EXCEPT ![p] = st'[p]]
  /\ cwd' \in [Procs -> Inums] /\ fd' \in [Procs -> Inums \cup {0}]
  /\ \A q \in Procs \ {p} : cwd'[q] = cwd[q] /\ fd'[q] = fd[q]

\* The reference counts change as the number of p's pointers.
RefStep(p) ==
  /\ ref' \in [Inums -> Int]
  /\ \A i \in Inums : ref'[i] = ref[i] + Points(st'[p], cwd'[p], fd'[p], i)
                                      - Points(st[p], cwd[p], fd[p], i)

\* p gets a lock that is free and lets go one that it holds.
LockStep(p) ==
  /\ lock' \in [Inums -> Procs \cup {None}]
  /\ \A i \in Inums :
       /\ Locks(st'[p], i) => lock'[i] = p /\ (Locks(st[p], i) \/ lock[i] = None)
       /\ ~Locks(st'[p], i) => lock'[i] = IF Locks(st[p], i) THEN None ELSE lock[i]

\* The inodes keep their types, and the cache agrees with the disk.
InodeStep == InodeTypes' /\ Coherent' /\ ents' \in [Inums -> Entries]

RestStep ==
  /\ calls' \in 0 .. MaxCalls /\ panic' \in BOOLEAN
  /\ strayed' \in BOOLEAN /\ (strayed => strayed')

\* A step of p that changes the counts and the locks as its pointers change.
Sound(p) == Frame(p) /\ RefStep(p) /\ LockStep(p) /\ InodeStep /\ RestStep

\* One counts, and no inode has number 0.
LEMMA OneFacts ==
  /\ \A x, i : One(x, i) \in Int
  /\ \A i \in Inums : One(0, i) = 0
<1>1. 0 \notin Inums
  BY FileSysAssumption, Zenon
<1>2. \A x, i : One(x, i) \in Int
  BY DEF One
<1> QED
  BY <1>1, <1>2, Zenon DEF One

\* p comes to have a pointer to i; iput() takes one over from ip or dp; both, when
\* namex() goes on from dp to i.
Gets(s, t, i) ==
  /\ Where(s) # "chdir" /\ Where(t) # "chdir"
  /\ \/ s.ip = 0 /\ t.ip = i /\ t.dp = s.dp /\ t.put = s.put
     \/ s.dp = 0 /\ t.dp = i /\ t.ip = s.ip /\ t.put = s.put
     \/ s.put = 0 /\ t.put = i /\ t.ip = s.ip /\ t.dp = s.dp
Moves(s, t) ==
  /\ Where(s) # "chdir" /\ Where(t) # "chdir" /\ s.put = 0
  /\ \/ t.put = s.ip /\ t.ip = 0 /\ t.dp = s.dp
     \/ t.put = s.dp /\ t.dp = 0 /\ t.ip = s.ip
MovesGets(s, t, i) ==
  /\ Where(s) # "chdir" /\ Where(t) # "chdir" /\ s.put = 0 /\ t.put = s.dp
  /\ \/ t.dp = i /\ t.ip = s.ip
     \/ t.dp = 0 /\ t.ip = i /\ s.ip = 0

\* One local variable more points to i.
LEMMA PointsGet ==
  ASSUME NEW s, NEW t, NEW c, NEW f, NEW i, Gets(s, t, i)
  PROVE  \A k \in Inums : Points(t, c, f, k) = Points(s, c, f, k) + One(i, k)
<1> SUFFICES ASSUME NEW k \in Inums PROVE Points(t, c, f, k) = Points(s, c, f, k) + One(i, k)
  BY Zenon
<1>1. /\ One(0, k) = 0 /\ One(i, k) \in Int /\ One(c, k) \in Int /\ One(f, k) \in Int
      /\ One(s.ip, k) \in Int /\ One(s.dp, k) \in Int /\ One(s.put, k) \in Int
  BY OneFacts, Zenon
<1> QED
  BY <1>1 DEF Points, Gets

\* A pointer moves to put, where iput() takes it.
LEMMA PointsMove ==
  ASSUME NEW s, NEW t, NEW c, NEW f, Moves(s, t)
  PROVE  \A k \in Inums : Points(t, c, f, k) = Points(s, c, f, k)
<1> SUFFICES ASSUME NEW k \in Inums PROVE Points(t, c, f, k) = Points(s, c, f, k)
  BY Zenon
<1>1. /\ One(0, k) = 0 /\ One(c, k) \in Int /\ One(f, k) \in Int
      /\ One(s.ip, k) \in Int /\ One(s.dp, k) \in Int
  BY OneFacts, Zenon
<1> QED
  BY <1>1 DEF Points, Moves

\* dp moves to put, and i is a new ip or dp.
LEMMA PointsMoveGet ==
  ASSUME NEW s, NEW t, NEW c, NEW f, NEW i, MovesGets(s, t, i)
  PROVE  \A k \in Inums : Points(t, c, f, k) = Points(s, c, f, k) + One(i, k)
<1> SUFFICES ASSUME NEW k \in Inums PROVE Points(t, c, f, k) = Points(s, c, f, k) + One(i, k)
  BY Zenon
<1>1. /\ One(0, k) = 0 /\ One(c, k) \in Int /\ One(f, k) \in Int /\ One(i, k) \in Int
      /\ One(s.ip, k) \in Int /\ One(s.dp, k) \in Int
  BY OneFacts, Zenon
<1> QED
  BY <1>1 DEF Points, MovesGets

\* The number of pointers is a number.
LEMMA PointsInt ==
  ASSUME NEW s, NEW c, NEW f, NEW i
  PROVE  Points(s, c, f, i) \in 0 .. 5
BY DEF Points, One

\* Such a step keeps the reference counts right.
LEMMA SoundRefs ==
  ASSUME Inv, NEW p \in Procs, Frame(p), RefStep(p)
  PROVE  RefInv'
<1> SUFFICES ASSUME NEW i \in Inums
             PROVE  ref'[i] = Cardinality(Refs(i)')
  BY Zenon DEF RefInv
<1>1. OthersTo(p, i)' = OthersTo(p, i)
  <2>1. ASSUME NEW q \in Procs \ {p}
        PROVE  st'[q] = st[q] /\ cwd'[q] = cwd[q] /\ fd'[q] = fd[q]
    BY Zenon DEF Frame, Inv, TypeInv
  <2> QED
    BY <2>1 DEF OthersTo, Refs
<1>3. Split(p, i) /\ Split(p, i)'
  BY RefsSplitNext, RefsSplit, Zenon DEF AllSplit
<1>4. Cardinality(OthersTo(p, i)) \in Nat
  BY <1>3, FS_CardinalityType, Zenon DEF Split
<1>5. ref[i] = Cardinality(OthersTo(p, i)) + Points(st[p], cwd[p], fd[p], i)
  BY <1>3, Zenon DEF Inv, RefInv, Split
<1>6. Cardinality(Refs(i)') = Cardinality(OthersTo(p, i)) + Points(st'[p], cwd'[p], fd'[p], i)
  BY <1>3, <1>1, ZenonT(30) DEF Split
<1>7. ref'[i] = ref[i] + Points(st'[p], cwd'[p], fd'[p], i) - Points(st[p], cwd[p], fd[p], i)
  BY Zenon DEF RefStep
<1> QED
  BY <1>4, <1>5, <1>6, <1>7, PointsInt

\* Such a step keeps the locks with the calls that hold them.
LEMMA SoundLocks ==
  ASSUME Inv, NEW p \in Procs, Frame(p), LockStep(p)
  PROVE  LockInv'
<1> SUFFICES ASSUME NEW i \in Inums, NEW q \in Procs
             PROVE  lock'[i] = q <=> Locks(st'[q], i)
  BY Zenon DEF LockInv
<1>0. None \notin Procs
  BY FileSysAssumption, Zenon
<1>1. /\ lock[i] = q <=> Locks(st[q], i)
      /\ lock[i] = p <=> Locks(st[p], i)
  BY Zenon DEF Inv, LockInv
<1>2. CASE q = p
  BY <1>0, <1>1, <1>2, ZenonT(30) DEF LockStep
<1>3. CASE q # p
  <2>1. st'[q] = st[q]
    BY <1>3, Zenon DEF Frame, Inv, TypeInv
  <2> QED
    BY <1>0, <1>1, <1>3, <2>1 DEF LockStep
<1> QED
  BY <1>2, <1>3, Zenon

\* Such a step keeps the invariant.
LEMMA SoundInv ==
  ASSUME Inv, NEW p \in Procs, Sound(p)
  PROVE  Inv'
<1>1. TypeInv'
  BY Zenon DEF Sound, Frame, RefStep, LockStep, InodeStep, RestStep, Inv, TypeInv,
     InodeTypes
<1>2. ShapeInv'
  <2> SUFFICES ASSUME NEW q \in Procs PROVE Shape(st'[q])
    BY Zenon DEF ShapeInv
  <2>1. CASE q = p
    BY <2>1, Zenon DEF Sound, Frame
  <2>2. CASE q # p
    <3>1. st'[q] = st[q]
      BY <2>2, Zenon DEF Sound, Frame, Inv, TypeInv
    <3> QED
      BY <3>1, Zenon DEF Inv, ShapeInv
  <2> QED
    BY <2>1, <2>2, Zenon
<1> QED
  BY <1>1, <1>2, SoundRefs, SoundLocks, ZenonT(30) DEF Inv, Sound, InodeStep

----------------------------------------------------------------------------
(* The inode cache.                                                         *)

\* What ilock() finds is what the disk holds.
LEMMA CopyIs ==
  ASSUME Inv, NEW i \in Inums
  PROVE  /\ Copy(i) = disk[i] /\ disk[i] \in Dinode
         /\ NoType(i) <=> disk[i].type = "free"
BY Zenon DEF Inv, TypeInv, InodeTypes, Coherent, Copy, NoType

\* The cache after a step that changes link counts alike in it and on the disk.
LEMMA CachedSound ==
  ASSUME Inv, NEW i \in Inums \cup {0}, NEW J, NEW u, DOMAIN u \subseteq Inums,
         \A k \in DOMAIN u : u[k] \in Dinode /\ u[k].type = disk[k].type,
         i # 0 => ~NoType(i), Cached(i, J, u), Iupdate(u)
  PROVE  /\ InodeTypes' /\ Coherent'
         /\ \A k \in Inums : disk'[k] = IF k \in DOMAIN u THEN u[k] ELSE disk[k]
         /\ \A k \in Inums : ref'[k] = IF k \in J THEN ref[k] + 1 ELSE ref[k]
<1>0. /\ disk \in [Inums -> Dinode] /\ mem \in [Inums -> Dinode]
      /\ ref \in [Inums -> Int] /\ valid \in [Inums -> BOOLEAN]
  BY Zenon DEF Inv, TypeInv, InodeTypes
<1>1. \A k \in Inums : disk'[k] = IF k \in DOMAIN u THEN u[k] ELSE disk[k]
  BY Zenon DEF Iupdate, Updated
<1>2. disk' \in [Inums -> Dinode]
  BY <1>0, <1>1, Zenon DEF Iupdate, Updated
<1>3. \A k \in Inums : mem'[k] = IF k \in DOMAIN u THEN u[k]
                                 ELSE IF k = i THEN disk[k] ELSE mem[k]
  BY CopyIs, Zenon DEF Cached, Updated
<1>4. mem' \in [Inums -> Dinode]
  <2>1. mem' = [k \in Inums |-> mem'[k]]
    BY Zenon DEF Cached, Updated
  <2>2. \A k \in Inums : mem'[k] \in Dinode
    BY <1>0, <1>3, Zenon
  <2> QED
    BY <2>1, <2>2, Zenon
<1>5. ref' \in [Inums -> Int] /\ valid' \in [Inums -> BOOLEAN]
  BY <1>0 DEF Cached
<1>6. Coherent'
  <2> SUFFICES ASSUME NEW k \in Inums, valid'[k]
               PROVE  mem'[k] = disk'[k] /\ disk'[k].type # "free"
    BY Zenon DEF Coherent
  <2>1. k = i \/ valid[k]
    BY Zenon DEF Cached
  <2>2. disk[k].type # "free"
    <3>1. CASE k = i
      <4>1. i # 0
        BY <3>1, FileSysAssumption, ZenonT(30)
      <4> QED
        BY <3>1, <4>1, CopyIs, Zenon
    <3>2. CASE valid[k]
      BY <3>2, Zenon DEF Inv, Coherent
    <3> QED
      BY <2>1, <3>1, <3>2, ZenonT(30)
  <2>3. k # i => mem[k] = disk[k]
    BY <2>1, Zenon DEF Inv, Coherent
  <2> QED
    BY <1>1, <1>3, <2>2, <2>3, Zenon
<1> QED
  BY <1>1, <1>2, <1>4, <1>5, <1>6, ZenonT(30) DEF InodeTypes, Cached

\* A step that changes no link count.
LEMMA CachedOnly ==
  ASSUME Inv, NEW i \in Inums \cup {0}, NEW J, i # 0 => ~NoType(i),
         Cached(i, J, Nothing), UNCHANGED disk, ents' \in [Inums -> Entries]
  PROVE  /\ InodeStep /\ ref' \in [Inums -> Int]
         /\ \A k \in Inums : ref'[k] = IF k \in J THEN ref[k] + 1 ELSE ref[k]
<1>1. DOMAIN Nothing = {}
  BY Zenon DEF Nothing
<1>2. Iupdate(Nothing)
  BY <1>1, Zenon DEF Iupdate, Updated, Inv, TypeInv, InodeTypes
<1> HIDE DEF Nothing
<1>3. /\ InodeTypes' /\ Coherent'
      /\ \A k \in Inums : ref'[k] = IF k \in J THEN ref[k] + 1 ELSE ref[k]
  BY <1>1, <1>2, CachedSound, ZenonT(30)
<1> QED
  BY <1>3, Zenon DEF InodeStep, InodeTypes, Inv, TypeInv

----------------------------------------------------------------------------
(* iput().                                                                  *)

\* What is known of p's local variables.
LEMMA LocalFacts ==
  ASSUME Inv, NEW p \in Procs
  PROVE  /\ st[p] \in Locals /\ Shape(st[p]) /\ cwd[p] \in Inums /\ fd[p] \in Inums \cup {0}
         /\ 0 \notin Inums /\ ROOTINO \in Inums
         /\ \A i \in Inums : lock[i] = p <=> Locks(st[p], i)
BY FileSysAssumption, ZenonT(30) DEF Inv, TypeInv, ShapeInv, LockInv

\* So it is outside the kernel.
LEMMA IdleLocal ==
  /\ Idle \in Locals /\ Shape(Idle) /\ \A i \in Inums : ~Locks(Idle, i)
  /\ Idle.pc = "user" /\ Idle.ret = "user" /\ Idle.ip = 0 /\ Idle.dp = 0 /\ Idle.put = 0
<1>1. <<>> \in Seq(Elems)
  OBVIOUS
<1> QED
  BY <1>1, ZenonT(30) DEF Idle, Locals, Labels, Shape, Where, InIput, Nameiparent,
     CallLocks, Locks, None

\* The labels, one by one.
LEMMA LabelFacts ==
  /\ "user" \in Labels /\ "put" \in Labels /\ "free" \in Labels /\ "drop" \in Labels
  /\ "walk" \in Labels /\ "found" \in Labels /\ "chdir" \in Labels /\ "parent" \in Labels
  /\ "exists" \in Labels /\ "init" \in Labels /\ "created" \in Labels /\ "new" \in Labels
  /\ "linked" \in Labels /\ "linkfail" \in Labels /\ "bad" \in Labels /\ "unlink" \in Labels
  /\ "unlinked" \in Labels /\ "unlinkbad" \in Labels
BY Zenon DEF Labels

\* The local variables in iput(i), to go on at r.
LEMMA PutFields ==
  ASSUME NEW s \in Locals, NEW i \in Inums, NEW r \in Labels, NEW t, t = Put(s, i, r)
  PROVE  /\ t \in Locals /\ t.pc = "put" /\ t.put = i /\ t.ret = r /\ t.call = s.call
         /\ t.new = s.new /\ t.rest = s.rest /\ t.ip = s.ip /\ t.dp = s.dp
         /\ InIput(t) /\ Where(t) = r
<1>1. t \in Locals
  BY LabelFacts, Zenon DEF Put, Locals
<1>2. /\ t.pc = "put" /\ t.put = i /\ t.ret = r /\ t.call = s.call
      /\ t.new = s.new /\ t.rest = s.rest /\ t.ip = s.ip /\ t.dp = s.dp
  BY Zenon DEF Put, Locals
<1> QED
  BY <1>1, <1>2, ZenonT(30) DEF InIput, Where

\* A step that only moves p on, with its pointers and locks.
LEMMA SamePlace ==
  ASSUME Inv, UNCHANGED <<disk, ents, ref, valid, mem>>
  PROVE  InodeStep /\ ref' \in [Inums -> Int]
BY Zenon DEF InodeStep, InodeTypes, Coherent, Inv, TypeInv

\* References counted as the pointers change.
LEMMA GetRefs ==
  ASSUME Inv, NEW p \in Procs, NEW i, UNCHANGED <<cwd, fd>>, ref' \in [Inums -> Int],
         \A k \in Inums : ref'[k] = ref[k] + One(i, k),
         \A k \in Inums : Points(st'[p], cwd[p], fd[p], k)
                              = Points(st[p], cwd[p], fd[p], k) + One(i, k)
  PROVE  RefStep(p)
<1>1. ASSUME NEW k \in Inums
      PROVE  ref'[k] = ref[k] + Points(st'[p], cwd'[p], fd'[p], k) - Points(st[p], cwd[p], fd[p], k)
  <2>1. ref[k] \in Int /\ One(i, k) \in Int /\ Points(st[p], cwd[p], fd[p], k) \in 0 .. 5
    BY OneFacts, PointsInt, ZenonT(30) DEF Inv, TypeInv, InodeTypes
  <2>2. /\ ref'[k] = ref[k] + One(i, k)
        /\ Points(st'[p], cwd'[p], fd'[p], k) = Points(st[p], cwd[p], fd[p], k) + One(i, k)
    BY Zenon
  <2> QED
    BY <2>1, <2>2
<1> QED
  BY <1>1, Zenon DEF RefStep

\* A step that keeps the number of p's pointers to each inode keeps the counts.
LEMMA SameRefs ==
  ASSUME Inv, NEW p \in Procs, ref' \in [Inums -> Int],
         \A k \in Inums : ref'[k] = ref[k],
         \A k \in Inums : Points(st'[p], cwd'[p], fd'[p], k) = Points(st[p], cwd[p], fd[p], k)
  PROVE  RefStep(p)
<1>1. ASSUME NEW k \in Inums
      PROVE  ref'[k] = ref[k] + Points(st'[p], cwd'[p], fd'[p], k) - Points(st[p], cwd[p], fd[p], k)
  <2>1. ref[k] \in Int /\ Points(st[p], cwd[p], fd[p], k) \in 0 .. 5
    BY PointsInt, Zenon DEF Inv, TypeInv, InodeTypes
  <2> QED
    BY <2>1
<1> QED
  BY <1>1, Zenon DEF RefStep

\* iput(), first part, is sound: p gets the lock of an inode it alone points to, or
\* none.
LEMMA SoundPutLock ==
  ASSUME Inv, NEW p \in Procs, PutLock(p)
  PROVE  Sound(p)
<1> DEFINE s == st[p]
           t == st'[p]
<1>1. s \in Locals /\ Shape(s) /\ s.pc = "put"
  BY LocalFacts, Zenon DEF PutLock, At
<1>2. \E l \in {"free", "drop"} : t = [s EXCEPT !.pc = l] /\ st' = [st EXCEPT ![p] = t]
  BY Zenon DEF PutLock, Goto, Inv, TypeInv
<1>3. PICK l \in {"free", "drop"} : t = [s EXCEPT !.pc = l] /\ st' = [st EXCEPT ![p] = t]
  BY <1>2, Zenon
<1>4. /\ t \in Locals /\ t.pc = l /\ t.ret = s.ret /\ t.ip = s.ip /\ t.dp = s.dp /\ t.put = s.put
      /\ t.call = s.call /\ t.new = s.new /\ t.rest = s.rest
  BY <1>1, <1>3 DEF Locals, Labels
<1>5. Shape(t)
  <2>1. s.put \in Inums /\ lock[s.put] = None
    BY <1>1, Zenon DEF PutLock, Shape, InIput, Locals
  <2>2. ~CallLocks(s, s.put)
    <3>1. lock[s.put] # p
      BY <2>1, FileSysAssumption, Zenon
    <3> QED
      BY <2>1, <3>1, LocalFacts, ZenonT(30) DEF Locks
  <2>3. \A i : CallLocks(t, i) <=> CallLocks(s, i)
    BY <1>1, <1>4, Zenon DEF CallLocks, Where
  <2> QED
    BY <1>1, <1>4, <2>2, <2>3 DEF Shape, Where, InIput, Nameiparent
<1>6. \A i \in Inums : Points(t, cwd[p], fd[p], i) = Points(s, cwd[p], fd[p], i)
  BY <1>1, <1>4, Zenon DEF Points, Where
<1>7. \A i \in Inums : Locks(t, i) <=> (l = "free" /\ i = s.put) \/ Locks(s, i)
  BY <1>1, <1>4, Zenon DEF Locks, CallLocks, Where
<1>8. Frame(p)
  BY <1>3, <1>4, <1>5, ZenonT(30) DEF Frame, PutLock, Inv, TypeInv
<1>9. RefStep(p)
  BY <1>6, SamePlace, PointsInt DEF RefStep, PutLock, Inv, TypeInv, InodeTypes
<1>10. LockStep(p)
  <2>1. s.put \in Inums /\ lock[s.put] = None /\ lock \in [Inums -> Procs \cup {None}]
    BY <1>1, Zenon DEF PutLock, Shape, InIput, Locals, Inv, TypeInv
  <2>2. lock' = IF l = "free" THEN [lock EXCEPT ![s.put] = p] ELSE lock
    BY <1>1, <1>3, <1>4 DEF PutLock, Goto, Inv, TypeInv, Locals
  <2>3. \A i \in Inums : lock'[i] = IF l = "free" /\ i = s.put THEN p ELSE lock[i]
    BY <2>1, <2>2, Zenon
  <2>4. lock' \in [Inums -> Procs \cup {None}]
    BY <2>1, <2>2, ZenonT(30)
  <2> QED
    BY <1>7, <2>1, <2>3, <2>4, LocalFacts, Zenon DEF LockStep
<1> QED
  BY <1>8, <1>9, <1>10, SamePlace, ZenonT(30) DEF Sound, RestStep, PutLock, Inv, TypeInv

\* iput() that frees the inode is sound: it was valid, and is not any more.
LEMMA SoundPutFree ==
  ASSUME Inv, NEW p \in Procs, PutFree(p)
  PROVE  Sound(p)
<1> DEFINE s == st[p]
           t == st'[p]
           i == s.put
<1>1. s \in Locals /\ Shape(s) /\ s.pc = "free"
  BY LocalFacts, Zenon DEF PutFree, At
<1>2. i \in Inums
  BY <1>1, Zenon DEF Shape, InIput, Locals
<1>3. t = [s EXCEPT !.pc = "drop"] /\ st' = [st EXCEPT ![p] = t]
  BY Zenon DEF PutFree, Goto, Inv, TypeInv
<1>4. /\ t \in Locals /\ t.pc = "drop" /\ t.ret = s.ret /\ t.ip = s.ip /\ t.dp = s.dp
      /\ t.put = s.put /\ t.call = s.call /\ t.new = s.new /\ t.rest = s.rest
  BY <1>1, <1>3, ZenonT(30) DEF Locals, Labels
<1>5. Shape(t)
  BY <1>1, <1>4, ZenonT(30) DEF Shape, Where, InIput, Nameiparent, CallLocks
<1>6. \A k \in Inums : Points(t, cwd[p], fd[p], k) = Points(s, cwd[p], fd[p], k)
  BY <1>1, <1>4, Zenon DEF Points, Where
<1>7. \A k \in Inums : Locks(s, k) <=> k = i \/ Locks(t, k)
  BY <1>1, <1>4, Zenon DEF Locks, CallLocks, Where
<1>8. Frame(p)
  BY <1>3, <1>4, <1>5, Zenon DEF Frame, PutFree, Inv, TypeInv
<1>9. RefStep(p)
  BY <1>6, PointsInt DEF RefStep, PutFree, Inv, TypeInv, InodeTypes
<1>10. LockStep(p)
  <2>1. /\ lock \in [Inums -> Procs \cup {None}] /\ lock' = [lock EXCEPT ![i] = None]
        /\ ~Locks(t, i) /\ Locks(s, i)
    BY <1>1, <1>4, Zenon DEF PutFree, Inv, TypeInv, Shape, Locks, CallLocks, Where
  <2> QED
    BY <1>2, <1>7, <2>1, LocalFacts DEF LockStep
<1>11. InodeStep
  <2>1. /\ disk \in [Inums -> Dinode] /\ mem \in [Inums -> Dinode]
        /\ ref \in [Inums -> Int] /\ valid \in [Inums -> BOOLEAN] /\ ents \in [Inums -> Entries]
    BY Zenon DEF Inv, TypeInv, InodeTypes
  <2>2. NoInode \in Dinode /\ NoEnts \in Entries
    BY DEF NoInode, Dinode, NoEnts, Entries
  <2>3. /\ disk' \in [Inums -> Dinode] /\ mem' \in [Inums -> Dinode]
        /\ ref' \in [Inums -> Int] /\ valid' \in [Inums -> BOOLEAN] /\ ents' \in [Inums -> Entries]
    BY <2>1, <2>2, <1>2, Zenon DEF PutFree, Dinode
  <2>4. Coherent'
    BY <2>1, <1>2, Zenon DEF Inv, Coherent, PutFree
  <2> QED
    BY <2>3, <2>4, Zenon DEF InodeStep, InodeTypes
<1> QED
  BY <1>8, <1>9, <1>10, <1>11, ZenonT(30) DEF Sound, RestStep, PutFree, Inv, TypeInv

\* The decrement of iput() is sound: the pointer and the count go together.
LEMMA SoundPutDrop ==
  ASSUME Inv, NEW p \in Procs, PutDrop(p)
  PROVE  Sound(p)
<1> DEFINE s == st[p]
           t == st'[p]
           i == s.put
<1>1. s \in Locals /\ Shape(s) /\ s.pc = "drop"
  BY LocalFacts, Zenon DEF PutDrop, At
<1>2. i \in Inums /\ 0 \notin Inums
  BY <1>1, LocalFacts, Zenon DEF Shape, InIput, Locals
<1>3. /\ t = IF s.ret = "user" THEN Idle ELSE [s EXCEPT !.pc = s.ret, !.put = 0, !.ret = "user"]
      /\ st' = [st EXCEPT ![p] = t]
  BY Zenon DEF PutDrop, Goto, Inv, TypeInv
<1>4. /\ t \in Locals /\ t.pc = s.ret /\ t.ret = "user" /\ t.ip = s.ip /\ t.dp = s.dp /\ t.put = 0
      /\ s.ret # "user" => t.call = s.call /\ t.new = s.new /\ t.rest = s.rest
  <2>1. CASE s.ret = "user"
    <3>1. s.ip = 0 /\ s.dp = 0
      BY <1>1, <2>1, Zenon DEF Shape, Where
    <3> QED
      BY <1>3, <2>1, <3>1, IdleLocal, Zenon DEF Idle
  <2>2. CASE s.ret # "user"
    <3>1. s.ret \in Labels
      BY <1>1, Zenon DEF Locals
    <3>2. t = [s EXCEPT !.pc = s.ret, !.put = 0, !.ret = "user"]
      BY <1>3, <2>2, Zenon
    <3>3. t \in Locals
      BY <1>1, <3>1, <3>2, LabelFacts, Zenon DEF Locals
    <3> QED
      BY <1>1, <3>2, <3>3, Zenon DEF Locals
  <2> QED
    BY <2>1, <2>2, Zenon
<1>5. Where(s) = s.ret /\ Where(t) = s.ret /\ ~InIput(t)
  BY <1>1, <1>4, Zenon DEF Where, Shape, InIput
<1>6. Shape(t)
  BY <1>1, <1>4, <1>5, ZenonT(30) DEF Shape, InIput, Nameiparent, Where
<1>7. \A k \in Inums : Points(t, cwd[p], fd[p], k) = Points(s, cwd[p], fd[p], k) - One(i, k)
  BY <1>2, <1>4, <1>5 DEF Points, One
<1>8. \A k \in Inums : Locks(t, k) <=> Locks(s, k)
  BY <1>1, <1>4, <1>5, ZenonT(30) DEF Locks, CallLocks, Shape, Where
<1>9. Frame(p)
  BY <1>3, <1>4, <1>6, Zenon DEF Frame, PutDrop, Inv, TypeInv
<1>10. RefStep(p)
  <2>1. \A k \in Inums : ref'[k] = ref[k] - One(i, k)
    BY <1>2 DEF PutDrop, One, Inv, TypeInv, InodeTypes
  <2>2. ref' \in [Inums -> Int]
    BY <1>2 DEF PutDrop, Inv, TypeInv, InodeTypes
  <2>3. cwd' = cwd /\ fd' = fd /\ \A k \in Inums : ref[k] \in Int
    BY Zenon DEF PutDrop, Inv, TypeInv, InodeTypes
  <2> QED
    BY <1>7, <2>1, <2>2, <2>3, PointsInt DEF RefStep, One
<1>11. LockStep(p)
  BY <1>8, LocalFacts, Zenon DEF LockStep, PutDrop, Inv, TypeInv
<1>12. InodeStep
  <2>1. /\ disk \in [Inums -> Dinode] /\ mem \in [Inums -> Dinode]
        /\ ref' \in [Inums -> Int] /\ valid \in [Inums -> BOOLEAN] /\ ents \in [Inums -> Entries]
    BY <1>10, Zenon DEF Inv, TypeInv, InodeTypes, RefStep
  <2>2. NoInode \in Dinode
    BY DEF NoInode, Dinode
  <2>3. /\ disk' \in [Inums -> Dinode] /\ mem' \in [Inums -> Dinode]
        /\ valid' \in [Inums -> BOOLEAN] /\ ents' \in [Inums -> Entries]
    BY <2>1, <2>2, Zenon DEF PutDrop
  <2>4. Coherent'
    BY Zenon DEF Inv, Coherent, PutDrop
  <2> QED
    BY <2>1, <2>3, <2>4, Zenon DEF InodeStep, InodeTypes
<1> QED
  BY <1>9, <1>10, <1>11, <1>12, Zenon DEF Sound, RestStep, PutDrop, Inv, TypeInv

----------------------------------------------------------------------------
(* Path names.                                                              *)

\* A walk that begins takes one more reference.
LEMMA WalkSound ==
  ASSUME Inv, NEW p \in Procs, NEW s \in Locals, ~InIput(s), s.put = 0, s.dp = 0, s.ret = "user",
         \/ s.ip = 0 /\ s.pc = "user" /\ (s.call = "link" => s.new \in LinkPaths)
         \/ s.ip # 0 /\ s.pc = "new" /\ s.call = "link",
         NEW path \in [abs : BOOLEAN, elems : Seq(Elems)],
         Walk(p, s, path), UNCHANGED <<disk, ents, lock, cwd, fd>>, RestStep,
         \A k \in Inums : Points(s, cwd[p], fd[p], k) = Points(st[p], cwd[p], fd[p], k),
         \A k \in Inums : ~Locks(st[p], k)
  PROVE  Sound(p)
<1> DEFINE t == st'[p]
           i == IF path.abs THEN ROOTINO ELSE cwd[p]
<1>1. i \in Inums /\ i # 0 /\ path.elems \in Seq(Elems) /\ Failed(s) \in Labels /\ Where(s) = s.pc
  BY LocalFacts, LabelFacts DEF Failed, InIput, Where
<1>w. Where(s) # "chdir"
  BY <1>1, Zenon
<1>2. st' = [st EXCEPT ![p] = t]
  BY Zenon DEF Walk, Goto, Inv, TypeInv
<1>3. /\ t \in Locals /\ Shape(t)
      /\ \A k \in Inums : Points(t, cwd[p], fd[p], k) = Points(s, cwd[p], fd[p], k) + One(i, k)
      /\ \A k \in Inums : ~Locks(t, k)
  <2>1. CASE path.elems # <<>>
    <3>1. t = [s EXCEPT !.pc = "walk", !.dp = i, !.rest = path.elems]
      BY <2>1, Zenon DEF Walk, Goto, Inv, TypeInv
    <3>2. t \in Locals
      BY <1>1, <3>1, LabelFacts, Zenon DEF Locals
    <3>3. /\ t.pc = "walk" /\ t.dp = i /\ t.rest = path.elems /\ t.ip = s.ip /\ t.put = s.put
          /\ t.call = s.call /\ t.new = s.new /\ t.ret = s.ret
      BY <3>1, Zenon DEF Locals
    <3>4. Where(t) = "walk" /\ ~InIput(t)
      BY <3>3, Zenon DEF Where, InIput
    <3> HIDE DEF t, i
    <3>5. Shape(t)
      BY <1>1, <2>1, <3>3, <3>4, Zenon DEF Shape
    <3>6. \A k \in Inums : Points(t, cwd[p], fd[p], k) = Points(s, cwd[p], fd[p], k) + One(i, k)
      <4>1. Where(t) # "chdir"
        BY <3>4, Zenon
      <4>2. s.dp = 0 /\ t.dp = i /\ t.ip = s.ip /\ t.put = s.put
        BY <3>3, Zenon
      <4> QED
        <5>1. Gets(s, t, i)
          BY <1>w, <4>1, <4>2, Zenon DEF Gets
        <5> QED
          BY <5>1, PointsGet
    <3>7. \A k \in Inums : ~Locks(t, k)
      BY <1>1, <2>1, <3>3, <3>4, Zenon DEF Locks, CallLocks
    <3> QED
      BY <3>2, <3>5, <3>6, <3>7, Zenon
  <2>2. CASE path.elems = <<>> /\ Nameiparent(s)
    <3>1. t = Put(s, i, Failed(s))
      BY <2>2, Zenon DEF Walk, Goto, Inv, TypeInv
    <3> HIDE DEF t, i
    <3>2. /\ t \in Locals /\ t.pc = "put" /\ t.put = i /\ t.ret = Failed(s) /\ t.call = s.call
          /\ t.new = s.new /\ t.rest = s.rest /\ t.ip = s.ip /\ t.dp = s.dp
          /\ InIput(t) /\ Where(t) = Failed(s)
      BY <1>1, <3>1, PutFields
    <3>5. Shape(t)
      BY <1>1, <2>2, <3>2, Zenon DEF Shape, Failed
    <3>6. \A k \in Inums : Points(t, cwd[p], fd[p], k) = Points(s, cwd[p], fd[p], k) + One(i, k)
      <4>1. Where(t) # "chdir"
        BY <3>2, Zenon DEF Failed
      <4>2. s.put = 0 /\ t.put = i /\ t.ip = s.ip /\ t.dp = s.dp
        BY <3>2, Zenon
      <4> QED
        <5>1. Gets(s, t, i)
          BY <1>w, <4>1, <4>2, Zenon DEF Gets
        <5> QED
          BY <5>1, PointsGet
    <3>7. \A k \in Inums : ~Locks(t, k)
      BY <1>1, <2>2, <3>2, ZenonT(30) DEF Locks, CallLocks, Failed
    <3> QED
      BY <3>2, <3>5, <3>6, <3>7, Zenon
  <2>3. CASE path.elems = <<>> /\ ~Nameiparent(s)
    <3>1. t = [s EXCEPT !.pc = "found", !.ip = i]
      BY <2>3, Zenon DEF Walk, Goto, Inv, TypeInv
    <3>2. t \in Locals
      BY <1>1, <3>1, LabelFacts, Zenon DEF Locals
    <3>3. /\ t.pc = "found" /\ t.dp = s.dp /\ t.rest = s.rest /\ t.ip = i /\ t.put = s.put
          /\ t.call = s.call /\ t.new = s.new /\ t.ret = s.ret
      BY <3>1, Zenon DEF Locals
    <3>4. Where(t) = "found" /\ ~InIput(t)
      BY <3>3, Zenon DEF Where, InIput
    <3> HIDE DEF t, i
    <3>5. Shape(t)
      BY <1>1, <2>3, <3>3, <3>4, ZenonT(30) DEF Shape, Nameiparent
    <3>6. \A k \in Inums : Points(t, cwd[p], fd[p], k) = Points(s, cwd[p], fd[p], k) + One(i, k)
      <4>1. Where(t) # "chdir"
        BY <3>4, Zenon
      <4>2. s.ip = 0 /\ t.ip = i /\ t.dp = s.dp /\ t.put = s.put
        BY <2>3, <3>3, Zenon DEF Nameiparent
      <4> QED
        <5>1. Gets(s, t, i)
          BY <1>w, <4>1, <4>2, Zenon DEF Gets
        <5> QED
          BY <5>1, PointsGet
    <3>7. \A k \in Inums : ~Locks(t, k)
      BY <1>1, <2>3, <3>3, <3>4, Zenon DEF Locks, CallLocks, Nameiparent
    <3> QED
      BY <3>2, <3>5, <3>6, <3>7, Zenon
  <2> QED
    BY <2>1, <2>2, <2>3, Zenon
<1>4. Frame(p)
  BY <1>2, <1>3, Zenon DEF Frame, Inv, TypeInv
<1>5. InodeStep /\ ref' \in [Inums -> Int] /\ \A k \in Inums : ref'[k] = ref[k] + One(i, k)
  <2>1. Cached(0, {i}, Nothing) /\ ents' \in [Inums -> Entries]
    BY Zenon DEF Walk, Inv, TypeInv
  <2>2. /\ InodeStep /\ ref' \in [Inums -> Int]
        /\ \A k \in Inums : ref'[k] = IF k \in {i} THEN ref[k] + 1 ELSE ref[k]
    BY <2>1, CachedOnly
  <2> QED
    BY <2>2 DEF One, Inv, TypeInv, InodeTypes
<1>6. RefStep(p)
  BY <1>3, <1>5, GetRefs
<1>7. LockStep(p)
  BY <1>3, LocalFacts, Zenon DEF LockStep, Inv, TypeInv
<1> QED
  BY <1>4, <1>5, <1>6, <1>7, Zenon DEF Sound

\* The begin of a system call is sound: iget() or idup() of where the walk begins.
LEMMA SoundCall ==
  ASSUME Inv, NEW p \in Procs, Call(p)
  PROVE  Sound(p)
<1>1. PICK c \in Calls, path \in Paths : \E new \in IF c = "link" THEN LinkPaths ELSE {<<>>} :
        Walk(p, [Idle EXCEPT !.call = c, !.new = new], path)
  BY Zenon DEF Call
<1>2. PICK new \in IF c = "link" THEN LinkPaths ELSE {<<>>} :
        Walk(p, [Idle EXCEPT !.call = c, !.new = new], path)
  BY <1>1, Zenon
<1> DEFINE s == [Idle EXCEPT !.call = c, !.new = new]
<1>3. s \in Locals
  BY IdleLocal, Zenon DEF Locals
<1>4. /\ s.pc = "user" /\ s.call = c /\ s.new = new /\ s.ip = 0 /\ s.dp = 0 /\ s.put = 0
      /\ s.ret = "user"
  BY Zenon DEF Idle
<1>5. /\ st[p].pc = "user" /\ st[p].ip = 0 /\ st[p].dp = 0 /\ st[p].put = 0 /\ Where(st[p]) = "user"
      /\ \A k \in Inums : ~Locks(st[p], k)
  BY LocalFacts, ZenonT(30) DEF Call, At, Shape, Where, InIput, Locks, CallLocks
<1>6. path \in [abs : BOOLEAN, elems : Seq(Elems)]
  BY FileSysAssumption, Zenon
<1>7. RestStep /\ UNCHANGED <<disk, ents, lock, cwd, fd>>
  <2>1. MaxCalls \in Nat
    BY FileSysAssumption, Zenon
  <2> QED
    BY <2>1 DEF RestStep, Call, Inv, TypeInv
<1>8. Walk(p, s, path)
  BY <1>2, Zenon
<1>9. /\ \A k \in Inums : Points(s, cwd[p], fd[p], k) = Points(st[p], cwd[p], fd[p], k)
      /\ ~InIput(s) /\ (s.call = "link" => s.new \in LinkPaths)
  BY <1>4, <1>5, Zenon DEF Points, Where, InIput
<1> HIDE DEF s
<1> QED
  BY <1>3, <1>4, <1>5, <1>6, <1>7, <1>8, <1>9, WalkSound, ZenonT(30)

\* The begin of the walk along link()'s second path is sound.
LEMMA SoundWalkNew ==
  ASSUME Inv, NEW p \in Procs, WalkNew(p)
  PROVE  Sound(p)
<1> DEFINE s == [st[p] EXCEPT !.new = <<>>]
           path == st[p].new
<1>1. st[p] \in Locals /\ st[p].pc = "new"
  BY LocalFacts, Zenon DEF WalkNew, At
<1>2. s \in Locals
  BY <1>1, Zenon DEF Locals
<1>3. /\ s.pc = "new" /\ s.call = st[p].call /\ s.ip = st[p].ip /\ s.dp = st[p].dp
      /\ s.put = st[p].put /\ s.ret = st[p].ret
  BY <1>1, Zenon DEF Locals
<1>5. /\ st[p].ip # 0 /\ st[p].dp = 0 /\ st[p].put = 0 /\ st[p].ret = "user" /\ st[p].call = "link"
      /\ path \in LinkPaths /\ Where(st[p]) = "new"
      /\ \A k \in Inums : ~Locks(st[p], k)
  BY <1>1, LocalFacts, Zenon DEF Shape, Where, InIput, Locks, CallLocks
<1>6. path \in [abs : BOOLEAN, elems : Seq(Elems)]
  BY <1>5, FileSysAssumption, Zenon
<1>7. RestStep /\ UNCHANGED <<disk, ents, lock, cwd, fd>>
  BY Zenon DEF RestStep, WalkNew, Inv, TypeInv
<1>8. Walk(p, s, path)
  BY Zenon DEF WalkNew
<1>9. /\ \A k \in Inums : Points(s, cwd[p], fd[p], k) = Points(st[p], cwd[p], fd[p], k)
      /\ ~InIput(s)
  BY <1>3, <1>5, Zenon DEF Points, Where, InIput
<1> HIDE DEF s, path
<1> QED
  BY <1>2, <1>3, <1>5, <1>6, <1>7, <1>8, <1>9, WalkSound, Zenon

\* The local variables when dp, or ip, is put.
LEMMA PutDpFields ==
  ASSUME NEW s \in Locals, s.dp \in Inums, NEW r \in Labels, NEW t,
         t = Put([s EXCEPT !.dp = 0], s.dp, r)
  PROVE  /\ t \in Locals /\ t.pc = "put" /\ t.put = s.dp /\ t.ret = r /\ t.call = s.call
         /\ t.new = s.new /\ t.rest = s.rest /\ t.ip = s.ip /\ t.dp = 0
         /\ InIput(t) /\ Where(t) = r
<1> DEFINE v == [s EXCEPT !.dp = 0]
<1>1. v \in Locals
  BY Zenon DEF Locals
<1>2. v.call = s.call /\ v.new = s.new /\ v.rest = s.rest /\ v.ip = s.ip /\ v.dp = 0
  BY Zenon DEF Locals
<1>3. t = Put(v, s.dp, r)
  BY Zenon
<1> HIDE DEF v
<1> QED
  BY <1>1, <1>2, <1>3, PutFields

\* The local variables in iput(ip) at the end of a call.
LEMMA PutIpFields ==
  ASSUME NEW s \in Locals, s.ip \in Inums, NEW r \in Labels, NEW t,
         t = Put([s EXCEPT !.ip = 0], s.ip, r)
  PROVE  /\ t \in Locals /\ t.pc = "put" /\ t.put = s.ip /\ t.ret = r /\ t.call = s.call
         /\ t.new = s.new /\ t.rest = s.rest /\ t.ip = 0 /\ t.dp = s.dp
         /\ InIput(t) /\ Where(t) = r
<1> DEFINE v == [s EXCEPT !.ip = 0]
<1>1. v \in Locals
  BY Zenon DEF Locals
<1>2. v.call = s.call /\ v.new = s.new /\ v.rest = s.rest /\ v.ip = 0 /\ v.dp = s.dp
  BY Zenon DEF Locals
<1>3. t = Put(v, s.ip, r)
  BY Zenon
<1> HIDE DEF v
<1> QED
  BY <1>1, <1>2, <1>3, PutFields

\* The first element of a path, and the rest.
LEMMA HeadTail ==
  ASSUME NEW S, NEW q \in Seq(S), q # <<>>
  PROVE  Head(q) \in S /\ Tail(q) \in Seq(S) /\ Len(Tail(q)) = Len(q) - 1
  OBVIOUS

\* A path with more than one element left.
LEMMA TailFacts ==
  ASSUME NEW S, NEW q \in Seq(S), q # <<>>, Len(q) # 1
  PROVE  Tail(q) \in Seq(S) /\ Tail(q) # <<>>
<1>1. Len(q) \in Nat \ {0} /\ Len(<<>>) = 0
  OBVIOUS
<1>2. Tail(q) \in Seq(S) /\ Len(Tail(q)) = Len(q) - 1
  BY HeadTail, Zenon
<1>3. Len(Tail(q)) # 0
  BY <1>1, <1>2
<1> QED
  BY <1>1, <1>2, <1>3, Zenon

\* A step between labels at which p holds no lock of its call.
LEMMA NoLocks ==
  ASSUME Inv, NEW p \in Procs, UNCHANGED lock,
         \A k \in Inums : ~Locks(st[p], k), \A k \in Inums : ~Locks(st'[p], k)
  PROVE  LockStep(p)
BY LocalFacts, Zenon DEF LockStep, Inv, TypeInv

\* p goes from s = st[p] to t = st'[p], and j is what it gets a reference to,
\* with the lock of i.
LEMMA GetSound ==
  ASSUME Inv, NEW p \in Procs, NEW i \in Inums \cup {0}, NEW j \in Inums,
         i # 0 => ~NoType(i), Cached(i, {j}, Nothing), UNCHANGED <<disk, cwd, fd>>,
         ents' \in [Inums -> Entries], RestStep, LockStep(p),
         st' = [st EXCEPT ![p] = st'[p]], st'[p] \in Locals, Shape(st'[p]),
         \A k \in Inums : Points(st'[p], cwd[p], fd[p], k)
                              = Points(st[p], cwd[p], fd[p], k) + One(j, k)
  PROVE  Sound(p)
<1>1. /\ InodeStep /\ ref' \in [Inums -> Int]
      /\ \A k \in Inums : ref'[k] = IF k \in {j} THEN ref[k] + 1 ELSE ref[k]
  BY CachedOnly, Zenon
<1>2. \A k \in Inums : ref'[k] = ref[k] + One(j, k)
  BY <1>1 DEF One, Inv, TypeInv, InodeTypes
<1>3. RefStep(p)
  BY <1>1, <1>2, GetRefs, Zenon
<1>4. Frame(p)
  BY Zenon DEF Frame, Inv, TypeInv
<1> QED
  BY <1>1, <1>3, <1>4, Zenon DEF Sound

\* The same without a reference.
LEMMA LockedSound ==
  ASSUME Inv, NEW p \in Procs, NEW i \in Inums \cup {0},
         i # 0 => ~NoType(i), Cached(i, {}, Nothing), UNCHANGED <<disk, cwd, fd>>,
         ents' \in [Inums -> Entries], RestStep, LockStep(p),
         st' = [st EXCEPT ![p] = st'[p]], st'[p] \in Locals, Shape(st'[p]),
         \A k \in Inums : Points(st'[p], cwd[p], fd[p], k) = Points(st[p], cwd[p], fd[p], k)
  PROVE  Sound(p)
<1>1. /\ InodeStep /\ ref' \in [Inums -> Int]
      /\ \A k \in Inums : ref'[k] = IF k \in {} THEN ref[k] + 1 ELSE ref[k]
  BY CachedOnly
<1>2. RefStep(p)
  BY <1>1, SameRefs, Zenon
<1>3. Frame(p)
  BY Zenon DEF Frame, Inv, TypeInv
<1> QED
  BY <1>1, <1>2, <1>3, Zenon DEF Sound

\* Who has strayed has strayed for good.
LEMMA FollowKeeps ==
  ASSUME strayed \in BOOLEAN, NEW i, NEW n, UNCHANGED strayed \/ Follow(i, n)
  PROVE  strayed' \in BOOLEAN /\ (strayed => strayed')
<1>1. CASE UNCHANGED strayed
  BY <1>1
<1>2. CASE Follow(i, n)
  BY <1>2 DEF Follow
<1> QED
  BY <1>1, <1>2

\* A turn of the loop of namex() is sound.
LEMMA SoundWalkStep ==
  ASSUME Inv, NEW p \in Procs, WalkStep(p)
  PROVE  Sound(p)
<1> DEFINE s == st[p]
           t == st'[p]
           i == s.dp
           last == Nameiparent(s) /\ Len(s.rest) = 1
           j == ents[i][Head(s.rest)]
<1>1. s \in Locals /\ Shape(s) /\ s.pc = "walk" /\ s.rest # <<>>
  BY LocalFacts, Zenon DEF WalkStep, At
<1>2. /\ Where(s) = "walk" /\ s.put = 0 /\ s.ret = "user" /\ i \in Inums /\ i # 0
      /\ s.rest \in Seq(Elems) /\ (s.ip # 0 => s.call = "link")
      /\ s.call = "link" /\ s.ip = 0 => s.new \in LinkPaths
      /\ s.ip \in Inums \cup {0}
  BY <1>1, Zenon DEF Shape, Where, InIput, Locals
<1>3. \A k \in Inums : ~Locks(s, k)
  BY <1>1, <1>2, Zenon DEF Locks, CallLocks
<1>4. st' = [st EXCEPT ![p] = t]
  BY Zenon DEF WalkStep, Goto, Inv, TypeInv
<1>5. ~NoType(i)
  BY <1>1, Zenon DEF WalkStep, Ilock, Wants
<1>6. RestStep /\ UNCHANGED <<disk, ents, lock, cwd, fd>> /\ ents' \in [Inums -> Entries]
  <2>1. UNCHANGED strayed \/ Follow(i, Head(s.rest))
    BY Zenon DEF WalkStep
  <2>2. strayed' \in BOOLEAN /\ (strayed => strayed')
    BY <2>1, FollowKeeps, Zenon DEF Inv, TypeInv
  <2>3. UNCHANGED <<disk, ents, lock, cwd, fd, calls, panic>>
    BY Zenon DEF WalkStep
  <2> QED
    BY <2>2, <2>3, Zenon DEF RestStep, Inv, TypeInv
<1>7. j \in Inums \cup {0}
  <2>1. Head(s.rest) \in Elems
    BY <1>1, <1>2
  <2> QED
    BY <1>2, <2>1 DEF Inv, TypeInv, Entries
<1>w. Where(s) # "chdir"
  BY <1>2, Zenon
<1>8. CASE Cached(i, {}, Nothing) /\ t = Put([s EXCEPT !.dp = 0], i, Failed(s))
  <2> HIDE DEF t, i
  <2>0. Failed(s) \in Labels
    BY LabelFacts, Zenon DEF Failed
  <2>1. /\ t \in Locals /\ t.pc = "put" /\ t.put = s.dp /\ t.ret = Failed(s) /\ t.call = s.call
        /\ t.new = s.new /\ t.rest = s.rest /\ t.ip = s.ip /\ t.dp = 0
        /\ InIput(t) /\ Where(t) = Failed(s)
    BY <1>1, <1>2, <1>8, <2>0, PutDpFields DEF i
  <2>2. Shape(t)
    BY <1>1, <1>2, <2>1, Zenon DEF Shape, Failed, i
  <2>3. Where(t) # "chdir"
    BY <2>1, Zenon DEF Failed
  <2>4. \A k \in Inums : Points(t, cwd[p], fd[p], k) = Points(s, cwd[p], fd[p], k)
    <3>1. Moves(s, t)
      BY <1>2, <1>w, <2>1, <2>3, Zenon DEF Moves
    <3> QED
      BY <3>1, PointsMove
  <2>5. \A k \in Inums : ~Locks(t, k)
    BY <2>1, Zenon DEF Locks, CallLocks, Failed
  <2>6. LockStep(p)
    BY <1>3, <1>6, <2>5, NoLocks, Zenon DEF t
  <2> QED
    BY <1>2, <1>4, <1>5, <1>6, <1>8, <2>1, <2>2, <2>4, <2>6, LockedSound, ZenonT(30) DEF
       t
<1>9. CASE last /\ Cached(i, {}, Nothing) /\ t = [s EXCEPT !.pc = "parent"]
  <2>1. t \in Locals
    BY <1>1, <1>9, LabelFacts, Zenon DEF Locals
  <2>2. /\ t.pc = "parent" /\ t.put = s.put /\ t.ret = s.ret /\ t.call = s.call
        /\ t.new = s.new /\ t.rest = s.rest /\ t.ip = s.ip /\ t.dp = s.dp
    BY <1>1, <1>9, Zenon DEF Locals
  <2>3. Where(t) = "parent" /\ ~InIput(t)
    BY <2>2, Zenon DEF Where, InIput
  <2>4. Shape(t)
    BY <1>1, <1>2, <1>9, <2>2, <2>3, ZenonT(30) DEF Shape, Nameiparent
  <2>5. \A k \in Inums : Points(t, cwd[p], fd[p], k) = Points(s, cwd[p], fd[p], k)
    BY <1>2, <2>2, <2>3, Zenon DEF Points
  <2>6. \A k \in Inums : ~Locks(t, k)
    BY <2>2, <2>3, ZenonT(30) DEF Locks, CallLocks
  <2>7. LockStep(p)
    BY <1>3, <1>6, <2>6, NoLocks, Zenon
  <2> QED
    BY <1>2, <1>4, <1>5, <1>6, <1>9, <2>1, <2>4, <2>5, <2>7, LockedSound, ZenonT(30)
<1>10. ASSUME ~last, j # 0, Cached(i, {j}, Nothing), Len(s.rest) = 1,
              t = Put([s EXCEPT !.ip = j, !.dp = 0, !.rest = <<>>], i, "found")
       PROVE  Sound(p)
  <2> DEFINE v == [s EXCEPT !.ip = j, !.dp = 0, !.rest = <<>>]
  <2>1. v \in Locals
    <3>1. <<>> \in Seq(Elems)
      OBVIOUS
    <3> QED
      BY <1>1, <1>7, <3>1, Zenon DEF Locals
  <2>2. v.call = s.call /\ v.new = s.new /\ v.rest = <<>> /\ v.ip = j /\ v.dp = 0
    BY <1>1, Zenon DEF Locals
  <2>3. ~Nameiparent(s)
    BY <1>10, Zenon
  <2>4. s.ip = 0 /\ s.call \notin Creates \cup {"unlink"}
    BY <1>2, <2>3, Zenon DEF Nameiparent
  <2>5. t = Put(v, i, "found") /\ j \in Inums
    BY <1>7, <1>10, Zenon
  <2> HIDE DEF t, i, j, v
  <2>6. /\ t \in Locals /\ t.pc = "put" /\ t.put = i /\ t.ret = "found" /\ t.call = s.call
        /\ t.new = s.new /\ t.rest = <<>> /\ t.ip = j /\ t.dp = 0
        /\ InIput(t) /\ Where(t) = "found"
    <3>1. "found" \in Labels
      BY LabelFacts, Zenon
    <3>2. i \in Inums
      BY <1>2, Zenon
    <3> QED
      BY <2>1, <2>2, <2>5, <3>1, <3>2, PutFields
  <2>7. Shape(t)
    BY <1>1, <1>2, <1>10, <2>4, <2>6, ZenonT(30) DEF Shape
  <2>8. Where(t) # "chdir" /\ t.put = s.dp
    BY <2>6, Zenon DEF i
  <2>9. \A k \in Inums : Points(t, cwd[p], fd[p], k) = Points(s, cwd[p], fd[p], k) + One(j, k)
    <3>1. MovesGets(s, t, j)
      BY <1>2, <1>w, <2>4, <2>6, <2>8, Zenon DEF MovesGets
    <3> QED
      BY <3>1, PointsMoveGet
  <2>10. \A k \in Inums : ~Locks(t, k)
    BY <2>6, Zenon DEF Locks, CallLocks
  <2>11. LockStep(p)
    BY <1>3, <1>6, <2>10, NoLocks, Zenon DEF t
  <2> QED
    BY <1>2, <1>4, <1>5, <1>6, <1>10, <2>5, <2>6, <2>7, <2>9, <2>11, GetSound,
       ZenonT(30) DEF t
<1>11. ASSUME j # 0, Cached(i, {j}, Nothing), Len(s.rest) # 1,
              t = Put([s EXCEPT !.dp = j, !.rest = Tail(@)], i, "walk")
       PROVE  Sound(p)
  <2> DEFINE v == [s EXCEPT !.dp = j, !.rest = Tail(@)]
  <2>0. Tail(s.rest) \in Seq(Elems) /\ Tail(s.rest) # <<>>
    BY <1>1, <1>2, <1>11, TailFacts, Zenon
  <2>1. v \in Locals
    BY <1>1, <1>7, <2>0, Zenon DEF Locals
  <2>2. v.call = s.call /\ v.new = s.new /\ v.rest = Tail(s.rest) /\ v.ip = s.ip /\ v.dp = j
    BY <1>1, Zenon DEF Locals
  <2>5. t = Put(v, i, "walk") /\ j \in Inums
    BY <1>7, <1>11, Zenon
  <2> HIDE DEF t, i, j, v
  <2>6. /\ t \in Locals /\ t.pc = "put" /\ t.put = i /\ t.ret = "walk" /\ t.call = s.call
        /\ t.new = s.new /\ t.rest = Tail(s.rest) /\ t.ip = s.ip /\ t.dp = j
        /\ InIput(t) /\ Where(t) = "walk"
    <3>1. "walk" \in Labels
      BY LabelFacts, Zenon
    <3>2. i \in Inums
      BY <1>2, Zenon
    <3> QED
      BY <2>1, <2>2, <2>5, <3>1, <3>2, PutFields
  <2>7. Shape(t)
    BY <1>1, <1>2, <1>11, <2>0, <2>6, ZenonT(30) DEF Shape
  <2>8. Where(t) # "chdir" /\ t.put = s.dp
    BY <2>6, Zenon DEF i
  <2>9. \A k \in Inums : Points(t, cwd[p], fd[p], k) = Points(s, cwd[p], fd[p], k) + One(j, k)
    <3>1. MovesGets(s, t, j)
      BY <1>2, <1>w, <2>6, <2>8, Zenon DEF MovesGets
    <3> QED
      BY <3>1, PointsMoveGet
  <2>10. \A k \in Inums : ~Locks(t, k)
    BY <2>6, Zenon DEF Locks, CallLocks
  <2>11. LockStep(p)
    BY <1>3, <1>6, <2>10, NoLocks, Zenon DEF t
  <2> QED
    BY <1>2, <1>4, <1>5, <1>6, <1>11, <2>5, <2>6, <2>7, <2>9, <2>11, GetSound,
       ZenonT(30) DEF t
<1>12. \A x : Goto(p, x) => t = x
  BY Zenon DEF Goto, Inv, TypeInv
<1> HIDE DEF t
<1> QED
  BY <1>8, <1>9, <1>10, <1>11, <1>12, Zenon DEF WalkStep

----------------------------------------------------------------------------
(* The system calls.                                                        *)

\* p goes on to the end of its call, which takes over its reference to ip.
Leaves(p) ==
  /\ st' = [st EXCEPT ![p] = st'[p]] /\ st'[p] \in Locals /\ Shape(st'[p])
  /\ fd' \in [Procs -> Inums \cup {0}] /\ \A q \in Procs \ {p} : fd'[q] = fd[q]
  /\ \A k \in Inums : Points(st'[p], cwd[p], fd'[p], k) = Points(st[p], cwd[p], fd[p], k)
  /\ \A k \in Inums : ~Locks(st'[p], k)

\* iput(ip) at the end of a call gives up ip and no other pointer.
LEMMA IputIpLeaves ==
  ASSUME Inv, NEW p \in Procs, Where(st[p]) # "chdir",
         st[p].ip \in Inums, st[p].dp = 0, st[p].put = 0, IputIp(p, st[p])
  PROVE  Leaves(p)
<1> DEFINE s == st[p]
           t == st'[p]
<1>1. s \in Locals /\ "user" \in Labels
  BY LocalFacts, LabelFacts, Zenon
<1>2. t = Put([s EXCEPT !.ip = 0], s.ip, "user") /\ st' = [st EXCEPT ![p] = t]
  BY Zenon DEF IputIp, Goto, Inv, TypeInv
<1>3. /\ t \in Locals /\ t.pc = "put" /\ t.put = s.ip /\ t.ret = "user" /\ t.call = s.call
      /\ t.new = s.new /\ t.rest = s.rest /\ t.ip = 0 /\ t.dp = s.dp
      /\ InIput(t) /\ Where(t) = "user"
  BY <1>1, <1>2, PutIpFields
<1>4. Shape(t)
  BY <1>3, LocalFacts, ZenonT(30) DEF Shape
<1>5. \A k \in Inums : ~Locks(t, k)
  BY <1>3, Zenon DEF Locks, CallLocks
<1>6. Where(t) # "chdir"
  BY <1>3, Zenon
<1>7. \A k \in Inums : Points(t, cwd[p], fd[p], k) = Points(s, cwd[p], fd[p], k)
  <2>1. Moves(s, t)
    BY <1>3, <1>6, Zenon DEF Moves
  <2> QED
    BY <2>1, PointsMove
<1>8. fd' = fd /\ fd \in [Procs -> Inums \cup {0}]
  BY Zenon DEF IputIp, Inv, TypeInv
<1> QED
  BY <1>2, <1>3, <1>4, <1>5, <1>7, <1>8, ZenonT(30) DEF Leaves

\* The end of sys_open() moves ip to the file, or gives it up.
LEMMA OpenFileLeaves ==
  ASSUME Inv, NEW p \in Procs, Where(st[p]) # "chdir",
         st[p].ip \in Inums, st[p].dp = 0, st[p].put = 0, OpenFile(p, st[p])
  PROVE  Leaves(p)
<1> DEFINE s == st[p]
           t == st'[p]
<1>1. CASE fd[p] = 0 /\ fd' = [fd EXCEPT ![p] = s.ip] /\ Goto(p, Idle)
  <2>1. t = Idle /\ st' = [st EXCEPT ![p] = t]
    BY <1>1, Zenon DEF Goto, Inv, TypeInv
  <2>2. /\ t \in Locals /\ Shape(t) /\ \A k \in Inums : ~Locks(t, k)
        /\ t.pc = "user" /\ t.ip = 0 /\ t.dp = 0 /\ t.put = 0
    BY <2>1, IdleLocal, Zenon
  <2>3. fd' \in [Procs -> Inums \cup {0}] /\ fd'[p] = s.ip /\ \A q \in Procs \ {p} : fd'[q] = fd[q]
    BY <1>1, Zenon DEF Inv, TypeInv
  <2>4. ASSUME NEW k \in Inums
        PROVE  Points(t, cwd[p], fd'[p], k) = Points(s, cwd[p], fd[p], k)
    <3>1. Where(t) # "chdir"
      BY <2>2, Zenon DEF Where
    <3>2. One(0, k) = 0 /\ One(cwd[p], k) \in Int /\ One(s.ip, k) \in Int
      BY OneFacts, Zenon
    <3> QED
      BY <1>1, <2>2, <2>3, <3>1, <3>2 DEF Points
  <2> QED
    BY <2>1, <2>2, <2>3, <2>4, ZenonT(30) DEF Leaves
<1>2. CASE IputIp(p, s)
  BY <1>2, IputIpLeaves, Zenon
<1> QED
  BY <1>1, <1>2, Zenon DEF OpenFile, IputIp

\* Such a step is sound when the cache and the locks are.
LEMMA LeavesSound ==
  ASSUME Inv, NEW p \in Procs, Leaves(p), UNCHANGED cwd, InodeStep, RestStep,
         \A k \in Inums : ref'[k] = ref[k], LockStep(p)
  PROVE  Sound(p)
<1>1. ref' \in [Inums -> Int]
  BY Zenon DEF InodeStep, InodeTypes
<1>2. RefStep(p)
  BY <1>1, SameRefs, Zenon DEF Leaves
<1>3. Frame(p)
  BY Zenon DEF Frame, Leaves, Inv, TypeInv
<1> QED
  BY <1>2, <1>3, Zenon DEF Sound

\* The lock of the inode that p holds is let go, or p had none.
LEMMA LetGo ==
  ASSUME Inv, NEW p \in Procs, NEW i \in Inums, \A k \in Inums : ~Locks(st'[p], k),
         lock' = [lock EXCEPT ![i] = None], \A k \in Inums : Locks(st[p], k) <=> k = i
  PROVE  LockStep(p)
BY LocalFacts DEF LockStep, Inv, TypeInv

\* The link count of i changes by n.
LEMMA LinksSound ==
  ASSUME Inv, NEW i \in Inums \cup {0}, i # 0 => ~NoType(i), NEW j \in Inums, NEW n \in Int,
         Cached(i, {}, Links(j, n)), Iupdate(Links(j, n)), ents' \in [Inums -> Entries]
  PROVE  /\ InodeStep /\ \A k \in Inums : ref'[k] = ref[k]
         /\ disk' = [disk EXCEPT ![j].nlink = @ + n]
<1> DEFINE u == Links(j, n)
<1>1. Copy(j) = disk[j] /\ disk[j] \in Dinode
  BY CopyIs, Zenon
<1>2. DOMAIN u = {j} /\ u[j] = [disk[j] EXCEPT !.nlink = @ + n]
  BY <1>1, Zenon DEF Links
<1>3. u[j] \in Dinode /\ u[j].type = disk[j].type
  BY <1>1, <1>2 DEF Dinode
<1>4. Cached(i, {}, u) /\ Iupdate(u)
  BY Zenon
<1> HIDE DEF u
<1>5. /\ InodeTypes' /\ Coherent'
      /\ \A k \in Inums : disk'[k] = IF k \in DOMAIN u THEN u[k] ELSE disk[k]
      /\ \A k \in Inums : ref'[k] = IF k \in {} THEN ref[k] + 1 ELSE ref[k]
  <2>1. /\ DOMAIN u \subseteq Inums
        /\ \A k \in DOMAIN u : u[k] \in Dinode /\ u[k].type = disk[k].type
    BY <1>2, <1>3, Zenon
  <2> QED
    BY <1>4, <2>1, CachedSound
<1>6. disk \in [Inums -> Dinode] /\ disk' \in [Inums -> Dinode]
  BY <1>5, Zenon DEF Inv, TypeInv, InodeTypes
<1>7. disk' = [disk EXCEPT ![j].nlink = @ + n]
  BY <1>2, <1>5, <1>6, ZenonT(30)
<1> QED
  BY <1>5, <1>7, Zenon DEF InodeStep, Inv, TypeInv

\* sys_open(), sys_chdir() and sys_link() after namei() are sound.
LEMMA SoundFound ==
  ASSUME Inv, NEW p \in Procs, Found(p)
  PROVE  Sound(p)
<1> DEFINE s == st[p]
           t == st'[p]
           i == s.ip
           dir == Copy(i).type = "dir"
           up == s.call = "link" /\ ~dir
<1>1. s \in Locals /\ Shape(s) /\ s.pc = "found"
  BY LocalFacts, ZenonT(30) DEF Found, At
<1>2. /\ Where(s) = "found" /\ s.put = 0 /\ s.dp = 0 /\ s.ret = "user" /\ i \in Inums /\ i # 0
      /\ s.call = "link" => s.new \in LinkPaths
  BY <1>1, Zenon DEF Shape, Where, InIput, Locals
<1>3. \A k \in Inums : ~Locks(s, k)
  BY <1>1, <1>2, Zenon DEF Locks, CallLocks
<1>4. ~NoType(i)
  BY <1>1, Zenon DEF Found, Ilock, Wants
<1>5. RestStep /\ UNCHANGED <<ents, lock, cwd>> /\ ents' \in [Inums -> Entries]
  BY Zenon DEF RestStep, Found, Inv, TypeInv
<1>6. InodeStep /\ \A k \in Inums : ref'[k] = ref[k]
  <2>1. CASE up
    <3>1. Cached(i, {}, Links(i, 1)) /\ Iupdate(Links(i, 1))
      BY <2>1, Zenon DEF Found
    <3> HIDE DEF i
    <3> QED
      BY <1>2, <1>4, <1>5, <3>1, LinksSound
  <2>2. CASE ~up
    <3>1. Cached(i, {}, Nothing) /\ Iupdate(Nothing)
      BY <2>2, Zenon DEF Found
    <3>2. disk' = disk
      BY <3>1, Zenon DEF Iupdate, Updated, Nothing, Inv, TypeInv, InodeTypes
    <3>3. /\ InodeStep
          /\ \A k \in Inums : ref'[k] = IF k \in {} THEN ref[k] + 1 ELSE ref[k]
      BY <1>2, <1>4, <1>5, <3>1, <3>2, CachedOnly
    <3> QED
      BY <3>3, Zenon
  <2> QED
    BY <2>1, <2>2, Zenon
<1>w. Where(s) # "chdir"
  BY <1>2, Zenon
<1>7. CASE IputIp(p, s) \/ OpenFile(p, s)
  <2>1. Leaves(p)
    BY <1>2, <1>w, <1>7, IputIpLeaves, OpenFileLeaves, ZenonT(30)
  <2>2. LockStep(p)
    BY <1>3, <1>5, <2>1, NoLocks, ZenonT(30) DEF Leaves
  <2> QED
    BY <1>5, <1>6, <2>1, <2>2, LeavesSound, ZenonT(30)
<1>8. ASSUME s.call = "chdir", Goto(p, Put(s, cwd[p], "chdir")), fd' = fd
      PROVE  Sound(p)
  <2>1. t = Put(s, cwd[p], "chdir") /\ st' = [st EXCEPT ![p] = t]
    BY <1>8, Zenon DEF Goto, Inv, TypeInv
  <2>2. cwd[p] \in Inums /\ "chdir" \in Labels
    BY LocalFacts, LabelFacts, Zenon
  <2>3. /\ t \in Locals /\ t.pc = "put" /\ t.put = cwd[p] /\ t.ret = "chdir" /\ t.call = s.call
        /\ t.new = s.new /\ t.rest = s.rest /\ t.ip = s.ip /\ t.dp = s.dp
        /\ InIput(t) /\ Where(t) = "chdir"
    BY <1>1, <2>1, <2>2, PutFields
  <2>4. Shape(t)
    BY <1>2, <1>8, <2>2, <2>3, LocalFacts DEF Shape
  <2>5. ASSUME NEW k \in Inums
        PROVE  Points(t, cwd[p], fd[p], k) = Points(s, cwd[p], fd[p], k)
    <3>1. /\ One(0, k) = 0 /\ One(cwd[p], k) \in Int /\ One(fd[p], k) \in Int
          /\ One(s.ip, k) \in Int
      BY OneFacts, Zenon
    <3> QED
      BY <1>2, <2>3, <3>1 DEF Points
  <2>6. \A k \in Inums : ~Locks(t, k)
    BY <2>3, Zenon DEF Locks, CallLocks
  <2>7. Leaves(p)
    BY <1>8, <2>1, <2>3, <2>4, <2>5, <2>6, ZenonT(30) DEF Leaves, Inv, TypeInv
  <2>8. LockStep(p)
    BY <1>3, <1>5, <2>6, NoLocks, ZenonT(30)
  <2> QED
    BY <1>5, <1>6, <2>7, <2>8, LeavesSound, Zenon
<1>9. ASSUME s.call = "link", Goto(p, [s EXCEPT !.pc = "new"]), fd' = fd
      PROVE  Sound(p)
  <2>1. t = [s EXCEPT !.pc = "new"] /\ st' = [st EXCEPT ![p] = t]
    BY <1>9, Zenon DEF Goto, Inv, TypeInv
  <2>2. t \in Locals
    BY <1>1, <2>1, LabelFacts, Zenon DEF Locals
  <2>3. /\ t.pc = "new" /\ t.put = s.put /\ t.ret = s.ret /\ t.call = s.call
        /\ t.new = s.new /\ t.rest = s.rest /\ t.ip = s.ip /\ t.dp = s.dp
    BY <1>1, <2>1, Zenon DEF Locals
  <2>4. Where(t) = "new" /\ ~InIput(t)
    BY <2>3, Zenon DEF Where, InIput
  <2>5. Shape(t)
    BY <1>2, <1>9, <2>3, <2>4, Zenon DEF Shape, Creates
  <2>6. \A k \in Inums : Points(t, cwd[p], fd[p], k) = Points(s, cwd[p], fd[p], k)
    BY <1>2, <2>3, <2>4, Zenon DEF Points
  <2>7. \A k \in Inums : ~Locks(t, k)
    BY <2>3, <2>4, Zenon DEF Locks, CallLocks
  <2>8. Leaves(p)
    BY <1>9, <2>1, <2>2, <2>5, <2>6, <2>7, ZenonT(30) DEF Leaves, Inv, TypeInv
  <2>9. LockStep(p)
    BY <1>3, <1>5, <2>7, NoLocks, Zenon
  <2> QED
    BY <1>5, <1>6, <2>8, <2>9, LeavesSound, Zenon
<1> HIDE DEF t
<1> QED
  BY <1>7, <1>8, <1>9, ZenonT(30) DEF Found

\* The end of sys_chdir() is sound: ip becomes the current directory.
LEMMA SoundChdir ==
  ASSUME Inv, NEW p \in Procs, Chdir(p)
  PROVE  Sound(p)
<1> DEFINE s == st[p]
           t == st'[p]
<1>1. s \in Locals /\ Shape(s) /\ s.pc = "chdir"
  BY LocalFacts, Zenon DEF Chdir, At
<1>2. Where(s) = "chdir" /\ s.put = 0 /\ s.dp = 0 /\ s.ip \in Inums
  BY <1>1, Zenon DEF Shape, Where, InIput, Locals
<1>3. t = Idle /\ st' = [st EXCEPT ![p] = t]
  BY Zenon DEF Chdir, Goto, Inv, TypeInv
<1>4. /\ t \in Locals /\ Shape(t) /\ \A k \in Inums : ~Locks(t, k)
      /\ t.pc = "user" /\ t.ip = 0 /\ t.dp = 0 /\ t.put = 0
  BY <1>3, IdleLocal, Zenon
<1>5. \A k \in Inums : ~Locks(s, k)
  BY <1>1, <1>2, Zenon DEF Locks, CallLocks
<1>6. /\ cwd' \in [Procs -> Inums] /\ cwd'[p] = s.ip /\ \A q \in Procs \ {p} : cwd'[q] = cwd[q]
      /\ UNCHANGED <<disk, ents, ref, valid, mem, lock, fd>>
  BY <1>2, Zenon DEF Chdir, Inv, TypeInv
<1>7. ASSUME NEW k \in Inums
      PROVE  Points(t, cwd'[p], fd'[p], k) = Points(s, cwd[p], fd[p], k)
  <2>1. Where(t) # "chdir"
    BY <1>4, Zenon DEF Where
  <2>2. One(0, k) = 0 /\ One(fd[p], k) \in Int /\ One(s.ip, k) \in Int
    BY OneFacts, Zenon
  <2> QED
    BY <1>2, <1>4, <1>6, <2>1, <2>2 DEF Points
<1>8. InodeStep /\ ref' \in [Inums -> Int]
  BY <1>6, SamePlace, Zenon
<1>9. RefStep(p)
  BY <1>6, <1>7, <1>8, SameRefs, Zenon
<1>10. LockStep(p)
  BY <1>4, <1>5, <1>6, NoLocks, Zenon
<1>11. Frame(p)
  BY <1>3, <1>4, <1>6, Zenon DEF Frame, Inv, TypeInv
<1> QED
  BY <1>8, <1>9, <1>10, <1>11, ZenonT(30) DEF Sound, RestStep, Chdir, Inv, TypeInv

\* What is known after nameiparent(), with dp locked.
LEMMA ParentFacts ==
  ASSUME Inv, NEW p \in Procs, At(p, "parent"), Ilock(p)
  PROVE  LET s == st[p] IN
         /\ s \in Locals /\ Shape(s) /\ s.pc = "parent" /\ Where(s) = "parent" /\ ~InIput(s)
         /\ s.put = 0 /\ s.ret = "user" /\ s.dp \in Inums /\ s.dp # 0 /\ s.ip \in Inums \cup {0}
         /\ s.ip # 0 <=> s.call = "link"
         /\ s.rest # <<>> /\ Head(s.rest) \in Elems
         /\ Entry(s) \in Inums \cup {0}
         /\ ~NoType(s.dp) /\ lock[s.dp] = None
         /\ \A k \in Inums : ~Locks(s, k)
<1> DEFINE s == st[p]
<1>1. s \in Locals /\ Shape(s) /\ s.pc = "parent"
  BY LocalFacts, Zenon DEF At
<1>2. /\ Where(s) = "parent" /\ ~InIput(s) /\ s.put = 0 /\ s.ret = "user" /\ s.dp \in Inums
      /\ s.dp # 0 /\ s.rest # <<>> /\ s.ip \in Inums \cup {0} /\ s.rest \in Seq(Elems)
  BY <1>1, Zenon DEF Shape, Where, InIput, Locals
<1>3. s.ip # 0 <=> s.call = "link"
  BY <1>1, <1>2, Zenon DEF Shape, Nameiparent, Creates
<1>4. Head(s.rest) \in Elems
  BY <1>2, HeadTail, Zenon
<1>5. Entry(s) \in Inums \cup {0}
  BY <1>2, <1>4 DEF Entry, Inv, TypeInv, Entries
<1>6. ~NoType(s.dp) /\ lock[s.dp] = None
  BY <1>1, <1>2, Zenon DEF Ilock, Wants
<1>7. \A k \in Inums : ~Locks(s, k)
  BY <1>1, <1>2, Zenon DEF Locks, CallLocks
<1> QED
  BY <1>1, <1>2, <1>3, <1>4, <1>5, <1>6, <1>7, ZenonT(30)

\* p gets the lock of i and keeps the reference of its dp.
LEMMA Takes ==
  ASSUME Inv, NEW p \in Procs, NEW i \in Inums, lock[i] = None, \A k \in Inums : ~Locks(st[p], k),
         lock' = [lock EXCEPT ![i] = p], \A k \in Inums : Locks(st'[p], k) <=> k = i
  PROVE  LockStep(p)
BY LocalFacts DEF LockStep, Inv, TypeInv

\* create() of a name that exists is sound: iget() of the entry, iput() of dp.
LEMMA SoundParentExists ==
  ASSUME Inv, NEW p \in Procs, ParentExists(p)
  PROVE  Sound(p)
<1> DEFINE s == st[p]
           t == st'[p]
           i == s.dp
           j == Entry(s)
           v == [s EXCEPT !.ip = j, !.dp = 0]
<1>1. /\ s \in Locals /\ Shape(s) /\ s.pc = "parent" /\ Where(s) = "parent" /\ s.put = 0
      /\ i \in Inums /\ i # 0 /\ (s.ip # 0 <=> s.call = "link")
      /\ ~NoType(i) /\ \A k \in Inums : ~Locks(s, k)
  BY ParentFacts, Zenon DEF ParentExists
<1>2. j \in Inums /\ j # 0 /\ s.call \in Creates /\ Cached(i, {j}, Nothing)
  BY ParentFacts, Zenon DEF ParentExists
<1>3. s.ip = 0
  BY <1>1, <1>2, Zenon DEF Creates
<1>4. v \in Locals
  BY <1>1, <1>2, Zenon DEF Locals
<1>5. v.call = s.call /\ v.ip = j /\ v.dp = 0
  BY <1>1, Zenon DEF Locals
<1>6. t = Put(v, i, "exists") /\ st' = [st EXCEPT ![p] = t]
  BY Zenon DEF ParentExists, Goto, Inv, TypeInv
<1>7. RestStep /\ UNCHANGED <<disk, lock, cwd, fd>> /\ ents' \in [Inums -> Entries]
  BY Zenon DEF RestStep, ParentExists, Follow, Inv, TypeInv
<1>8. "exists" \in Labels
  BY LabelFacts, Zenon
<1> HIDE DEF t, i, j, v
<1>9. /\ t \in Locals /\ t.pc = "put" /\ t.put = i /\ t.ret = "exists" /\ t.call = s.call
      /\ t.ip = j /\ t.dp = 0 /\ InIput(t) /\ Where(t) = "exists"
  BY <1>1, <1>4, <1>5, <1>6, <1>8, PutFields
<1>10. Shape(t)
  BY <1>1, <1>2, <1>9, Zenon DEF Shape, Creates
<1>11. Where(s) # "chdir" /\ Where(t) # "chdir" /\ t.put = s.dp
  BY <1>1, <1>9, Zenon DEF i
<1>12. \A k \in Inums : Points(t, cwd[p], fd[p], k) = Points(s, cwd[p], fd[p], k) + One(j, k)
  <2>1. MovesGets(s, t, j)
    BY <1>1, <1>3, <1>9, <1>11, Zenon DEF MovesGets
  <2> QED
    BY <2>1, PointsMoveGet
<1>13. \A k \in Inums : ~Locks(t, k)
  BY <1>9, Zenon DEF Locks, CallLocks
<1>14. LockStep(p)
  BY <1>1, <1>7, <1>13, NoLocks, Zenon DEF t
<1> QED
  BY <1>1, <1>2, <1>6, <1>7, <1>9, <1>10, <1>12, <1>14, GetSound, Zenon DEF t

\* create() with the existing inode is sound.
LEMMA SoundExists ==
  ASSUME Inv, NEW p \in Procs, Exists(p)
  PROVE  Sound(p)
<1> DEFINE s == st[p]
           i == s.ip
<1>1. s \in Locals /\ Shape(s) /\ s.pc = "exists"
  BY LocalFacts, Zenon DEF Exists, At
<1>2. Where(s) = "exists" /\ s.put = 0 /\ s.dp = 0 /\ i \in Inums /\ i # 0
  BY <1>1, Zenon DEF Shape, Where, InIput, Locals
<1>3. \A k \in Inums : ~Locks(s, k)
  BY <1>1, <1>2, Zenon DEF Locks, CallLocks
<1>4. ~NoType(i) /\ Cached(i, {}, Nothing)
  BY <1>1, Zenon DEF Exists, Ilock, Wants
<1>5. RestStep /\ UNCHANGED <<disk, lock, cwd>> /\ ents' \in [Inums -> Entries]
  BY Zenon DEF RestStep, Exists, Inv, TypeInv
<1>w. Where(s) # "chdir"
  BY <1>2, Zenon
<1>6. Leaves(p)
  BY <1>2, <1>w, IputIpLeaves, OpenFileLeaves, Zenon DEF Exists
<1> HIDE DEF i
<1>7. InodeStep /\ \A k \in Inums : ref'[k] = IF k \in {} THEN ref[k] + 1 ELSE ref[k]
  BY <1>2, <1>4, <1>5, CachedOnly
<1>8. LockStep(p)
  BY <1>3, <1>5, <1>6, NoLocks, Zenon DEF Leaves
<1> QED
  BY <1>5, <1>6, <1>7, <1>8, LeavesSound, ZenonT(30)

\* ialloc() returns a free inode.
LEMMA FirstFree ==
  ASSUME NEW S \in SUBSET Nat, S # {}
  PROVE  Min(S) \in S
<1>1. \E x \in S : \A y \in S : <<y, x>> \notin OpToRel(<, Nat)
  BY NatLessThanWellFounded, WFMin, ZenonT(30)
<1>2. PICK x \in S : \A y \in S : <<y, x>> \notin OpToRel(<, Nat)
  BY <1>1, Zenon
<1>3. \A y \in S : x <= y
  <2>1. \A y \in S : x \in Nat /\ y \in Nat /\ ~(y < x)
    BY <1>2, Zenon DEF OpToRel
  <2> QED
    BY <2>1
<1> QED
  BY <1>3, ZenonT(30) DEF Min

\* ialloc() is sound: no process points to a free inode's entry of the cache.
LEMMA SoundIalloc ==
  ASSUME Inv, NEW p \in Procs, Ialloc(p)
  PROVE  Sound(p)
<1> DEFINE s == st[p]
           t == st'[p]
           i == s.dp
           free == {n \in Inums : disk[n].type = "free"}
           k == Min(free)
<1>1. /\ s \in Locals /\ Shape(s) /\ s.pc = "parent" /\ Where(s) = "parent" /\ s.put = 0
      /\ i \in Inums /\ i # 0 /\ (s.ip # 0 <=> s.call = "link") /\ s.ret = "user"
      /\ s.rest # <<>> /\ ~NoType(i) /\ lock[i] = None /\ \A n \in Inums : ~Locks(s, n)
  BY ParentFacts, Zenon DEF Ialloc
<1>2. s.call \in Creates /\ s.ip = 0
  BY <1>1, Zenon DEF Ialloc, Creates
<1>3. CASE free = {}
  <2>1. /\ UNCHANGED <<disk, ents, ref, valid, mem, lock, st, cwd, fd, calls, strayed>>
        /\ panic' = TRUE
    BY <1>3, Zenon DEF Ialloc
  <2>2. InodeStep /\ ref' \in [Inums -> Int]
    BY <2>1, SamePlace, Zenon
  <2>3. RefStep(p)
    BY <2>1, <2>2, SameRefs, Zenon
  <2>4. LockStep(p)
    BY <1>1, <2>1, NoLocks, Zenon
  <2>5. Frame(p)
    BY <1>1, <2>1, Zenon DEF Frame, Inv, TypeInv
  <2> QED
    BY <2>1, <2>2, <2>3, <2>4, <2>5, ZenonT(30) DEF Sound, RestStep, Inv, TypeInv
<1>4. CASE free # {}
  <2>1. k \in free
    <3>1. free \in SUBSET Nat
      BY FileSysAssumption, Zenon
    <3> QED
      BY <1>4, <3>1, FirstFree, Zenon
  <2>2. k \in Inums /\ disk[k].type = "free" /\ disk[i].type # "free" /\ k # i /\ ~valid[k]
    <3>1. disk[i].type # "free"
      BY <1>1, CopyIs, Zenon
    <3> QED
      BY <2>1, <3>1, Zenon DEF Inv, Coherent
  <2>3. /\ disk' = [disk EXCEPT ![k] = [type |-> NewType(s.call), nlink |-> 0]]
        /\ ents' = [ents EXCEPT ![k] = NoEnts]
        /\ Cached(i, {k}, Nothing) /\ lock' = [lock EXCEPT ![i] = p]
        /\ Goto(p, [s EXCEPT !.pc = "init", !.ip = k]) /\ UNCHANGED <<cwd, fd, calls>>
        /\ UNCHANGED <<panic, strayed>>
    BY <1>4, Zenon DEF Ialloc
  <2>4. NewType(s.call) \in {"file", "dir", "dev"}
    BY <1>2, Zenon DEF NewType, Creates
  <2> HIDE DEF k, i, free
  <2>5. t = [s EXCEPT !.pc = "init", !.ip = k] /\ st' = [st EXCEPT ![p] = t]
    BY <2>3, Zenon DEF Goto, Inv, TypeInv
  <2>6. t \in Locals
    BY <1>1, <2>2, <2>5, LabelFacts, Zenon DEF Locals
  <2>7. /\ t.pc = "init" /\ t.put = s.put /\ t.ret = s.ret /\ t.call = s.call
        /\ t.new = s.new /\ t.rest = s.rest /\ t.ip = k /\ t.dp = i
    BY <1>1, <2>5, Zenon DEF Locals, i
  <2>8. Where(t) = "init" /\ ~InIput(t)
    BY <2>7, Zenon DEF Where, InIput
  <2>9. Shape(t)
    BY <1>1, <1>2, <2>2, <2>7, <2>8, LocalFacts DEF Shape, Creates
  <2>10. \A n \in Inums : Points(t, cwd[p], fd[p], n) = Points(s, cwd[p], fd[p], n) + One(k, n)
    <3>1. Where(s) # "chdir" /\ Where(t) # "chdir" /\ t.dp = s.dp
      BY <1>1, <2>7, <2>8, Zenon DEF i
    <3> QED
      <4>1. Gets(s, t, k)
        BY <1>2, <2>7, <3>1, Zenon DEF Gets
      <4> QED
        BY <4>1, PointsGet
  <2>11. \A n \in Inums : Locks(t, n) <=> n = i
    BY <2>7, <2>8, Zenon DEF Locks, CallLocks
  <2>12. LockStep(p)
    BY <1>1, <2>3, <2>11, Takes, ZenonT(30) DEF t
  <2>13. /\ disk \in [Inums -> Dinode] /\ mem \in [Inums -> Dinode]
         /\ ref \in [Inums -> Int] /\ valid \in [Inums -> BOOLEAN] /\ ents \in [Inums -> Entries]
    BY Zenon DEF Inv, TypeInv, InodeTypes
  <2>14. \A n \in Inums : mem'[n] = IF n = i THEN disk[n] ELSE mem[n]
    BY <1>1, <2>3, CopyIs, Zenon DEF Cached, Updated, Nothing
  <2>15. mem' \in [Inums -> Dinode]
    <3>1. mem' = [n \in Inums |-> mem'[n]]
      BY <2>3, Zenon DEF Cached, Updated
    <3>2. \A n \in Inums : mem'[n] \in Dinode
      BY <2>13, <2>14, Zenon
    <3> QED
      BY <3>1, <3>2, Zenon
  <2>16. ref' \in [Inums -> Int] /\ valid' \in [Inums -> BOOLEAN]
    BY <2>3, <2>13 DEF Cached
  <2>17. disk' \in [Inums -> Dinode] /\ ents' \in [Inums -> Entries]
    <3>1. [type |-> NewType(s.call), nlink |-> 0] \in Dinode /\ NoEnts \in Entries
      BY <2>4 DEF Dinode, NoEnts, Entries
    <3> QED
      BY <2>2, <2>3, <2>13, <3>1, Zenon
  <2>18. Coherent'
    <3> SUFFICES ASSUME NEW n \in Inums, valid'[n]
                 PROVE  mem'[n] = disk'[n] /\ disk'[n].type # "free"
      BY Zenon DEF Coherent
    <3>1. n = i \/ valid[n]
      BY <2>3, Zenon DEF Cached
    <3>2. n # k /\ disk'[n] = disk[n]
      BY <2>2, <2>3, <2>13, <3>1, Zenon
    <3> QED
      BY <2>2, <2>14, <3>1, <3>2, Zenon DEF Inv, Coherent
  <2>19. InodeStep
    BY <2>15, <2>16, <2>17, <2>18, Zenon DEF InodeStep, InodeTypes
  <2>20. RefStep(p)
    <3>1. \A n \in Inums : ref'[n] = ref[n] + One(k, n)
      BY <2>3, <2>13 DEF Cached, One
    <3> QED
      BY <2>3, <2>10, <2>16, <3>1, GetRefs, Zenon DEF t
  <2>21. Frame(p)
    BY <2>3, <2>5, <2>6, <2>9, Zenon DEF Frame, Inv, TypeInv
  <2> QED
    BY <2>3, <2>12, <2>19, <2>20, <2>21, Zenon DEF Sound, RestStep, Inv, TypeInv
<1> QED
  BY <1>3, <1>4, ZenonT(30)

\* p exchanges the lock of dp for the lock of ip.
LEMMA Exchanges ==
  ASSUME Inv, NEW p \in Procs, NEW i \in Inums, NEW d \in Inums, lock[i] = None,
         \A k \in Inums : Locks(st[p], k) <=> k = d,
         lock' = [lock EXCEPT ![i] = p, ![d] = None], \A k \in Inums : Locks(st'[p], k) <=> k = i
  PROVE  LockStep(p)
<1>0. None \notin Procs
  BY FileSysAssumption, Zenon
<1>1. lock \in [Inums -> Procs \cup {None}] /\ lock[d] = p
  BY LocalFacts, Zenon DEF Inv, TypeInv
<1>2. i # d
  BY <1>0, <1>1, Zenon
<1> QED
  BY <1>1, <1>2, Zenon DEF LockStep

\* At these labels p holds the lock of dp.
LEMMA DpLockFacts ==
  ASSUME Inv, NEW p \in Procs, st[p].pc \in {"init", "unlink", "unlinkbad", "linkfail"}
  PROVE  LET s == st[p] IN
         /\ s \in Locals /\ Shape(s) /\ Where(s) = s.pc /\ ~InIput(s) /\ s.put = 0 /\ s.ret = "user"
         /\ s.dp \in Inums /\ s.dp # 0 /\ s.ip \in Inums \cup {0}
         /\ s.pc # "unlinkbad" <=> s.ip # 0
         /\ \A k \in Inums : Locks(s, k) <=> k = s.dp
         /\ lock[s.dp] = p
         /\ s.pc \in {"init", "unlink"} => s.rest # <<>> /\ Head(s.rest) \in Elems
<1> DEFINE s == st[p]
<1>1. s \in Locals /\ Shape(s)
  BY LocalFacts, Zenon
<1>2. Where(s) = s.pc /\ ~InIput(s)
  BY Zenon DEF Where, InIput
<1>3. /\ s.put = 0 /\ s.ret = "user" /\ s.dp # 0 /\ (s.pc # "unlinkbad" <=> s.ip # 0)
      /\ s.pc \in {"init", "unlink"} => s.rest # <<>>
  BY <1>1, <1>2, Zenon DEF Shape
<1>4. s.dp \in Inums /\ s.ip \in Inums \cup {0} /\ s.rest \in Seq(Elems)
  BY <1>1, <1>3, Zenon DEF Locals
<1>5. \A k \in Inums : Locks(s, k) <=> k = s.dp
  BY <1>2, Zenon DEF Locks, CallLocks
<1>6. lock[s.dp] = p
  BY <1>4, <1>5, LocalFacts, Zenon
<1>7. s.rest # <<>> => Head(s.rest) \in Elems
  BY <1>4, HeadTail, Zenon
<1> QED
  BY <1>1, <1>2, <1>3, <1>4, <1>5, <1>6, <1>7, Zenon

\* create() of a new name is sound: the lock of dp is exchanged for that of ip.
LEMMA SoundInitInode ==
  ASSUME Inv, NEW p \in Procs, InitInode(p)
  PROVE  Sound(p)
<1> DEFINE s == st[p]
           t == st'[p]
           i == s.ip
           d == s.dp
           u == NewLinks(s)
           dots == IF s.call = "mkdir" THEN [NoEnts EXCEPT !["."] = i, ![".."] = d] ELSE NoEnts
<1>1. s.pc = "init"
  BY Zenon DEF InitInode, At
<1>2. /\ s \in Locals /\ Shape(s) /\ Where(s) = "init" /\ ~InIput(s) /\ s.put = 0 /\ s.ret = "user"
      /\ d \in Inums /\ d # 0 /\ i \in Inums /\ i # 0
      /\ \A k \in Inums : Locks(s, k) <=> k = d
      /\ Head(s.rest) \in Elems
  BY <1>1, DpLockFacts, Zenon
<1>3. s.call \in Creates /\ i # d
  BY <1>2, Zenon DEF Shape
<1>4. lock[i] = None /\ ~NoType(i)
  BY <1>1, Zenon DEF InitInode, Ilock, Wants
<1>5. /\ Cached(i, {}, u) /\ Iupdate(u)
      /\ ents' = [ents EXCEPT ![i] = dots, ![d][Head(s.rest)] = i]
      /\ lock' = [lock EXCEPT ![i] = p, ![d] = None]
      /\ UNCHANGED <<cwd, fd, calls, panic, strayed>>
  BY Zenon DEF InitInode
<1>6. t = Put([s EXCEPT !.dp = 0], d, "created") /\ st' = [st EXCEPT ![p] = t]
  BY Zenon DEF InitInode, Goto, Inv, TypeInv
<1>7. InodeTypes' /\ Coherent' /\ \A k \in Inums : ref'[k] = ref[k]
  <2>1. /\ Copy(i) = disk[i] /\ disk[i] \in Dinode
        /\ Copy(d) = disk[d] /\ disk[d] \in Dinode
    BY <1>2, CopyIs, Zenon
  <2>2. DOMAIN u \subseteq {i, d}
    BY Zenon DEF NewLinks
  <2>3. ASSUME NEW k \in DOMAIN u PROVE u[k] \in Dinode /\ u[k].type = disk[k].type
    <3>1. u[k] = [Copy(k) EXCEPT !.nlink = IF k = i THEN 1 ELSE @ + 1]
      BY <2>3, Zenon DEF NewLinks
    <3>2. Copy(k) = disk[k] /\ disk[k] \in Dinode
      BY <2>1, <2>2, Zenon
    <3>3. u[k] = [disk[k] EXCEPT !.nlink = IF k = i THEN 1 ELSE disk[k].nlink + 1]
      BY <3>1, <3>2, Zenon
    <3> HIDE DEF u
    <3> QED
      BY <3>2, <3>3 DEF Dinode
  <2>4. DOMAIN u \subseteq Inums
    BY <1>2, <2>2, Zenon
  <2> HIDE DEF u, i
  <2>5. /\ InodeTypes' /\ Coherent'
        /\ \A k \in Inums : ref'[k] = IF k \in {} THEN ref[k] + 1 ELSE ref[k]
    BY <1>2, <1>4, <1>5, <2>3, <2>4, CachedSound
  <2> QED
    BY <2>5, Zenon
<1>8. ents' \in [Inums -> Entries]
  <2>1. ents \in [Inums -> [Elems -> Inums \cup {0}]]
    BY Zenon DEF Inv, TypeInv, Entries
  <2>2. dots \in [Elems -> Inums \cup {0}]
    BY <1>2, Zenon DEF NoEnts
  <2> HIDE DEF i, d, dots
  <2>3. [ents EXCEPT ![i] = dots] \in [Inums -> [Elems -> Inums \cup {0}]]
    BY <2>1, <2>2, Zenon
  <2>4. ents' = [[ents EXCEPT ![i] = dots] EXCEPT ![d][Head(s.rest)] = i]
    BY <1>5, Zenon
  <2> QED
    BY <1>2, <2>3, <2>4, Zenon DEF Entries
<1> HIDE DEF t, i, d, u
<1>9. "created" \in Labels
  BY LabelFacts, Zenon
<1>10. /\ t \in Locals /\ t.pc = "put" /\ t.put = d /\ t.ret = "created" /\ t.call = s.call
       /\ t.ip = i /\ t.dp = 0 /\ InIput(t) /\ Where(t) = "created"
  BY <1>2, <1>6, <1>9, PutDpFields DEF d, i
<1>11. Shape(t)
  BY <1>2, <1>3, <1>10, Zenon DEF Shape, Creates
<1>12. Where(s) # "chdir" /\ Where(t) # "chdir" /\ t.put = s.dp /\ t.dp = 0 /\ t.ip = s.ip
  BY <1>2, <1>10, Zenon DEF d, i
<1>13. \A k \in Inums : Points(t, cwd[p], fd[p], k) = Points(s, cwd[p], fd[p], k)
  <2>1. Moves(s, t)
    BY <1>2, <1>12, Zenon DEF Moves
  <2> QED
    BY <2>1, PointsMove
<1>14. \A k \in Inums : Locks(t, k) <=> k = i
  BY <1>10, Zenon DEF Locks, CallLocks
<1>15. LockStep(p)
  BY <1>2, <1>4, <1>5, <1>14, Exchanges, Zenon DEF t
<1>16. RefStep(p)
  BY <1>5, <1>7, <1>13, SameRefs, Zenon DEF t, InodeTypes
<1>17. Frame(p)
  BY <1>5, <1>6, <1>10, <1>11, Zenon DEF Frame, Inv, TypeInv, t
<1> QED
  BY <1>5, <1>7, <1>8, <1>15, <1>16, <1>17, Zenon DEF Sound, InodeStep, RestStep, Inv,
     TypeInv

\* The end of create() is sound.
LEMMA SoundCreated ==
  ASSUME Inv, NEW p \in Procs, Created(p)
  PROVE  Sound(p)
<1> DEFINE s == st[p]
<1>1. s \in Locals /\ Shape(s) /\ s.pc = "created"
  BY LocalFacts, Zenon DEF Created, At
<1>2. Where(s) = "created" /\ s.put = 0 /\ s.dp = 0 /\ s.ip \in Inums
  BY <1>1, Zenon DEF Shape, Where, InIput, Locals
<1>3. \A k \in Inums : Locks(s, k) <=> k = s.ip
  BY <1>1, <1>2, Zenon DEF Locks, CallLocks
<1>4. /\ lock' = [lock EXCEPT ![s.ip] = None] /\ UNCHANGED <<disk, ents, ref, valid, mem, cwd>>
      /\ RestStep
  BY Zenon DEF Created, RestStep, Inv, TypeInv
<1>w. Where(s) # "chdir"
  BY <1>2, Zenon
<1>5. Leaves(p)
  BY <1>2, <1>w, IputIpLeaves, OpenFileLeaves, Zenon DEF Created
<1>6. LockStep(p)
  BY <1>2, <1>3, <1>4, <1>5, LetGo, Zenon DEF Leaves
<1> QED
  BY <1>4, <1>5, <1>6, LeavesSound, SamePlace, ZenonT(30)

\* dirlink() of sys_link() is sound, and so is its failure with dp locked.
LEMMA SoundDirlink ==
  ASSUME Inv, NEW p \in Procs, Dirlink(p)
  PROVE  Sound(p)
<1> DEFINE s == st[p]
           t == st'[p]
           i == s.dp
           j == Entry(s)
<1>1. /\ s \in Locals /\ Shape(s) /\ s.pc = "parent" /\ Where(s) = "parent" /\ s.put = 0
      /\ i \in Inums /\ i # 0 /\ s.ip \in Inums \cup {0} /\ s.ip # 0
      /\ ~NoType(i) /\ lock[i] = None /\ \A k \in Inums : ~Locks(s, k)
      /\ j \in Inums \cup {0} /\ Head(s.rest) \in Elems
  BY ParentFacts, Zenon DEF Dirlink
<1>2. s.call = "link" /\ RestStep /\ UNCHANGED <<disk, cwd, fd>> /\ st' = [st EXCEPT ![p] = t]
  <2>1. UNCHANGED strayed \/ Follow(i, Head(s.rest))
    BY Zenon DEF Dirlink
  <2>2. strayed' \in BOOLEAN /\ (strayed => strayed')
    BY <2>1, FollowKeeps, Zenon DEF Inv, TypeInv
  <2>3. s.call = "link" /\ UNCHANGED <<disk, cwd, fd, calls, panic>>
    BY Zenon DEF Dirlink
  <2>4. st' = [st EXCEPT ![p] = t]
    BY Zenon DEF Dirlink, Goto, Inv, TypeInv
  <2> QED
    BY <2>2, <2>3, <2>4, Zenon DEF RestStep, Inv, TypeInv
<1>w. Where(s) # "chdir"
  BY <1>1, Zenon
<1>3. CASE j = 0
  <2>1. /\ Cached(i, {}, Nothing) /\ ents' = [ents EXCEPT ![i][Head(s.rest)] = s.ip]
        /\ Goto(p, Put([s EXCEPT !.dp = 0], i, "linked")) /\ UNCHANGED lock
    BY <1>3, Zenon DEF Dirlink
  <2>2. t = Put([s EXCEPT !.dp = 0], i, "linked") /\ "linked" \in Labels
    BY <2>1, LabelFacts, Zenon DEF Goto, Inv, TypeInv
  <2>3. ents' \in [Inums -> Entries]
    BY <1>1, <2>1, Zenon DEF Inv, TypeInv, Entries
  <2> HIDE DEF t
  <2>4. /\ t \in Locals /\ t.pc = "put" /\ t.put = s.dp /\ t.ret = "linked" /\ t.call = s.call
        /\ t.ip = s.ip /\ t.dp = 0 /\ InIput(t) /\ Where(t) = "linked"
    BY <1>1, <2>2, PutDpFields
  <2>5. Shape(t)
    BY <1>1, <1>2, <2>4, Zenon DEF Shape
  <2>6. Where(t) # "chdir"
    BY <2>4, Zenon
  <2>7. \A k \in Inums : Points(t, cwd[p], fd[p], k) = Points(s, cwd[p], fd[p], k)
    <3>1. Moves(s, t)
      BY <1>1, <1>w, <2>4, <2>6, Zenon DEF Moves
    <3> QED
      BY <3>1, PointsMove
  <2>8. \A k \in Inums : ~Locks(t, k)
    BY <2>4, Zenon DEF Locks, CallLocks
  <2>9. LockStep(p)
    BY <1>1, <2>1, <2>8, NoLocks, Zenon DEF t
  <2> HIDE DEF i
  <2> QED
    BY <1>1, <1>2, <2>1, <2>3, <2>4, <2>5, <2>7, <2>9, LockedSound, Zenon DEF t
<1>4. CASE j # 0
  <2>1. /\ Cached(i, {j}, Nothing) /\ lock' = [lock EXCEPT ![i] = p]
        /\ Goto(p, Put(s, j, "linkfail")) /\ UNCHANGED ents
    BY <1>4, Zenon DEF Dirlink
  <2>2. t = Put(s, j, "linkfail") /\ "linkfail" \in Labels /\ j \in Inums
    BY <1>1, <1>4, <2>1, LabelFacts, Zenon DEF Goto, Inv, TypeInv
  <2>3. ents' \in [Inums -> Entries]
    BY <2>1, Zenon DEF Inv, TypeInv
  <2> HIDE DEF t, j
  <2>4. /\ t \in Locals /\ t.pc = "put" /\ t.put = j /\ t.ret = "linkfail" /\ t.call = s.call
        /\ t.ip = s.ip /\ t.dp = s.dp /\ InIput(t) /\ Where(t) = "linkfail"
    BY <1>1, <2>2, PutFields
  <2>5. Shape(t)
    BY <1>1, <1>2, <1>4, <2>4, Zenon DEF Shape
  <2>6. Where(t) # "chdir"
    BY <2>4, Zenon
  <2>7. \A k \in Inums : Points(t, cwd[p], fd[p], k) = Points(s, cwd[p], fd[p], k) + One(j, k)
    <3>1. Gets(s, t, j)
      BY <1>1, <1>w, <2>4, <2>6, Zenon DEF Gets
    <3> QED
      BY <3>1, PointsGet
  <2>8. \A k \in Inums : Locks(t, k) <=> k = i
    BY <2>4, Zenon DEF Locks, CallLocks
  <2> HIDE DEF i
  <2>9. LockStep(p)
    BY <1>1, <2>1, <2>8, Takes, Zenon DEF t
  <2> QED
    BY <1>1, <1>2, <2>1, <2>2, <2>3, <2>4, <2>5, <2>7, <2>9, GetSound, ZenonT(30) DEF t
<1> QED
  BY <1>3, <1>4, Zenon

\* The end of sys_link() is sound.
LEMMA SoundLinked ==
  ASSUME Inv, NEW p \in Procs, Linked(p)
  PROVE  Sound(p)
<1> DEFINE s == st[p]
<1>1. s \in Locals /\ Shape(s) /\ s.pc = "linked"
  BY LocalFacts, Zenon DEF Linked, At
<1>2. Where(s) = "linked" /\ s.put = 0 /\ s.dp = 0 /\ s.ip \in Inums
  BY <1>1, Zenon DEF Shape, Where, InIput, Locals
<1>3. \A k \in Inums : ~Locks(s, k)
  BY <1>1, <1>2, Zenon DEF Locks, CallLocks
<1>4. UNCHANGED <<disk, ents, ref, valid, mem, lock, cwd>> /\ RestStep
  BY Zenon DEF Linked, RestStep, Inv, TypeInv
<1>w. Where(s) # "chdir"
  BY <1>2, Zenon
<1>5. Leaves(p)
  BY <1>2, <1>w, IputIpLeaves, Zenon DEF Linked
<1>6. LockStep(p)
  BY <1>3, <1>4, <1>5, NoLocks, Zenon DEF Leaves
<1> QED
  BY <1>4, <1>5, <1>6, LeavesSound, SamePlace, Zenon

\* The failure of sys_link() is sound: the count on the disk and in the cache agree.
LEMMA SoundLinkBad ==
  ASSUME Inv, NEW p \in Procs, LinkBad(p)
  PROVE  Sound(p)
<1> DEFINE s == st[p]
           i == s.ip
<1>1. s \in Locals /\ Shape(s) /\ s.pc = "bad"
  BY LocalFacts, Zenon DEF LinkBad, At
<1>2. Where(s) = "bad" /\ s.put = 0 /\ s.dp = 0 /\ i \in Inums /\ i # 0
  BY <1>1, Zenon DEF Shape, Where, InIput, Locals
<1>3. \A k \in Inums : ~Locks(s, k)
  BY <1>1, <1>2, Zenon DEF Locks, CallLocks
<1>4. ~NoType(i) /\ Cached(i, {}, Links(i, -1)) /\ Iupdate(Links(i, -1))
  BY <1>1, Zenon DEF LinkBad, Ilock, Wants
<1>5. UNCHANGED <<lock, cwd>> /\ RestStep /\ ents' \in [Inums -> Entries]
  BY Zenon DEF LinkBad, RestStep, Inv, TypeInv
<1>w. Where(s) # "chdir"
  BY <1>2, Zenon
<1>6. Leaves(p)
  BY <1>2, <1>w, IputIpLeaves, Zenon DEF LinkBad
<1>7. LockStep(p)
  BY <1>3, <1>5, <1>6, NoLocks, Zenon DEF Leaves
<1> HIDE DEF i
<1>8. InodeStep /\ \A k \in Inums : ref'[k] = ref[k]
  <2>1. -1 \in Int
    OBVIOUS
  <2> QED
    BY <1>2, <1>4, <1>5, <2>1, LinksSound, Zenon
<1> QED
  BY <1>5, <1>6, <1>7, <1>8, LeavesSound, Zenon

\* The end of sys_unlink() is sound.
LEMMA SoundUnlinked ==
  ASSUME Inv, NEW p \in Procs, Unlinked(p)
  PROVE  Sound(p)
<1> DEFINE s == st[p]
           i == s.ip
<1>1. s \in Locals /\ Shape(s) /\ s.pc = "unlinked"
  BY LocalFacts, Zenon DEF Unlinked, At
<1>2. Where(s) = "unlinked" /\ s.put = 0 /\ s.dp = 0 /\ i \in Inums /\ i # 0
  BY <1>1, Zenon DEF Shape, Where, InIput, Locals
<1>3. \A k \in Inums : Locks(s, k) <=> k = i
  BY <1>1, <1>2, Zenon DEF Locks, CallLocks
<1>4. Cached(0, {}, Links(i, -1)) /\ Iupdate(Links(i, -1))
  BY <1>1, Zenon DEF Unlinked
<1>5. /\ lock' = [lock EXCEPT ![i] = None] /\ UNCHANGED cwd /\ RestStep
      /\ ents' \in [Inums -> Entries]
  BY Zenon DEF Unlinked, RestStep, Inv, TypeInv
<1>w. Where(s) # "chdir"
  BY <1>2, Zenon
<1>6. Leaves(p)
  BY <1>2, <1>w, IputIpLeaves, Zenon DEF Unlinked
<1> HIDE DEF i
<1>7. LockStep(p)
  BY <1>2, <1>3, <1>5, <1>6, LetGo, ZenonT(30) DEF Leaves
<1>8. InodeStep /\ \A k \in Inums : ref'[k] = ref[k]
  <2>1. -1 \in Int
    OBVIOUS
  <2> QED
    BY <1>2, <1>4, <1>5, <2>1, LinksSound, ZenonT(30)
<1> QED
  BY <1>5, <1>6, <1>7, <1>8, LeavesSound, Zenon

\* sys_unlink() with the parent is sound.
LEMMA SoundParentUnlink ==
  ASSUME Inv, NEW p \in Procs, ParentUnlink(p)
  PROVE  Sound(p)
<1> DEFINE s == st[p]
           t == st'[p]
           i == s.dp
           j == Entry(s)
<1>1. /\ s \in Locals /\ Shape(s) /\ s.pc = "parent" /\ Where(s) = "parent" /\ s.put = 0
      /\ i \in Inums /\ i # 0 /\ s.ip \in Inums \cup {0} /\ s.ip = 0 /\ s.ret = "user"
      /\ ~NoType(i) /\ lock[i] = None /\ \A k \in Inums : ~Locks(s, k)
      /\ j \in Inums \cup {0} /\ s.rest # <<>>
  BY ParentFacts, Zenon DEF ParentUnlink
<1>2. /\ s.call = "unlink" /\ RestStep /\ UNCHANGED <<disk, cwd, fd>> /\ st' = [st EXCEPT ![p] = t]
      /\ ents' \in [Inums -> Entries]
  BY Zenon DEF ParentUnlink, RestStep, Goto, Inv, TypeInv
<1>w. Where(s) # "chdir"
  BY <1>1, Zenon
<1>3. ASSUME Cached(i, {}, Nothing), Goto(p, Put([s EXCEPT !.dp = 0], i, "user")), UNCHANGED lock
      PROVE  Sound(p)
  <2>2. t = Put([s EXCEPT !.dp = 0], i, "user") /\ "user" \in Labels
    BY <1>3, LabelFacts, Zenon DEF Goto, Inv, TypeInv
  <2> HIDE DEF t
  <2>4. /\ t \in Locals /\ t.pc = "put" /\ t.put = s.dp /\ t.ret = "user" /\ t.call = s.call
        /\ t.ip = s.ip /\ t.dp = 0 /\ InIput(t) /\ Where(t) = "user"
    BY <1>1, <2>2, PutDpFields
  <2>5. Shape(t)
    BY <1>1, <1>2, <2>4, Zenon DEF Shape
  <2>6. Where(t) # "chdir"
    BY <2>4, Zenon
  <2>7. \A k \in Inums : Points(t, cwd[p], fd[p], k) = Points(s, cwd[p], fd[p], k)
    <3>1. Moves(s, t)
      BY <1>1, <1>w, <2>4, <2>6, Zenon DEF Moves
    <3> QED
      BY <3>1, PointsMove
  <2>8. \A k \in Inums : ~Locks(t, k)
    BY <2>4, Zenon DEF Locks, CallLocks
  <2>9. LockStep(p)
    BY <1>1, <1>3, <2>8, NoLocks, Zenon DEF t
  <2> HIDE DEF i
  <2> QED
    BY <1>1, <1>2, <1>3, <2>4, <2>5, <2>7, <2>9, LockedSound, ZenonT(30) DEF t
<1>4. ASSUME j # 0, Cached(i, {j}, Nothing), lock' = [lock EXCEPT ![i] = p],
             Goto(p, [s EXCEPT !.pc = "unlink", !.ip = j])
      PROVE  Sound(p)
  <2>1. t = [s EXCEPT !.pc = "unlink", !.ip = j] /\ j \in Inums
    BY <1>1, <1>4, Zenon DEF Goto, Inv, TypeInv
  <2> HIDE DEF t, j
  <2>2. t \in Locals
    BY <1>1, <2>1, LabelFacts, Zenon DEF Locals
  <2>3. /\ t.pc = "unlink" /\ t.put = s.put /\ t.ret = s.ret /\ t.call = s.call
        /\ t.new = s.new /\ t.rest = s.rest /\ t.ip = j /\ t.dp = s.dp
    BY <1>1, <2>1, Zenon DEF Locals
  <2>4. Where(t) = "unlink" /\ ~InIput(t)
    BY <2>3, Zenon DEF Where, InIput
  <2>5. Shape(t)
    BY <1>1, <1>2, <1>4, <2>3, <2>4, Zenon DEF Shape
  <2>6. Where(t) # "chdir"
    BY <2>4, Zenon
  <2>7. \A k \in Inums : Points(t, cwd[p], fd[p], k) = Points(s, cwd[p], fd[p], k) + One(j, k)
    <3>1. Gets(s, t, j)
      BY <1>1, <1>w, <2>3, <2>6, Zenon DEF Gets
    <3> QED
      BY <3>1, PointsGet
  <2>8. \A k \in Inums : Locks(t, k) <=> k = i
    BY <2>3, <2>4, Zenon DEF Locks, CallLocks
  <2> HIDE DEF i
  <2>9. LockStep(p)
    BY <1>1, <1>4, <2>8, Takes, Zenon DEF t
  <2> QED
    BY <1>1, <1>2, <1>4, <2>1, <2>2, <2>5, <2>7, <2>9, GetSound, ZenonT(30) DEF t
<1> QED
  BY <1>3, <1>4, Zenon DEF ParentUnlink

\* sys_unlink() with both locks is sound.
LEMMA SoundUnlink ==
  ASSUME Inv, NEW p \in Procs, Unlink(p)
  PROVE  Sound(p)
<1> DEFINE s == st[p]
           t == st'[p]
           i == s.ip
           d == s.dp
           dir == Copy(i).type = "dir"
           u == IF dir THEN Links(d, -1) ELSE Nothing
<1>1. s.pc = "unlink"
  BY Zenon DEF Unlink, At
<1>2. /\ s \in Locals /\ Shape(s) /\ Where(s) = "unlink" /\ ~InIput(s)
      /\ s.put = 0 /\ s.ret = "user"
      /\ d \in Inums /\ d # 0 /\ i \in Inums /\ i # 0
      /\ \A k \in Inums : Locks(s, k) <=> k = d
      /\ lock[d] = p /\ Head(s.rest) \in Elems
  BY <1>1, DpLockFacts, Zenon
<1>3. s.call = "unlink"
  BY <1>2, Zenon DEF Shape
<1>4. lock[i] = None /\ ~NoType(i)
  BY <1>1, Zenon DEF Unlink, Ilock, Wants
<1>5. RestStep /\ UNCHANGED <<cwd, fd>> /\ st' = [st EXCEPT ![p] = t]
  BY Zenon DEF Unlink, RestStep, Goto, Inv, TypeInv
<1>w. Where(s) # "chdir"
  BY <1>2, Zenon
<1>6. ASSUME Cached(i, {}, Nothing), Goto(p, Put([s EXCEPT !.ip = 0], i, "unlinkbad")),
             UNCHANGED <<disk, ents, lock>>
      PROVE  Sound(p)
  <2>1. t = Put([s EXCEPT !.ip = 0], i, "unlinkbad") /\ "unlinkbad" \in Labels
    BY <1>6, LabelFacts, Zenon DEF Goto, Inv, TypeInv
  <2> HIDE DEF t
  <2>2. /\ t \in Locals /\ t.pc = "put" /\ t.put = s.ip /\ t.ret = "unlinkbad" /\ t.call = s.call
        /\ t.ip = 0 /\ t.dp = s.dp /\ InIput(t) /\ Where(t) = "unlinkbad"
    BY <1>2, <2>1, PutIpFields
  <2>3. Shape(t)
    BY <1>2, <1>3, <2>2, Zenon DEF Shape
  <2>4. Where(t) # "chdir"
    BY <2>2, Zenon
  <2>5. \A k \in Inums : Points(t, cwd[p], fd[p], k) = Points(s, cwd[p], fd[p], k)
    <3>1. Moves(s, t)
      BY <1>2, <1>w, <2>2, <2>4, Zenon DEF Moves
    <3> QED
      BY <3>1, PointsMove
  <2>6. \A k \in Inums : Locks(t, k) <=> k = d
    BY <2>2, Zenon DEF Locks, CallLocks
  <2>7. LockStep(p)
    BY <1>2, <1>6, <2>6, LocalFacts, Zenon DEF LockStep, Inv, TypeInv, t
  <2>8. ents' \in [Inums -> Entries] /\ disk' = disk
    BY <1>6, Zenon DEF Inv, TypeInv
  <2> HIDE DEF i
  <2> QED
    BY <1>2, <1>4, <1>5, <1>6, <2>2, <2>3, <2>5, <2>7, <2>8, LockedSound, ZenonT(30) DEF
       t
<1>7. ASSUME Cached(i, {}, u), Iupdate(u), ents' = [ents EXCEPT ![d][Head(s.rest)] = 0],
             lock' = [lock EXCEPT ![i] = p, ![d] = None],
             Goto(p, Put([s EXCEPT !.dp = 0], d, "unlinked"))
      PROVE  Sound(p)
  <2>1. t = Put([s EXCEPT !.dp = 0], d, "unlinked") /\ "unlinked" \in Labels
    BY <1>7, LabelFacts, Zenon DEF Goto, Inv, TypeInv
  <2> HIDE DEF t
  <2>2. /\ t \in Locals /\ t.pc = "put" /\ t.put = s.dp /\ t.ret = "unlinked" /\ t.call = s.call
        /\ t.ip = s.ip /\ t.dp = 0 /\ InIput(t) /\ Where(t) = "unlinked"
    BY <1>2, <2>1, PutDpFields
  <2>3. Shape(t)
    BY <1>2, <1>3, <2>2, Zenon DEF Shape
  <2>4. Where(t) # "chdir"
    BY <2>2, Zenon
  <2>5. \A k \in Inums : Points(t, cwd[p], fd[p], k) = Points(s, cwd[p], fd[p], k)
    <3>1. Moves(s, t)
      BY <1>2, <1>w, <2>2, <2>4, Zenon DEF Moves
    <3> QED
      BY <3>1, PointsMove
  <2>6. \A k \in Inums : Locks(t, k) <=> k = i
    BY <2>2, Zenon DEF Locks, CallLocks
  <2>8. ents' \in [Inums -> Entries]
    BY <1>2, <1>7, Zenon DEF Inv, TypeInv, Entries
  <2> HIDE DEF i, d
  <2>7. LockStep(p)
    BY <1>2, <1>4, <1>7, <2>6, Exchanges, Zenon DEF t
  <2>9. InodeStep /\ \A k \in Inums : ref'[k] = ref[k]
    <3>1. CASE dir
      <4>1. Cached(i, {}, Links(d, -1)) /\ Iupdate(Links(d, -1)) /\ -1 \in Int
        BY <1>7, <3>1
      <4> QED
        BY <1>2, <1>4, <2>8, <4>1, LinksSound, Zenon
    <3>2. CASE ~dir
      <4>1. Cached(i, {}, Nothing) /\ Iupdate(Nothing)
        BY <1>7, <3>2, Zenon
      <4>2. disk' = disk
        BY <4>1, Zenon DEF Iupdate, Updated, Nothing, Inv, TypeInv, InodeTypes
      <4>3. InodeStep /\ \A k \in Inums : ref'[k] = IF k \in {} THEN ref[k] + 1 ELSE ref[k]
        BY <1>2, <1>4, <2>8, <4>1, <4>2, CachedOnly
      <4> QED
        BY <4>3, Zenon
    <3> QED
      BY <3>1, <3>2, Zenon
  <2>10. RefStep(p)
    BY <1>5, <2>5, <2>9, SameRefs, Zenon DEF t, InodeStep, InodeTypes
  <2>11. Frame(p)
    BY <1>5, <2>2, <2>3, Zenon DEF Frame, Inv, TypeInv, t
  <2> QED
    BY <1>5, <2>7, <2>9, <2>10, <2>11, Zenon DEF Sound
<1> QED
  BY <1>6, <1>7, Zenon DEF Unlink

\* iunlockput(dp) of a call that fails is sound.
LEMMA SoundIunlockputDp ==
  ASSUME Inv, NEW p \in Procs, IunlockputDp(p)
  PROVE  Sound(p)
<1> DEFINE s == st[p]
           t == st'[p]
           i == s.dp
<1>1. s.pc \in {"linkfail", "unlinkbad"}
  BY Zenon DEF IunlockputDp, At
<1>2. /\ s \in Locals /\ Shape(s) /\ Where(s) = s.pc /\ ~InIput(s) /\ s.put = 0 /\ s.ret = "user"
      /\ i \in Inums /\ i # 0 /\ s.ip \in Inums \cup {0} /\ (s.pc = "linkfail" <=> s.ip # 0)
      /\ \A k \in Inums : Locks(s, k) <=> k = i
  BY <1>1, DpLockFacts, Zenon
<1>3. /\ lock' = [lock EXCEPT ![i] = None] /\ UNCHANGED <<disk, ents, ref, valid, mem, cwd, fd>>
      /\ RestStep /\ st' = [st EXCEPT ![p] = t]
  BY Zenon DEF IunlockputDp, RestStep, Goto, Inv, TypeInv
<1>4. PICK r \in {"bad", "user"} : /\ t = Put([s EXCEPT !.dp = 0], i, r)
                                   /\ r = IF s.pc = "linkfail" THEN "bad" ELSE "user"
  BY <1>1, Zenon DEF IunlockputDp, Goto, At, Inv, TypeInv
<1>5. r \in Labels
  BY LabelFacts, Zenon
<1> HIDE DEF t
<1>6. /\ t \in Locals /\ t.pc = "put" /\ t.put = s.dp /\ t.ret = r /\ t.call = s.call
      /\ t.ip = s.ip /\ t.dp = 0 /\ InIput(t) /\ Where(t) = r
  BY <1>2, <1>4, <1>5, PutDpFields
<1>7. Shape(t)
  BY <1>1, <1>2, <1>4, <1>6, ZenonT(30) DEF Shape
<1>8. Where(s) # "chdir" /\ Where(t) # "chdir"
  BY <1>1, <1>2, <1>6, Zenon
<1>9. \A k \in Inums : Points(t, cwd[p], fd[p], k) = Points(s, cwd[p], fd[p], k)
  <2>1. Moves(s, t)
    BY <1>2, <1>6, <1>8, Zenon DEF Moves
  <2> QED
    BY <2>1, PointsMove
<1>10. \A k \in Inums : ~Locks(t, k)
  BY <1>6, Zenon DEF Locks, CallLocks
<1> HIDE DEF i
<1>11. LockStep(p)
  BY <1>2, <1>3, <1>10, LetGo, Zenon DEF t
<1>12. InodeStep /\ ref' \in [Inums -> Int]
  BY <1>3, SamePlace, Zenon
<1>13. RefStep(p)
  BY <1>3, <1>9, <1>12, SameRefs, Zenon DEF t
<1>14. Frame(p)
  BY <1>3, <1>6, <1>7, Zenon DEF Frame, Inv, TypeInv, t
<1> QED
  BY <1>3, <1>11, <1>12, <1>13, <1>14, Zenon DEF Sound

\* close() is sound: the file's pointer is the one that iput() gives up.
LEMMA SoundClose ==
  ASSUME Inv, NEW p \in Procs, Close(p)
  PROVE  Sound(p)
<1> DEFINE s == st[p]
           t == st'[p]
           i == fd[p]
<1>1. s \in Locals /\ Shape(s) /\ s.pc = "user" /\ i \in Inums /\ i # 0
  BY LocalFacts, Zenon DEF Close, At
<1>2. Where(s) = "user" /\ s.put = 0 /\ s.dp = 0 /\ s.ip = 0
  BY <1>1, Zenon DEF Shape, Where, InIput
<1>3. \A k \in Inums : ~Locks(s, k)
  BY <1>1, <1>2, Zenon DEF Locks, CallLocks
<1>4. t = Put(Idle, i, "user") /\ st' = [st EXCEPT ![p] = t] /\ "user" \in Labels
  BY LabelFacts, Zenon DEF Close, Goto, Inv, TypeInv
<1>5. /\ t \in Locals /\ t.pc = "put" /\ t.put = i /\ t.ret = "user" /\ t.call = Idle.call
      /\ t.ip = 0 /\ t.dp = 0 /\ InIput(t) /\ Where(t) = "user"
  BY <1>1, <1>4, IdleLocal, PutFields
<1>6. Shape(t)
  BY <1>1, <1>5, Zenon DEF Shape
<1>7. \A k \in Inums : ~Locks(t, k)
  BY <1>5, Zenon DEF Locks, CallLocks
<1>8. /\ UNCHANGED <<disk, ents, ref, valid, mem, lock, cwd>>
      /\ fd' = [fd EXCEPT ![p] = 0] /\ fd \in [Procs -> Inums \cup {0}]
  BY Zenon DEF Close, Inv, TypeInv
<1>9. RestStep
  <2>1. MaxCalls \in Nat
    BY FileSysAssumption, Zenon
  <2> QED
    BY <2>1 DEF RestStep, Close, Inv, TypeInv
<1>10. fd' \in [Procs -> Inums \cup {0}] /\ fd'[p] = 0 /\ \A q \in Procs \ {p} : fd'[q] = fd[q]
  BY <1>8, Zenon
<1>11. ASSUME NEW k \in Inums
       PROVE  Points(t, cwd'[p], fd'[p], k) = Points(s, cwd[p], fd[p], k)
  <2>1. One(0, k) = 0 /\ One(cwd[p], k) \in Int /\ One(i, k) \in Int
    BY OneFacts, Zenon
  <2> QED
    BY <1>2, <1>5, <1>8, <1>10, <2>1 DEF Points
<1>12. InodeStep /\ ref' \in [Inums -> Int]
  BY <1>8, SamePlace, Zenon
<1>13. RefStep(p)
  BY <1>8, <1>11, <1>12, SameRefs, ZenonT(30)
<1>14. LockStep(p)
  BY <1>3, <1>7, <1>8, NoLocks, Zenon
<1>15. Frame(p)
  BY <1>4, <1>5, <1>6, <1>8, <1>10, ZenonT(30) DEF Frame, Inv, TypeInv
<1> QED
  BY <1>9, <1>12, <1>13, <1>14, <1>15, ZenonT(30) DEF Sound

\* A panic stops the system where it is.
LEMMA SoundPanic ==
  ASSUME Inv, NEW p \in Procs, Panic(p)
  PROVE  Sound(p)
<1>1. UNCHANGED <<disk, ents, ref, valid, mem, lock, cwd, fd, st, calls, strayed>> /\ panic' = TRUE
  BY Zenon DEF Panic
<1>2. InodeStep /\ ref' \in [Inums -> Int]
  BY <1>1, SamePlace, Zenon
<1>3. RefStep(p)
  BY <1>1, <1>2, SameRefs, Zenon
<1>4. LockStep(p)
  <2>1. \A i \in Inums : lock[i] = p <=> Locks(st[p], i)
    BY LocalFacts, Zenon
  <2> QED
    BY <1>1, <2>1, Zenon DEF LockStep, Inv, TypeInv
<1>5. Frame(p)
  BY <1>1, LocalFacts, Zenon DEF Frame, Inv, TypeInv
<1> QED
  BY <1>1, <1>2, <1>3, <1>4, <1>5, ZenonT(30) DEF Sound, RestStep, Inv, TypeInv

----------------------------------------------------------------------------
(* The invariant.                                                           *)

\* Every step of p is sound.
LEMMA NextSound ==
  ASSUME Inv, NEW p \in Procs, Call(p) \/ Close(p) \/ Step(p)
  PROVE  Sound(p)
BY SoundPutLock, SoundPutFree, SoundPutDrop, SoundCall, SoundWalkNew, SoundWalkStep,
   SoundFound, SoundChdir, SoundParentExists, SoundExists, SoundIalloc, SoundInitInode,
   SoundCreated, SoundDirlink, SoundLinked, SoundLinkBad, SoundParentUnlink,
   SoundUnlink, SoundUnlinked, SoundIunlockputDp, SoundClose, SoundPanic, ZenonT(30) DEF Step

\* At boot every process has the root as its current directory and no pointer
\* besides.
LEMMA InitInv ==
  ASSUME Init
  PROVE  Inv
<1>0. /\ ROOTINO \in Inums /\ 0 \notin Inums /\ MaxCalls \in Nat
      /\ None \notin Procs /\ IsFiniteSet(Procs)
  BY FileSysAssumption, Zenon
<1>1. PICK tr \in Trees : disk = DiskOf(tr) /\ ents = EntsOf(tr)
  BY Zenon DEF Init
<1>2. disk \in [Inums -> Dinode] /\ ents \in [Inums -> Entries]
  BY <1>1, FileSysAssumption, Zenon DEF Consistent
<1>4. Cardinality(Procs) \in Nat
  BY <1>0, FS_CardinalityType, Zenon
<1>5. TypeInv
  <2>1. NoInode \in Dinode
    BY DEF NoInode, Dinode
  <2>2. InodeTypes
    BY <1>2, <1>4, <2>1 DEF InodeTypes, Init
  <2>3. lock \in [Inums -> Procs \cup {None}]
    BY Zenon DEF Init
  <2>4. cwd \in [Procs -> Inums] /\ fd \in [Procs -> Inums \cup {0}]
    BY <1>0, Zenon DEF Init
  <2>5. st \in [Procs -> Locals]
    BY IdleLocal, Zenon DEF Init
  <2>6. calls \in 0 .. MaxCalls
    <3>1. calls = 0
      BY Zenon DEF Init
    <3> QED
      BY <1>0, <3>1
  <2>7. panic \in BOOLEAN /\ strayed \in BOOLEAN
    BY Zenon DEF Init
  <2> QED
    BY <1>2, <2>2, <2>3, <2>4, <2>5, <2>6, <2>7, Zenon DEF TypeInv
<1>6. ShapeInv
  BY IdleLocal, Zenon DEF Init, ShapeInv
<1>7. LockInv
  BY <1>0, IdleLocal, Zenon DEF Init, LockInv
<1>8. Coherent
  BY Zenon DEF Init, Coherent
<1>9. RefInv
  <2> SUFFICES ASSUME NEW i \in Inums PROVE ref[i] = Cardinality(Refs(i))
    BY Zenon DEF RefInv
  <2>1. \A q \in Procs : /\ st[q] = Idle /\ cwd[q] = ROOTINO /\ fd[q] = 0 /\ Where(st[q]) # "chdir"
                         /\ st[q].ip = 0 /\ st[q].dp = 0 /\ st[q].put = 0
    BY IdleLocal, Zenon DEF Init, Where
  <2>2. Refs(i) = IF i = ROOTINO THEN Procs \X {"cwd"} ELSE {}
    BY <1>0, <2>1, ZenonT(30) DEF Refs
  <2>3. CASE i = ROOTINO
    <3>1. IsFiniteSet({"cwd"}) /\ Cardinality({"cwd"}) = 1
      BY FS_Singleton, Zenon
    <3>2. Cardinality(Procs \X {"cwd"}) = Cardinality(Procs) * 1
      BY <1>0, <3>1, FS_Product, Zenon
    <3> QED
      BY <1>4, <2>2, <2>3, <3>2 DEF Init
  <2>4. CASE i # ROOTINO
    BY <2>2, <2>4, FS_EmptySet, Zenon DEF Init
  <2> QED
    BY <2>3, <2>4, Zenon
<1> QED
  BY <1>5, <1>6, <1>7, <1>8, <1>9, ZenonT(30) DEF Inv

\* Inv is an inductive invariant of the system.
THEOREM InodeInvariant == Spec => []Inv
<1>1. Init => Inv
  BY InitInv, Zenon
<1>2. Inv /\ [Next]_vars => Inv'
  <2> SUFFICES ASSUME Inv, [Next]_vars PROVE Inv'
    BY Zenon
  <2>1. CASE Next
    BY <2>1, NextSound, SoundInv, Zenon DEF Next
  <2>2. CASE UNCHANGED vars
    BY <2>2 DEF vars, Inv, TypeInv, InodeTypes, ShapeInv, LockInv, Coherent, RefInv, Refs
  <2> QED
    BY <2>1, <2>2, Zenon
<1> QED
  BY <1>1, <1>2, PTL DEF Spec

\* The invariant has the types of the variables.
LEMMA InvTypes ==
  ASSUME Inv
  PROVE  TypeOK
<1>1. /\ disk \in [Inums -> Dinode] /\ mem \in [Inums -> Dinode]
      /\ valid \in [Inums -> BOOLEAN]
  BY Zenon DEF Inv, TypeInv, InodeTypes
<1>2. ref \in [Inums -> Nat]
  <2>1. ref \in [Inums -> Int]
    BY Zenon DEF Inv, TypeInv, InodeTypes
  <2>2. ASSUME NEW i \in Inums PROVE ref[i] \in Nat
    <3>1. IsFiniteSet(Refs(i))
      <4>1. CASE Procs = {}
        <5>1. Refs(i) = {}
          BY <4>1, Zenon DEF Refs
        <5> QED
          BY <5>1, FS_EmptySet, Zenon
      <4>2. CASE Procs # {}
        BY <4>2, RefsSplit, Zenon DEF AllSplit, Split
      <4> QED
        BY <4>1, <4>2, Zenon
    <3> QED
      BY <3>1, FS_CardinalityType, ZenonT(30) DEF Inv, RefInv
  <2> QED
    BY <2>1, <2>2, Zenon
<1>3. st \in [Procs -> Locals]
  BY Zenon DEF Inv, TypeInv
<1>4. /\ ents \in [Inums -> Entries] /\ lock \in [Inums -> Procs \cup {None}]
      /\ cwd \in [Procs -> Inums] /\ fd \in [Procs -> Inums \cup {0}]
      /\ calls \in 0 .. MaxCalls
  BY Zenon DEF Inv, TypeInv
<1>5. panic \in BOOLEAN /\ strayed \in BOOLEAN
  BY Zenon DEF Inv, TypeInv
<1> QED
  BY <1>1, <1>2, <1>3, <1>4, <1>5, Zenon DEF TypeOK, Locals

\* The reference counts, the locks and the types (fs.c: iget, idup, iput, ilock).
THEOREM ReferencesCounted == Spec => []RefCounted
<1>1. Inv => RefCounted
  <2> SUFFICES ASSUME Inv PROVE RefCounted
    BY Zenon
  <2>1. TypeOK
    BY InvTypes, Zenon
  <2>2. \A i \in Inums : ref[i] = Cardinality(Refs(i))
    BY Zenon DEF Inv, RefInv
  <2>3. ASSUME NEW i \in Inums, lock[i] # None PROVE st[lock[i]].pc # "user"
    <3>1. PICK q \in Procs : lock[i] = q
      BY <2>3, Zenon DEF Inv, TypeInv
    <3>2. Locks(st[q], i)
      BY <3>1, LocalFacts, ZenonT(30)
    <3> QED
      BY <3>1, <3>2, Zenon DEF Locks, CallLocks, Where
  <2> QED
    BY <2>1, <2>2, <2>3, ZenonT(30) DEF RefCounted
<1> QED
  BY <1>1, InodeInvariant, PTL

\* The inode cache is coherent with the disk (fs.c: ilock, iupdate, iput).
THEOREM InodesCoherent == Spec => []CacheCoherent
<1>1. Inv => CacheCoherent
  BY Zenon DEF Inv, Coherent, CacheCoherent
<1> QED
  BY <1>1, InodeInvariant, PTL
=============================================================================
