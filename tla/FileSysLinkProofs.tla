------------------------ MODULE FileSysLinkProofs ------------------------
(***************************************************************************)
(* Proofs about FileSys: link counts.  The invariant LInv and what a step  *)
(* of a process may do to it; the steps that change no inode, and those    *)
(* that count links, allocate and free.                                    *)
(***************************************************************************)
EXTENDS FileSysProofs

\* Does p point to inode i, other than to take the pointer from the count?
Has(p, i) ==
  \/ cwd[p] = i /\ Where(st[p]) # "chdir"
  \/ fd[p] = i \/ st[p].ip = i \/ st[p].dp = i
  \/ st[p].put = i /\ st[p].pc # "drop"

\* Calls that have counted a link for which there is no name yet, or any more.
Owes(s) ==
  \/ Where(s) = "unlinked"
  \/ s.call = "link" /\ Where(s) \in {"new", "walk", "parent", "bad", "linkfail"}
Pending(i) == {p \in Procs : st[p].ip = i /\ Owes(st[p])}

\* A free inode has no links, and no process points to it.
FreeInv == \A i \in Inums : disk[i].type = "free" =>
             disk[i].nlink = 0 /\ \A p \in Procs : ~Has(p, i)

\* The links of inode i are counted: its names, the ".." in directories that it
\* holds, the calls that owe one, and one more for the root.
Covered(i) ==
  disk[i].nlink >= Cardinality(NamesOf(i, ents)) + Cardinality(Subdirs(i, disk, ents))
                     + Cardinality(Pending(i)) + One(ROOTINO, i)
LinkInv == \A i \in Inums : Covered(i)

\* What a call knows of the inodes that it points to.
Own(p) ==
  LET s == st[p]
      w == Where(s)
  IN  /\ w \in {"parent", "init", "unlink", "linkfail", "unlinkbad"} => disk[s.dp].type = "dir"
      /\ w = "unlink" => Head(s.rest) \in Names /\ ents[s.dp][Head(s.rest)] = s.ip
      /\ w = "init" => /\ Head(s.rest) \in Names /\ ents[s.dp][Head(s.rest)] = 0
                       /\ disk[s.ip].type = NewType(s.call) /\ disk[s.ip].nlink = 0
                       /\ \A q \in Procs \ {p} : ~Has(q, s.ip)
      /\ s.call = "link" /\ Owes(s) /\ s.ip # 0 => disk[s.ip].type # "dir"
      /\ s.pc = "free" => disk[s.put].nlink = 0 /\ ref[s.put] = 1 /\ disk[s.put].type # "free"

\* A directory has "." and "..", once it is initialized, and ".." leads to the
\* directory that holds its name.
HasDots(i) == ents[i]["."] = i /\ ents[i][".."] # 0
Dots == \A i \in Inums : disk[i].type = "dir" /\ ~HasDots(i) =>
          \E p \in Procs : Where(st[p]) = "init" /\ st[p].ip = i
Parents == \A i \in Inums, d \in Inums, n \in Names :
             ents[d][n] = i /\ disk[i].type = "dir" => ents[i][".."] = d

LInv == FreeInv /\ LinkInv /\ (\A p \in Procs : Own(p)) /\ Dots /\ Parents

\* What holds until somebody strays (FileSys: Strays).
LinksOK == ~strayed => LInv

----------------------------------------------------------------------------
(* What a step of p does to the inodes.                                     *)

\* It gets pointers to inodes that have links, or that it allocates.
GainStep(p) == \A i \in Inums : Has(p, i)' =>
  Has(p, i) \/ disk[i].nlink >= 1 \/ (disk[i].type = "free" /\ disk'[i].type # "free")
DropStep(p) == st'[p].pc = "drop" => st'[p].put = st[p].put

\* It changes the link counts of inodes that it points to, allocates free inodes,
\* and frees the one that it puts.
DiskStep(p) == \A i \in Inums :
  \/ disk'[i] = disk[i]
  \/ Has(p, i) /\ disk'[i].type = disk[i].type
  \/ disk[i].type = "free" /\ disk'[i].type # "free"
  \/ st[p].pc = "free" /\ st[p].put = i /\ disk'[i].nlink = disk[i].nlink /\ ~Has(p, i)'

\* It writes to directories that it points to, and that no other process locks.
EntsStep(p) == \A i \in Inums :
  ents'[i] = ents[i] \/ (Has(p, i) /\ lock[i] \in {None, p}) \/ disk[i].type = "free"

DotStep(p) == \A i \in Inums : disk'[i].type = "dir" /\ ~HasDots(i)' =>
  \/ Where(st'[p]) = "init" /\ st'[p].ip = i
  \/ /\ disk[i].type = "dir" /\ ~HasDots(i)
     /\ ~(Where(st[p]) = "init" /\ st[p].ip = i)

Effect(p) ==
  /\ GainStep(p) /\ DropStep(p) /\ DiskStep(p) /\ EntsStep(p) /\ DotStep(p)
  /\ LinkInv' /\ Parents' /\ Own(p)'

----------------------------------------------------------------------------

\* When p is in iput(i) with the last reference, no other pointer leads to i.
LEMMA Sole ==
  ASSUME Inv, NEW p \in Procs, NEW i \in Inums, st[p].put = i, ref[i] = 1
  PROVE  /\ ~(cwd[p] = i /\ Where(st[p]) # "chdir") /\ fd[p] # i /\ st[p].ip # i /\ st[p].dp # i
         /\ \A q \in Procs \ {p} : ~Has(q, i) /\ Points(st[q], cwd[q], fd[q], i) = 0
<1>1. Split(p, i) /\ ref[i] = Cardinality(Refs(i))
  BY RefsSplit, Zenon DEF AllSplit, Inv, RefInv
<1>2. Cardinality(OthersTo(p, i)) \in Nat
  BY <1>1, FS_CardinalityType, Zenon DEF Split
<1>3. Points(st[p], cwd[p], fd[p], i) \in 0 .. 5
  BY PointsInt, Zenon
<1>4. Points(st[p], cwd[p], fd[p], i) >= 1
  BY DEF Points, One
<1>5. Points(st[p], cwd[p], fd[p], i) = 1 /\ Cardinality(OthersTo(p, i)) = 0
  <2>1. Cardinality(OthersTo(p, i)) + Points(st[p], cwd[p], fd[p], i) = 1
    BY <1>1, Zenon DEF Split
  <2> QED
    BY <1>2, <1>3, <1>4, <2>1
<1>6. OthersTo(p, i) = {}
  BY <1>1, <1>5, FS_EmptySet, Zenon DEF Split
<1>7. ASSUME NEW q \in Procs \ {p}
      PROVE  /\ ~(cwd[q] = i /\ Where(st[q]) # "chdir") /\ fd[q] # i
             /\ st[q].ip # i /\ st[q].dp # i /\ st[q].put # i
  <2>1. \A x : <<q, x>> \notin Refs(i)
    BY <1>6 DEF OthersTo
  <2>2. ~(cwd[q] = i /\ Where(st[q]) # "chdir")
    <3>1. <<q, "cwd">> \notin Refs(i)
      BY <2>1, Zenon
    <3> QED
      BY <3>1, Zenon DEF Refs
  <2>3. fd[q] # i
    <3>1. <<q, "fd">> \notin Refs(i)
      BY <2>1, Zenon
    <3> QED
      BY <3>1, Zenon DEF Refs
  <2>4. st[q].ip # i /\ st[q].dp # i /\ st[q].put # i
    <3>1. <<q, "ip">> \notin Refs(i) /\ <<q, "dp">> \notin Refs(i) /\ <<q, "put">> \notin Refs(i)
      BY <2>1, Zenon
    <3> QED
      BY <3>1, Zenon DEF Refs
  <2> QED
    BY <2>2, <2>3, <2>4, Zenon
<1>8. \A q \in Procs \ {p} : ~Has(q, i) /\ Points(st[q], cwd[q], fd[q], i) = 0
  BY <1>7 DEF Has, Points, One
<1>9. ~(cwd[p] = i /\ Where(st[p]) # "chdir") /\ fd[p] # i /\ st[p].ip # i /\ st[p].dp # i
  BY <1>5 DEF Points, One
<1> QED
  BY <1>8, <1>9, Zenon

\* The other processes keep what they point to.
LEMMA OthersSame ==
  ASSUME Inv, NEW p \in Procs, Frame(p), NEW q \in Procs \ {p}
  PROVE  /\ st'[q] = st[q] /\ cwd'[q] = cwd[q] /\ fd'[q] = fd[q]
         /\ \A i : Has(q, i)' <=> Has(q, i)
<1>1. st'[q] = st[q] /\ cwd'[q] = cwd[q] /\ fd'[q] = fd[q]
  BY Zenon DEF Frame, Inv, TypeInv
<1> QED
  BY <1>1, Zenon DEF Has

\* p frees only an inode that nobody else points to.
LEMMA FreesOwn ==
  ASSUME Inv, LInv, NEW p \in Procs, st[p].pc = "free"
  PROVE  LET i == st[p].put IN
         /\ i \in Inums /\ ref[i] = 1 /\ disk[i].nlink = 0 /\ disk[i].type # "free"
         /\ \A q \in Procs \ {p} : ~Has(q, i)
<1> DEFINE i == st[p].put
<1>1. i \in Inums
  BY LocalFacts, Zenon DEF Shape, InIput, Locals
<1>2. disk[i].nlink = 0 /\ ref[i] = 1 /\ disk[i].type # "free"
  BY Zenon DEF LInv, Own
<1> QED
  BY <1>1, <1>2, Sole, Zenon

\* An inode that another process points to keeps its type.
LEMMA TypeKept ==
  ASSUME Inv, LInv, NEW p \in Procs, Sound(p), DiskStep(p), NEW q \in Procs \ {p},
         NEW i \in Inums, Has(q, i)
  PROVE  disk'[i].type = disk[i].type /\ disk[i].type # "free"
<1>1. disk[i].type # "free"
  BY Zenon DEF LInv, FreeInv
<1>2. ~(st[p].pc = "free" /\ st[p].put = i)
  BY FreesOwn, Zenon
<1> QED
  BY <1>1, <1>2, Zenon DEF DiskStep

\* Free inodes have no links and no pointers after the step.
LEMMA EffectFree ==
  ASSUME Inv, LInv, NEW p \in Procs, Sound(p), Effect(p)
  PROVE  FreeInv'
<1> SUFFICES ASSUME NEW i \in Inums, disk'[i].type = "free"
             PROVE  disk'[i].nlink = 0 /\ \A q \in Procs : ~Has(q, i)'
  BY Zenon DEF FreeInv
<1>1. ASSUME NEW q \in Procs \ {p} PROVE ~Has(q, i)'
  BY TypeKept, OthersSame, ZenonT(30) DEF Sound, Effect
<1>2. CASE disk[i].type = "free"
  <2>1. disk[i].nlink = 0 /\ \A q \in Procs : ~Has(q, i)
    BY <1>2, Zenon DEF LInv, FreeInv
  <2>2. disk'[i].nlink = disk[i].nlink
    BY <2>1, Zenon DEF Effect, DiskStep
  <2>3. ~Has(p, i)'
    BY <2>1 DEF Effect, GainStep
  <2> QED
    BY <1>1, <2>1, <2>2, <2>3, Zenon
<1>3. CASE disk[i].type # "free"
  <2>1. /\ st[p].pc = "free" /\ st[p].put = i /\ disk'[i].nlink = disk[i].nlink
        /\ ~Has(p, i)'
    BY <1>3, Zenon DEF Effect, DiskStep
  <2>2. disk[i].nlink = 0
    BY <2>1, FreesOwn, Zenon
  <2> QED
    BY <1>1, <2>1, <2>2, Zenon
<1> QED
  BY <1>2, <1>3, Zenon

\* What another process knows still holds after the step.
LEMMA EffectOthers ==
  ASSUME Inv, LInv, NEW p \in Procs, Sound(p), Effect(p), NEW q \in Procs \ {p}
  PROVE  Own(q)'
<1> DEFINE s == st[q]
           w == Where(s)
<1>0. /\ st'[q] = s /\ s \in Locals /\ Shape(s) /\ Own(q) /\ 0 \notin Inums
      /\ \A i \in Inums : lock[i] = q <=> Locks(s, i)
  BY OthersSame, LocalFacts, Zenon DEF Sound, LInv
<1>1. w \in {"parent", "init", "unlink", "linkfail", "unlinkbad"} => disk'[s.dp].type = "dir"
  <2> SUFFICES ASSUME w \in {"parent", "init", "unlink", "linkfail", "unlinkbad"}
               PROVE  disk'[s.dp].type = "dir"
    BY Zenon
  <2>1. s.dp \in Inums /\ disk[s.dp].type = "dir"
    BY <1>0, Zenon DEF Shape, Locals, Own
  <2>2. Has(q, s.dp)
    BY Zenon DEF Has
  <2> QED
    BY <2>1, <2>2, TypeKept, Zenon DEF Effect
<1>2. ASSUME w \in {"init", "unlink"} PROVE ents'[s.dp] = ents[s.dp]
  <2>1. s.dp \in Inums /\ disk[s.dp].type = "dir" /\ lock[s.dp] = q
    BY <1>0, <1>2, Zenon DEF Shape, Locals, Own, Locks, CallLocks
  <2>2. q # None /\ q # p
    BY FileSysAssumption, Zenon
  <2> QED
    BY <2>1, <2>2, Zenon DEF Effect, EntsStep
<1>3. ASSUME w = "init"
      PROVE  /\ disk'[s.ip].type = NewType(s.call) /\ disk'[s.ip].nlink = 0
             /\ \A r \in Procs \ {q} : ~Has(r, s.ip)'
  <2>0. s.ip \in Inums
    BY <1>0, <1>3, Zenon DEF Shape, Locals
  <2> PICK i \in Inums : i = s.ip
    BY <2>0, Zenon
  <2>1. /\ disk[i].type = NewType(s.call) /\ disk[i].nlink = 0
        /\ \A r \in Procs \ {q} : ~Has(r, i)
    BY <1>0, <1>3, Zenon DEF Own
  <2>2. ~Has(p, i) /\ Has(q, i)
    BY <2>1, Zenon DEF Has
  <2>3. disk[i].type # "free"
    BY <2>1, <2>2, Zenon DEF LInv, FreeInv
  <2>4. ~(st[p].pc = "free" /\ st[p].put = i)
    BY <2>2, Zenon DEF Has
  <2>5. disk'[i] = disk[i]
    BY <2>1, <2>2, <2>3, <2>4, Zenon DEF Effect, DiskStep
  <2>6. ~Has(p, i)'
    BY <2>1, <2>2, <2>3 DEF Effect, GainStep
  <2>7. ASSUME NEW r \in Procs \ {q} PROVE ~Has(r, i)'
    BY <2>1, <2>6, OthersSame, Zenon DEF Sound
  <2>8. \A r \in Procs \ {q} : ~Has(r, s.ip)'
    BY <1>0, <2>7, Zenon DEF Has
  <2> QED
    BY <2>1, <2>5, <2>8, Zenon
<1>4. s.call = "link" /\ Owes(s) /\ s.ip # 0 => disk'[s.ip].type # "dir"
  <2> SUFFICES ASSUME s.call = "link", Owes(s), s.ip # 0 PROVE disk'[s.ip].type # "dir"
    BY Zenon
  <2>1. s.ip \in Inums /\ disk[s.ip].type # "dir"
    BY <1>0, Zenon DEF Locals, Own
  <2>2. Has(q, s.ip)
    BY Zenon DEF Has
  <2> QED
    BY <2>1, <2>2, TypeKept, Zenon DEF Effect
<1>5. ASSUME s.pc = "free"
      PROVE  disk'[s.put].nlink = 0 /\ ref'[s.put] = 1 /\ disk'[s.put].type # "free"
  <2>0. s.put \in Inums
    BY <1>5, FreesOwn, Zenon
  <2> PICK i \in Inums : i = s.put
    BY <2>0, Zenon
  <2>1. /\ ref[i] = 1 /\ disk[i].nlink = 0 /\ disk[i].type # "free"
        /\ ~Has(p, i) /\ Points(st[p], cwd[p], fd[p], i) = 0
    BY <1>5, FreesOwn, Sole
  <2>2. st[p].put # i
    BY <2>1 DEF Points, One
  <2>3. disk'[i] = disk[i]
    BY <2>1, <2>2, Zenon DEF Effect, DiskStep
  <2>4. ~Has(p, i)' /\ st'[p].put # i
    <3>1. ~Has(p, i)'
      BY <2>1 DEF Effect, GainStep
    <3>2. st'[p].pc = "drop" => st'[p].put # i
      BY <2>2, Zenon DEF Effect, DropStep
    <3> QED
      BY <3>1, <3>2, Zenon DEF Has
  <2>5. Points(st'[p], cwd'[p], fd'[p], i) = 0
    BY <2>4 DEF Has, Points, One
  <2>6. ref'[i] = ref[i] + Points(st'[p], cwd'[p], fd'[p], i) - Points(st[p], cwd[p], fd[p], i)
    BY <2>1, Zenon DEF Sound, RefStep
  <2> QED
    BY <2>1, <2>3, <2>5, <2>6
<1>6. Own(q)' <=>
        /\ w \in {"parent", "init", "unlink", "linkfail", "unlinkbad"} => disk'[s.dp].type = "dir"
        /\ w = "unlink" => Head(s.rest) \in Names /\ ents'[s.dp][Head(s.rest)] = s.ip
        /\ w = "init" => /\ Head(s.rest) \in Names /\ ents'[s.dp][Head(s.rest)] = 0
                         /\ disk'[s.ip].type = NewType(s.call) /\ disk'[s.ip].nlink = 0
                         /\ \A r \in Procs \ {q} : ~Has(r, s.ip)'
        /\ s.call = "link" /\ Owes(s) /\ s.ip # 0 => disk'[s.ip].type # "dir"
        /\ s.pc = "free" => disk'[s.put].nlink = 0 /\ ref'[s.put] = 1 /\ disk'[s.put].type # "free"
  BY <1>0, Zenon DEF Own
<1> HIDE DEF s, w
<1> QED
  BY <1>0, <1>1, <1>2, <1>3, <1>4, <1>5, <1>6, Zenon DEF Own, s, w

\* Every directory but one that create() has not initialized yet has "." and "..".
LEMMA EffectDots ==
  ASSUME Inv, LInv, NEW p \in Procs, Sound(p), Effect(p)
  PROVE  Dots'
<1> SUFFICES ASSUME NEW i \in Inums, disk'[i].type = "dir", ~HasDots(i)'
             PROVE  \E q \in Procs : Where(st'[q]) = "init" /\ st'[q].ip = i
  BY Zenon DEF Dots, Where, HasDots
<1>1. CASE Where(st'[p]) = "init" /\ st'[p].ip = i
  BY <1>1, Zenon
<1>2. CASE ~(Where(st'[p]) = "init" /\ st'[p].ip = i)
  <2>1. disk[i].type = "dir" /\ ~HasDots(i) /\ ~(Where(st[p]) = "init" /\ st[p].ip = i)
    BY <1>2, Zenon DEF Effect, DotStep
  <2>2. PICK q \in Procs : Where(st[q]) = "init" /\ st[q].ip = i
    BY <2>1, Zenon DEF LInv, Dots
  <2>3. st'[q] = st[q]
    BY <2>1, <2>2, OthersSame, Zenon DEF Sound
  <2> QED
    BY <2>2, <2>3, Zenon
<1> QED
  BY <1>1, <1>2, Zenon

\* Names, subdirectories and calls that owe a link can be counted.
LEMMA CountsNat ==
  ASSUME NEW i \in Inums
  PROVE  /\ IsFiniteSet(NamesOf(i, ents)) /\ IsFiniteSet(Subdirs(i, disk, ents))
         /\ IsFiniteSet(Pending(i))
         /\ Cardinality(NamesOf(i, ents)) \in Nat /\ Cardinality(Subdirs(i, disk, ents)) \in Nat
         /\ Cardinality(Pending(i)) \in Nat
<1>1. IsFiniteSet(Inums \X Names) /\ IsFiniteSet(Names) /\ IsFiniteSet(Procs)
  BY FileSysAssumption, FS_Product, Zenon
<1>2. /\ IsFiniteSet(NamesOf(i, ents)) /\ IsFiniteSet(Subdirs(i, disk, ents))
      /\ IsFiniteSet(Pending(i))
  BY <1>1, FS_Subset, Zenon DEF NamesOf, Subdirs, Pending
<1> QED
  BY <1>2, FS_CardinalityType, Zenon

\* The link count of every inode on the disk is a number.
LEMMA LinksNat ==
  ASSUME Inv, LinkInv, NEW i \in Inums
  PROVE  /\ disk[i].nlink \in Nat
         /\ IsFiniteSet(NamesOf(i, ents)) /\ IsFiniteSet(Subdirs(i, disk, ents))
         /\ IsFiniteSet(Pending(i))
         /\ Cardinality(NamesOf(i, ents)) \in Nat /\ Cardinality(Subdirs(i, disk, ents)) \in Nat
         /\ Cardinality(Pending(i)) \in Nat
<1>1. /\ Cardinality(NamesOf(i, ents)) \in Nat /\ Cardinality(Subdirs(i, disk, ents)) \in Nat
      /\ Cardinality(Pending(i)) \in Nat
  BY CountsNat, Zenon
<1>2. disk[i].nlink \in Int /\ One(ROOTINO, i) \in {0, 1}
  BY Zenon DEF Inv, TypeInv, InodeTypes, Dinode, One
<1>3. disk[i].nlink >= Cardinality(NamesOf(i, ents)) + Cardinality(Subdirs(i, disk, ents))
                         + Cardinality(Pending(i)) + One(ROOTINO, i)
  BY Zenon DEF LinkInv, Covered
<1>4. disk[i].nlink \in Nat
  BY <1>1, <1>2, <1>3
<1> QED
  BY <1>4, CountsNat, Zenon

\* All of it holds after the step.
LEMMA EffectInv ==
  ASSUME Inv, LInv, NEW p \in Procs, Sound(p), Effect(p)
  PROVE  LInv'
<1>1. FreeInv' /\ LinkInv' /\ Dots' /\ Parents'
  BY EffectFree, EffectDots, Zenon DEF Effect
<1>2. ASSUME NEW q \in Procs PROVE Own(q)'
  <2>1. CASE q = p
    BY <2>1, Zenon DEF Effect
  <2>2. CASE q # p
    BY <2>2, EffectOthers, Zenon
  <2> QED
    BY <2>1, <2>2, Zenon
<1> QED
  BY <1>1, <1>2, Zenon DEF LInv

\* A set that loses elements, gets one, or loses a given one.
LEMMA Fewer ==
  ASSUME NEW S, IsFiniteSet(S), NEW T, T \subseteq S
  PROVE  IsFiniteSet(T) /\ Cardinality(T) \in Nat /\ Cardinality(T) <= Cardinality(S)
BY FS_Subset, FS_CardinalityType, Zenon

\* A set that gains at most one element.
LEMMA OneMore ==
  ASSUME NEW S, IsFiniteSet(S), NEW x, NEW T, T \subseteq S \cup {x}
  PROVE  IsFiniteSet(T) /\ Cardinality(T) \in Nat /\ Cardinality(T) <= Cardinality(S) + 1
<1>1. IsFiniteSet(S \cup {x}) /\ Cardinality(S \cup {x}) <= Cardinality(S) + 1
  <2>1. Cardinality(S) \in Nat
    BY FS_CardinalityType, Zenon
  <2>2. CASE x \in S
    <3>1. S \cup {x} = S
      BY <2>2, Zenon
    <3> QED
      BY <2>1, <3>1
  <2>3. CASE x \notin S
    <3>1. IsFiniteSet(S \cup {x}) /\ Cardinality(S \cup {x}) = Cardinality(S) + 1
      BY <2>3, FS_AddElement, Zenon
    <3> QED
      BY <2>1, <3>1
  <2> QED
    BY <2>2, <2>3, Zenon
<1>2. IsFiniteSet(T) /\ Cardinality(T) \in Nat /\ Cardinality(T) <= Cardinality(S \cup {x})
  BY <1>1, Fewer, Zenon
<1>3. Cardinality(S) \in Nat /\ Cardinality(S \cup {x}) \in Nat
  BY <1>1, FS_CardinalityType, Zenon
<1> QED
  BY <1>1, <1>2, <1>3

\* A set that loses an element.
LEMMA OneLess ==
  ASSUME NEW S, IsFiniteSet(S), NEW x \in S, NEW T, T \subseteq S \ {x}
  PROVE  IsFiniteSet(T) /\ Cardinality(T) \in Nat /\ Cardinality(T) <= Cardinality(S) - 1
<1>1. IsFiniteSet(S \ {x}) /\ Cardinality(S \ {x}) = Cardinality(S) - 1
  BY FS_RemoveElement, Zenon
<1>2. IsFiniteSet(T) /\ Cardinality(T) \in Nat /\ Cardinality(T) <= Cardinality(S \ {x})
  BY <1>1, Fewer, Zenon
<1> QED
  BY <1>1, <1>2, Zenon

\* An inode with a name has a link, and so has the root.
LEMMA NamedLinked ==
  ASSUME Inv, LInv, NEW i \in Inums, NamesOf(i, ents) # {} \/ i = ROOTINO
  PROVE  disk[i].nlink >= 1
<1>1. /\ disk[i].nlink \in Nat
      /\ IsFiniteSet(NamesOf(i, ents))
      /\ Cardinality(NamesOf(i, ents)) \in Nat /\ Cardinality(Subdirs(i, disk, ents)) \in Nat
      /\ Cardinality(Pending(i)) \in Nat
  BY LinksNat, Zenon DEF LInv
<1>2. disk[i].nlink >= Cardinality(NamesOf(i, ents)) + Cardinality(Subdirs(i, disk, ents))
                         + Cardinality(Pending(i)) + One(ROOTINO, i)
  BY Zenon DEF LInv, LinkInv, Covered
<1>3. CASE NamesOf(i, ents) # {}
  <2>1. Cardinality(NamesOf(i, ents)) # 0
    BY <1>1, <1>3, FS_EmptySet, Zenon
  <2>2. One(ROOTINO, i) \in {0, 1}
    BY Zenon DEF One
  <2> QED
    BY <1>1, <1>2, <2>1, <2>2
<1>4. CASE i = ROOTINO
  <2>1. One(ROOTINO, i) = 1
    BY <1>4, Zenon DEF One
  <2> QED
    BY <1>1, <1>2, <2>1
<1> QED
  BY <1>3, <1>4, Zenon

\* So has an inode that holds a directory.
LEMMA ParentLinked ==
  ASSUME Inv, LInv, NEW i \in Inums, NEW n \in Subdirs(i, disk, ents)
  PROVE  disk[i].nlink >= 1
<1>1. /\ disk[i].nlink \in Nat
      /\ IsFiniteSet(Subdirs(i, disk, ents))
      /\ Cardinality(NamesOf(i, ents)) \in Nat /\ Cardinality(Subdirs(i, disk, ents)) \in Nat
      /\ Cardinality(Pending(i)) \in Nat
  BY LinksNat, Zenon DEF LInv
<1>2. disk[i].nlink >= Cardinality(NamesOf(i, ents)) + Cardinality(Subdirs(i, disk, ents))
                         + Cardinality(Pending(i)) + One(ROOTINO, i)
  BY Zenon DEF LInv, LinkInv, Covered
<1>3. Cardinality(Subdirs(i, disk, ents)) # 0
  BY <1>1, FS_EmptySet, Zenon
<1>4. One(ROOTINO, i) \in {0, 1}
  BY Zenon DEF One
<1> QED
  BY <1>1, <1>2, <1>3, <1>4

\* A directory that p points to, other than in create(), has its dots.
LEMMA HeldDots ==
  ASSUME Inv, LInv, NEW p \in Procs, NEW d \in Inums, Has(p, d), disk[d].type = "dir",
         Where(st[p]) # "init"
  PROVE  HasDots(d)
<1> SUFFICES ASSUME ~HasDots(d) PROVE FALSE
  BY Zenon
<1>1. PICK q \in Procs : Where(st[q]) = "init" /\ st[q].ip = d
  BY Zenon DEF LInv, Dots
<1>2. q # p /\ Own(q)
  BY <1>1, Zenon DEF LInv
<1> QED
  BY <1>1, <1>2, Zenon DEF Own

\* What dirlookup() finds in a directory that p points to, unless p strays.
LEMMA EntryLinked ==
  ASSUME Inv, LInv, NEW p \in Procs, NEW d \in Inums, Has(p, d), disk[d].type = "dir",
         Where(st[p]) # "init", NEW n \in Elems, ~Strays(d, n)
  PROVE  /\ ents[d][n] \in Inums => Has(p, ents[d][n]) \/ disk[ents[d][n]].nlink >= 1
         /\ ents[d][n] = 0 => n \in Names
<1>1. ents[d]["."] = d /\ ents[d][".."] # 0
  BY HeldDots, Zenon DEF HasDots
<1>2. d # 0
  BY FileSysAssumption, Zenon
<1>3. CASE n \in Names
  <2>1. ASSUME ents[d][n] \in Inums PROVE disk[ents[d][n]].nlink >= 1
    <3>1. <<d, n>> \in NamesOf(ents[d][n], ents)
      BY <1>3, <2>1, Zenon DEF NamesOf
    <3> QED
      BY <2>1, <3>1, NamedLinked, Zenon
  <2> QED
    BY <1>3, <2>1, Zenon
<1>4. CASE n = "."
  BY <1>1, <1>2, <1>4, Zenon
<1>5. CASE n = ".."
  <2>1. ents[d][n] \in Inums
    <3>1. ents[d] \in Entries
      BY Zenon DEF Inv, TypeInv
    <3>2. ents[d][n] \in Inums \cup {0}
      BY <3>1, Zenon DEF Entries
    <3> QED
      BY <1>1, <1>5, <3>2, Zenon
  <2> PICK i \in Inums : i = ents[d][n]
    BY <2>1, Zenon
  <2>2. CASE NamesOf(d, ents) # {}
    <3>1. PICK x \in Inums, m \in Names : ents[x][m] = d
      BY <2>2 DEF NamesOf
    <3>2. ents[d][".."] = x
      BY <3>1, Zenon DEF LInv, Parents
    <3>3. m \in Subdirs(x, disk, ents)
      BY <1>2, <3>1, Zenon DEF Subdirs
    <3> QED
      BY <1>1, <1>5, <3>2, <3>3, ParentLinked, Zenon
  <2>3. CASE NamesOf(d, ents) = {}
    <3>1. disk[i].nlink # 0
      BY <1>1, <1>5, <2>3, Zenon DEF Strays
    <3>2. disk[i].nlink \in Nat
      BY LinksNat, Zenon DEF LInv
    <3>3. disk[i].nlink >= 1
      BY <3>1, <3>2
    <3> QED
      BY <1>1, <1>5, <3>3, Zenon
  <2> QED
    BY <2>2, <2>3, Zenon
<1> QED
  BY <1>3, <1>4, <1>5, Zenon DEF Elems

\* The calls that owe a link, when p does not come to owe one.
LEMMA PendingFewer ==
  ASSUME Inv, NEW p \in Procs, Frame(p), NEW i \in Inums
  PROVE  /\ Pending(i)' \subseteq Pending(i) \cup {p}
         /\ (st'[p].ip = i /\ Owes(st'[p]) => st[p].ip = i /\ Owes(st[p]))
              => Pending(i)' \subseteq Pending(i)
         /\ ~(st'[p].ip = i /\ Owes(st'[p])) => Pending(i)' \subseteq Pending(i) \ {p}
<1>1. \A q \in Procs \ {p} : st'[q] = st[q]
  BY OthersSame, Zenon
<1>2. Pending(i)' = {q \in Procs : st'[q].ip = i /\ Owes(st'[q])}
  BY Zenon DEF Pending, Owes, Where
<1> QED
  BY <1>1, <1>2, Zenon DEF Pending

----------------------------------------------------------------------------
(* Steps that change no inode.                                              *)

Quiet(p) ==
  /\ UNCHANGED <<disk, ents>>
  /\ Where(st[p]) = "init" => Where(st'[p]) = "init" /\ st'[p].ip = st[p].ip
  /\ \A i \in Inums : st'[p].ip = i /\ Owes(st'[p]) => st[p].ip = i /\ Owes(st[p])
  /\ GainStep(p) /\ DropStep(p) /\ Own(p)'

\* ".." still leads to the parent when the names of directories and ".." stay.
LEMMA ParentsKept ==
  ASSUME Parents, \A i \in Inums : disk'[i].type = disk[i].type /\ ents'[i][".."] = ents[i][".."],
         \A d \in Inums, n \in Names : \/ ents'[d][n] = ents[d][n]
                                       \/ ents'[d][n] \notin Inums
                                       \/ disk[ents'[d][n]].type # "dir"
  PROVE  Parents'
<1> SUFFICES ASSUME NEW i \in Inums, NEW d \in Inums, NEW n \in Names,
                    ents'[d][n] = i, disk'[i].type = "dir"
             PROVE  ents'[i][".."] = d
  BY Zenon DEF Parents
<1>1. disk[i].type = "dir" /\ ents'[i][".."] = ents[i][".."]
  BY Zenon
<1>2. ents[d][n] = i
  BY <1>1, Zenon
<1> QED
  BY <1>1, <1>2, Zenon DEF Parents

\* Links stay counted when no inode changes and p does not come to owe one.
LEMMA QuietEffect ==
  ASSUME Inv, LInv, NEW p \in Procs, Sound(p), Quiet(p)
  PROVE  Effect(p)
<1>1. disk' = disk /\ ents' = ents
  BY Zenon DEF Quiet
<1>2. DiskStep(p) /\ EntsStep(p)
  BY <1>1, Zenon DEF DiskStep, EntsStep
<1>3. DotStep(p)
  BY <1>1, Zenon DEF DotStep, Quiet, HasDots
<1>p. Parents'
  BY <1>1, Zenon DEF LInv, Parents
<1>4. LinkInv'
  <2> SUFFICES ASSUME NEW i \in Inums
               PROVE  disk'[i].nlink >= Cardinality(NamesOf(i, ents'))
                                          + Cardinality(Subdirs(i, disk', ents'))
                                          + Cardinality(Pending(i)') + One(ROOTINO, i)
    BY Zenon DEF LinkInv, Covered, NamesOf, Subdirs
  <2>1. Pending(i)' \subseteq Pending(i)
    BY PendingFewer, Zenon DEF Quiet, Sound
  <2>2. /\ disk[i].nlink \in Nat /\ IsFiniteSet(Pending(i)) /\ Cardinality(Pending(i)) \in Nat
        /\ Cardinality(NamesOf(i, ents)) \in Nat /\ Cardinality(Subdirs(i, disk, ents)) \in Nat
    BY LinksNat, Zenon DEF LInv
  <2>3. Cardinality(Pending(i)') \in Nat /\ Cardinality(Pending(i)') <= Cardinality(Pending(i))
    BY <2>1, <2>2, Fewer, Zenon
  <2>4. disk[i].nlink >= Cardinality(NamesOf(i, ents)) + Cardinality(Subdirs(i, disk, ents))
                           + Cardinality(Pending(i)) + One(ROOTINO, i)
    BY Zenon DEF LInv, LinkInv, Covered
  <2>5. One(ROOTINO, i) \in Int
    BY OneFacts, Zenon
  <2> QED
    BY <1>1, <2>2, <2>3, <2>4, <2>5
<1> QED
  BY <1>2, <1>3, <1>p, <1>4, Zenon DEF Effect, Quiet

\* What is to be shown of the local variables t after a step.
OwnAs(p, t) ==
  /\ Where(t) \in {"parent", "unlink", "linkfail", "unlinkbad"} => disk'[t.dp].type = "dir"
  /\ Where(t) = "unlink" => Head(t.rest) \in Names /\ ents'[t.dp][Head(t.rest)] = t.ip
  /\ Where(t) # "init" /\ t.pc # "free"
  /\ t.call = "link" /\ Owes(t) /\ t.ip # 0 => disk'[t.ip].type # "dir"

\* What a process knows after its step, from its local variables after the step.
LEMMA OwnNext ==
  ASSUME NEW p \in Procs, OwnAs(p, st'[p])
  PROVE  Own(p)'
BY Zenon DEF OwnAs, Own, Where, Owes

\* A step that only moves p's pointers, and adds one to j.
LEMMA GainsOne ==
  ASSUME Inv, NEW p \in Procs, UNCHANGED <<cwd, fd>>, Where(st[p]) # "chdir",
         NEW j, j \in Inums => Has(p, j) \/ disk[j].nlink >= 1,
         st'[p].ip \in {st[p].ip, st[p].dp, j, 0}, st'[p].dp \in {st[p].ip, st[p].dp, j, 0},
         st'[p].put \in {st[p].ip, st[p].dp, j, 0}
  PROVE  GainStep(p)
<1> SUFFICES ASSUME NEW i \in Inums, Has(p, i)'
             PROVE  Has(p, i) \/ disk[i].nlink >= 1
  BY Zenon DEF GainStep
<1>1. 0 \notin Inums
  BY FileSysAssumption, Zenon
<1>2. \/ cwd[p] = i \/ fd[p] = i
      \/ st'[p].ip = i \/ st'[p].dp = i \/ st'[p].put = i
  BY Zenon DEF Has
<1>3. cwd[p] = i \/ fd[p] = i \/ i \in {st[p].ip, st[p].dp, j}
  BY <1>1, <1>2, Zenon
<1> QED
  BY <1>3, Zenon DEF Has

\* A step of the path walk or of a call that changes no inode.
LEMMA MoveQuiet ==
  ASSUME Inv, LInv, NEW p \in Procs, UNCHANGED <<disk, ents, cwd, fd>>,
         NEW s, s = st[p], NEW t, t = st'[p],
         Where(s) \notin {"chdir", "init"}, t.pc \notin {"free", "drop"}, Where(t) # "init",
         NEW j, j \in Inums => Has(p, j) \/ disk[j].nlink >= 1,
         t.ip \in {s.ip, s.dp, j, 0}, t.dp \in {s.ip, s.dp, j, 0}, t.put \in {s.ip, s.dp, j, 0},
         Where(t) \in {"parent", "unlink", "linkfail", "unlinkbad"} => disk[t.dp].type = "dir",
         Where(t) = "unlink" => Head(t.rest) \in Names /\ ents[t.dp][Head(t.rest)] = t.ip,
         Owes(t) /\ t.ip # 0 => t.ip = s.ip /\ Owes(s) /\ t.call = s.call
  PROVE  Quiet(p)
<1>1. GainStep(p)
  BY GainsOne, Zenon
<1>2. DropStep(p)
  BY Zenon DEF DropStep
<1>3. Own(p)
  BY Zenon DEF LInv
<1>4. OwnAs(p, st'[p])
  BY <1>3, Zenon DEF OwnAs, Own
<1>5. Own(p)'
  BY <1>4, OwnNext, Zenon
<1>6. \A i \in Inums : st'[p].ip = i /\ Owes(st'[p]) => st[p].ip = i /\ Owes(st[p])
  BY FileSysAssumption, Zenon
<1> QED
  BY <1>1, <1>2, <1>5, <1>6, Zenon DEF Quiet

\* The element that the walk is at.
LEMMA RestHead ==
  ASSUME Inv, NEW p \in Procs, st[p].rest # <<>>
  PROVE  Head(st[p].rest) \in Elems
<1>1. st[p].rest \in Seq(Elems)
  BY LocalFacts, Zenon DEF Locals
<1> QED
  BY <1>1, HeadTail, Zenon

\* iput(): only its step to "drop" or "free" is not a return.
LEMMA QuietPutLock ==
  ASSUME Inv, LInv, NEW p \in Procs, PutLock(p)
  PROVE  Quiet(p)
<1>0. Sound(p)
  BY SoundPutLock, Zenon
<1>1. st[p] \in Locals /\ Shape(st[p]) /\ st[p].pc = "put" /\ Own(p)
  BY LocalFacts, Zenon DEF PutLock, At, LInv
<1>2. PICK l \in {"free", "drop"} : st'[p] = [st[p] EXCEPT !.pc = l]
  BY Zenon DEF PutLock, Goto, Inv, TypeInv
<1> PICK s : s = st[p]
  BY Zenon
<1> PICK t : t = st'[p]
  BY Zenon
<1>4. /\ t.pc = l /\ t.ret = s.ret /\ t.ip = s.ip /\ t.dp = s.dp /\ t.put = s.put
      /\ t.call = s.call /\ t.new = s.new /\ t.rest = s.rest
  BY <1>1, <1>2, Zenon DEF Locals
<1>5. Where(t) = Where(s) /\ (Owes(t) <=> Owes(s))
  BY <1>1, <1>4, Zenon DEF Where, Owes
<1>6. UNCHANGED <<disk, ents, ref, valid, mem, cwd, fd>>
  BY Zenon DEF PutLock
<1>7. \A i : Has(p, i)' => Has(p, i)
  BY <1>1, <1>4, <1>5, <1>6, ZenonT(30) DEF Has
<1>8. GainStep(p) /\ DropStep(p)
  BY <1>4, <1>6, <1>7, ZenonT(30) DEF GainStep, DropStep
<1>9. t.pc = "free" => disk[t.put].nlink = 0 /\ ref[t.put] = 1 /\ disk[t.put].type # "free"
  <2> SUFFICES ASSUME t.pc = "free"
               PROVE  disk[s.put].nlink = 0 /\ ref[s.put] = 1 /\ disk[s.put].type # "free"
    BY <1>4, Zenon
  <2>1. s.put \in Inums
    BY <1>1, Zenon DEF Shape, InIput, Locals
  <2>2. valid[s.put] /\ mem[s.put].nlink = 0 /\ ref[s.put] = 1
    BY <1>1, <1>4, ZenonT(30) DEF PutLock, Goto, Inv, TypeInv, Locals
  <2> QED
    BY <2>1, <2>2, Zenon DEF Inv, Coherent
<1>10. \A q \in Procs \ {p} : \A i : Has(q, i)' <=> Has(q, i)
  BY <1>0, OthersSame, Zenon DEF Sound
<1>11. Own(p)'
  BY <1>1, <1>4, <1>5, <1>6, <1>9, <1>10, ZenonT(30) DEF Own
<1> QED
  BY <1>4, <1>5, <1>6, <1>8, <1>11, ZenonT(30) DEF Quiet

\* The decrement of iput() changes no inode.
LEMMA QuietPutDrop ==
  ASSUME Inv, LInv, NEW p \in Procs, PutDrop(p)
  PROVE  Quiet(p)
<1>0. Sound(p)
  BY SoundPutDrop, Zenon
<1>1. st[p] \in Locals /\ Shape(st[p]) /\ st[p].pc = "drop" /\ Own(p)
  BY LocalFacts, Zenon DEF PutDrop, At, LInv
<1>2. st'[p] = IF st[p].ret = "user" THEN Idle
               ELSE [st[p] EXCEPT !.pc = st[p].ret, !.put = 0, !.ret = "user"]
  BY Zenon DEF PutDrop, Goto, Inv, TypeInv
<1> PICK s : s = st[p]
  BY Zenon
<1> PICK t : t = st'[p]
  BY Zenon
<1>3. Where(s) = s.ret /\ s.ret \notin {"put", "free", "drop"} /\ 0 \notin Inums
  BY <1>1, LocalFacts, Zenon DEF Where, Shape
<1>4. UNCHANGED <<disk, ents, cwd, fd>>
  BY Zenon DEF PutDrop
<1>6. CASE s.ret = "user"
  <2>1. t = Idle /\ s.ip = 0 /\ s.dp = 0
    BY <1>1, <1>2, <1>3, <1>6, ZenonT(30) DEF Shape
  <2>2. t.pc = "user" /\ t.ip = 0 /\ t.dp = 0 /\ t.put = 0 /\ t.rest = <<>>
    BY <2>1 DEF Idle
  <2>3. Where(t) = "user"
    BY <2>2, Zenon DEF Where
  <2>4. GainStep(p) /\ DropStep(p)
    BY <1>3, <1>4, <1>6, <2>1, <2>2, <2>3, Zenon DEF GainStep, DropStep, Has
  <2>5. OwnAs(p, st'[p])
    BY <2>2, <2>3 DEF OwnAs, Owes
  <2>6. Own(p)'
    BY <2>5, OwnNext, Zenon
  <2> QED
    BY <1>3, <1>4, <1>6, <2>2, <2>4, <2>6, ZenonT(30) DEF Quiet
<1>7. CASE s.ret # "user"
  <2>1. /\ t.pc = s.ret /\ t.ret = "user" /\ t.ip = s.ip /\ t.dp = s.dp /\ t.put = 0
        /\ t.call = s.call /\ t.new = s.new /\ t.rest = s.rest
    BY <1>1, <1>2, <1>7, ZenonT(30) DEF Locals
  <2>2. Where(t) = Where(s) /\ (Owes(t) <=> Owes(s)) /\ t.pc \notin {"free", "drop"}
    BY <1>3, <2>1, Zenon DEF Where, Owes
  <2>3. \A i \in Inums : Has(p, i)' => Has(p, i)
    BY <1>3, <1>4, <2>1, <2>2, ZenonT(30) DEF Has
  <2>4. GainStep(p) /\ DropStep(p)
    BY <2>2, <2>3, Zenon DEF GainStep, DropStep
  <2>5. \A q \in Procs \ {p} : \A i : Has(q, i)' <=> Has(q, i)
    BY <1>0, OthersSame, Zenon DEF Sound
  <2>6. Own(p)'
    BY <1>1, <1>4, <2>1, <2>2, <2>5, ZenonT(30) DEF Own
  <2> QED
    BY <1>4, <2>1, <2>2, <2>4, <2>6, ZenonT(30) DEF Quiet
<1> QED
  BY <1>6, <1>7, Zenon

\* A walk that begins points to the root or the current directory.
LEMMA WalkQuiet ==
  ASSUME Inv, LInv, NEW p \in Procs, NEW s \in Locals, s.put = 0, s.dp = 0,
         Where(st[p]) \in {"user", "new"},
         \/ s.ip = 0 /\ s.pc = "user"
         \/ s.ip # 0 /\ s.ip = st[p].ip /\ s.call = st[p].call /\ s.call = "link" /\ Owes(st[p]),
         NEW path \in [abs : BOOLEAN, elems : Seq(Elems)],
         Walk(p, s, path), UNCHANGED <<disk, ents, cwd, fd>>
  PROVE  Quiet(p)
<1>0. (IF path.abs THEN ROOTINO ELSE cwd[p]) \in Inums
  BY LocalFacts, Zenon
<1> PICK i \in Inums : i = IF path.abs THEN ROOTINO ELSE cwd[p]
  BY <1>0, Zenon
<1> PICK t : t = st'[p]
  BY Zenon
<1>1. Has(p, i) \/ disk[i].nlink >= 1
  BY NamedLinked, Zenon DEF Has
<1>3. Failed(s) \in Labels
  BY LabelFacts, Zenon DEF Failed
<1>4. CASE path.elems # <<>>
  <2>1. t = [s EXCEPT !.pc = "walk", !.dp = i, !.rest = path.elems]
    BY <1>4, Zenon DEF Walk, Goto, Inv, TypeInv
  <2>2. /\ t.pc = "walk" /\ t.dp = i /\ t.rest = path.elems /\ t.ip = s.ip /\ t.put = 0
        /\ t.call = s.call
    BY <2>1, Zenon DEF Locals
  <2>3. Where(t) = "walk"
    BY <2>2, Zenon DEF Where
  <2> QED
    BY <1>1, <2>2, <2>3, MoveQuiet
<1>5. CASE path.elems = <<>> /\ Nameiparent(s)
  <2>1. t = Put(s, i, Failed(s))
    BY <1>5, Zenon DEF Walk, Goto, Inv, TypeInv
  <2>2. /\ t.pc = "put" /\ t.put = i /\ t.call = s.call /\ t.rest = s.rest /\ t.ip = s.ip
        /\ t.dp = s.dp /\ Where(t) = Failed(s)
    BY <1>3, <2>1, PutFields
  <2>3. Where(t) \in {"bad", "user"}
    BY <2>2, Zenon DEF Failed
  <2> QED
    BY <1>1, <2>2, <2>3, MoveQuiet
<1>6. CASE path.elems = <<>> /\ ~Nameiparent(s)
  <2>1. t = [s EXCEPT !.pc = "found", !.ip = i] /\ s.ip = 0
    BY <1>6, Zenon DEF Walk, Goto, Inv, TypeInv, Nameiparent
  <2>2. t.pc = "found" /\ t.dp = s.dp /\ t.rest = s.rest /\ t.ip = i /\ t.put = s.put
    BY <2>1, Zenon DEF Locals
  <2>3. Where(t) = "found" /\ ~Owes(t)
    BY <2>2, Zenon DEF Where, Owes
  <2> QED
    BY <1>1, <2>2, <2>3, MoveQuiet
<1> QED
  BY <1>4, <1>5, <1>6, ZenonT(30)

\* The begin of a system call: the walk begins at an inode that is not free.
LEMMA QuietCall ==
  ASSUME Inv, LInv, NEW p \in Procs, Call(p)
  PROVE  Quiet(p)
<1>1. PICK c \in Calls, path \in Paths : \E new \in IF c = "link" THEN LinkPaths ELSE {<<>>} :
        Walk(p, [Idle EXCEPT !.call = c, !.new = new], path)
  BY Zenon DEF Call
<1>2. PICK new \in IF c = "link" THEN LinkPaths ELSE {<<>>} :
        Walk(p, [Idle EXCEPT !.call = c, !.new = new], path)
  BY <1>1, Zenon
<1> DEFINE s == [Idle EXCEPT !.call = c, !.new = new]
<1>3. s \in Locals
  BY IdleLocal, Zenon DEF Locals
<1>4. s.pc = "user" /\ s.ip = 0 /\ s.dp = 0 /\ s.put = 0 /\ s.rest = <<>>
  BY Zenon DEF Idle
<1>5. Where(st[p]) = "user"
  BY Zenon DEF Call, At, Where
<1>6. path \in [abs : BOOLEAN, elems : Seq(Elems)]
  BY FileSysAssumption, Zenon
<1>7. UNCHANGED <<disk, ents, cwd, fd>>
  BY Zenon DEF Call
<1>8. Walk(p, s, path)
  BY <1>2, Zenon
<1> HIDE DEF s
<1> QED
  BY <1>3, <1>4, <1>5, <1>6, <1>7, <1>8, WalkQuiet, ZenonT(30)

\* The begin of the walk along link()'s second path.
LEMMA QuietWalkNew ==
  ASSUME Inv, LInv, NEW p \in Procs, WalkNew(p)
  PROVE  Quiet(p)
<1> DEFINE s == [st[p] EXCEPT !.new = <<>>]
           path == st[p].new
<1>1. st[p] \in Locals /\ st[p].pc = "new"
  BY LocalFacts, Zenon DEF WalkNew, At
<1>2. s \in Locals
  BY <1>1, Zenon DEF Locals
<1>3. /\ s.call = st[p].call /\ s.ip = st[p].ip /\ s.dp = st[p].dp
      /\ s.put = st[p].put /\ s.rest = st[p].rest
  BY <1>1, Zenon DEF Locals
<1>5. /\ st[p].ip # 0 /\ st[p].dp = 0 /\ st[p].put = 0 /\ st[p].call = "link"
      /\ path \in LinkPaths /\ Where(st[p]) = "new" /\ Owes(st[p])
  BY <1>1, LocalFacts, Zenon DEF Shape, Where, InIput, Owes
<1>6. path \in [abs : BOOLEAN, elems : Seq(Elems)]
  BY <1>5, FileSysAssumption, Zenon
<1>7. UNCHANGED <<disk, ents, cwd, fd>>
  BY Zenon DEF WalkNew
<1>8. Walk(p, s, path)
  BY Zenon DEF WalkNew
<1> HIDE DEF s, path
<1> QED
  BY <1>2, <1>3, <1>5, <1>6, <1>7, <1>8, WalkQuiet, ZenonT(30)

\* A turn of the loop of namex() that does not stray: an entry leads to an inode
\* with a link.
LEMMA QuietWalkStep ==
  ASSUME Inv, LInv, NEW p \in Procs, WalkStep(p), ~strayed'
  PROVE  Quiet(p)
<1>1. st[p] \in Locals /\ Shape(st[p]) /\ st[p].pc = "walk" /\ st[p].rest # <<>>
  BY LocalFacts, Zenon DEF WalkStep, At
<1> PICK s : s = st[p]
  BY Zenon
<1> PICK t : t = st'[p]
  BY Zenon
<1>2. /\ Where(s) = "walk" /\ s.put = 0 /\ s.dp \in Inums /\ Head(s.rest) \in Elems
      /\ (s.ip # 0 => s.call = "link") /\ s.rest # <<>> /\ s \in Locals
  BY <1>1, RestHead, Zenon DEF Shape, Where, InIput, Locals
<1> PICK i \in Inums : i = s.dp
  BY <1>2, Zenon
<1> PICK j : j = ents[i][Head(s.rest)]
  BY Zenon
<1> DEFINE last == Nameiparent(s) /\ Len(s.rest) = 1
<1>3. UNCHANGED <<disk, ents, cwd, fd>> /\ Copy(i) = disk[i] /\ Has(p, i)
  BY CopyIs, Zenon DEF WalkStep, Has
<1>4. \A x : Goto(p, x) => t = x
  BY Zenon DEF Goto, Inv, TypeInv
<1>5. CASE Cached(i, {}, Nothing) /\ t = Put([s EXCEPT !.dp = 0], i, Failed(s))
  <2>1. Failed(s) \in Labels
    BY LabelFacts, Zenon DEF Failed
  <2>2. /\ t.pc = "put" /\ t.put = s.dp /\ t.call = s.call /\ t.rest = s.rest /\ t.ip = s.ip
        /\ t.dp = 0 /\ Where(t) = Failed(s)
    BY <1>2, <1>5, <2>1, PutDpFields
  <2>3. Where(t) \in {"bad", "user"}
    BY <2>2, Zenon DEF Failed
  <2>5. Owes(t) /\ t.ip # 0 => t.ip = s.ip /\ Owes(s) /\ t.call = s.call
    BY <1>2, <2>2, <2>3, Zenon DEF Owes
  <2>6. Where(t) \notin {"init", "parent", "unlink", "linkfail", "unlinkbad"}
    BY <2>3, Zenon
  <2>7. t.ip \in {s.ip, s.dp, i, 0} /\ t.dp \in {s.ip, s.dp, i, 0} /\ t.put \in {s.ip, s.dp, i, 0}
    BY <2>2, Zenon
  <2> QED
    BY <1>2, <1>3, <2>2, <2>5, <2>6, <2>7, MoveQuiet, ZenonT(30)
<1>6. CASE Copy(i).type = "dir" /\ last /\ Cached(i, {}, Nothing) /\ t = [s EXCEPT !.pc = "parent"]
  <2>1. /\ t.pc = "parent" /\ t.put = s.put /\ t.call = s.call /\ t.rest = s.rest /\ t.ip = s.ip
        /\ t.dp = s.dp
    BY <1>2, <1>6, Zenon DEF Locals
  <2>2. Where(t) = "parent"
    BY <2>1, Zenon DEF Where
  <2>4. Owes(t) /\ t.ip # 0 => t.ip = s.ip /\ Owes(s) /\ t.call = s.call
    BY <1>2, <2>1, Zenon DEF Owes
  <2>5. disk[t.dp].type = "dir"
    BY <1>3, <1>6, <2>1, ZenonT(30)
  <2> QED
    BY <1>2, <1>3, <2>1, <2>2, <2>4, <2>5, MoveQuiet, ZenonT(30)
<1>7. ASSUME Copy(i).type = "dir", Follow(i, Head(s.rest))
      PROVE  j \in Inums => Has(p, j) \/ disk[j].nlink >= 1
  <2>1. disk[i].type = "dir" /\ Where(st[p]) # "init"
    BY <1>2, <1>3, <1>7, Zenon
  <2> PICK n \in Elems : n = Head(s.rest)
    BY <1>2, Zenon
  <2>n. ~Strays(i, n)
    BY <1>7, Zenon DEF Follow
  <2>2. ents[i][n] \in Inums => Has(p, ents[i][n]) \/ disk[ents[i][n]].nlink >= 1
    BY <1>3, <2>1, <2>n, EntryLinked, ZenonT(30)
  <2> QED
    BY <2>2, Zenon
<1>8. ASSUME Copy(i).type = "dir", Follow(i, Head(s.rest)), ~last, Cached(i, {j}, Nothing), Len(s.rest) = 1,
             t = Put([s EXCEPT !.ip = j, !.dp = 0, !.rest = <<>>], i, "found")
      PROVE  Quiet(p)
  <2>1. /\ t.pc = "put" /\ t.put = s.dp /\ t.rest = <<>> /\ t.ip = j /\ t.dp = 0 /\ t.ret = "found"
    BY <1>2, <1>8, ZenonT(30) DEF Put, Locals
  <2>2. Where(t) = "found" /\ ~Owes(t)
    BY <2>1, Zenon DEF Where, Owes
  <2>3. j \in Inums => Has(p, j) \/ disk[j].nlink >= 1
    BY <1>7, <1>8, Zenon
  <2>4. Where(t) \notin {"init", "parent", "unlink", "linkfail", "unlinkbad"}
    BY <2>2, Zenon
  <2>5. t.ip \in {s.ip, s.dp, j, 0} /\ t.dp \in {s.ip, s.dp, j, 0} /\ t.put \in {s.ip, s.dp, j, 0}
    BY <2>1, Zenon
  <2> QED
    BY <1>2, <1>3, <2>1, <2>2, <2>3, <2>4, <2>5, MoveQuiet, ZenonT(30)
<1>9. ASSUME Copy(i).type = "dir", Follow(i, Head(s.rest)), Cached(i, {j}, Nothing), Len(s.rest) # 1,
             t = Put([s EXCEPT !.dp = j, !.rest = Tail(@)], i, "walk")
      PROVE  Quiet(p)
  <2>1. /\ t.pc = "put" /\ t.put = s.dp /\ t.rest = Tail(s.rest) /\ t.ip = s.ip /\ t.dp = j
        /\ t.ret = "walk" /\ t.call = s.call
    BY <1>2, <1>9, Zenon DEF Put, Locals
  <2>2. Where(t) = "walk" /\ (Owes(t) <=> Owes(s))
    BY <1>2, <2>1, Zenon DEF Where, Owes
  <2> QED
    BY <1>2, <1>3, <1>7, <1>9, <2>1, <2>2, MoveQuiet, ZenonT(30)
<1> QED
  BY <1>4, <1>5, <1>6, <1>8, <1>9, ZenonT(30) DEF WalkStep

\* The end of a call keeps no pointer that the call did not have.
LEMMA LeftFacts ==
  ASSUME Inv, LInv, NEW p \in Procs, Where(st[p]) # "chdir", st[p].ip \in Inums, st[p].dp = 0,
         st[p].put = 0, UNCHANGED cwd, IputIp(p, st[p]) \/ OpenFile(p, st[p])
  PROVE  /\ GainStep(p) /\ DropStep(p) /\ Own(p)'
         /\ st'[p].ip = 0 /\ Where(st'[p]) = "user"
<1> PICK s : s = st[p]
  BY Zenon
<1> PICK t : t = st'[p]
  BY Zenon
<1>0. s \in Locals /\ 0 \notin Inums
  BY LocalFacts, Zenon
<1>1. fd \in [Procs -> Inums \cup {0}]
  BY Zenon DEF Inv, TypeInv
<1>2. /\ t.ip = 0 /\ t.dp = 0 /\ t.put \in {0, s.ip} /\ t.pc \in {"user", "put"}
      /\ Where(t) = "user"
      /\ fd'[p] \in {fd[p], s.ip}
  <2>1. CASE fd[p] = 0 /\ fd' = [fd EXCEPT ![p] = s.ip] /\ Goto(p, Idle)
    <3>1. t = Idle
      BY <2>1, Zenon DEF Goto, Inv, TypeInv
    <3>2. t.pc = "user" /\ t.ip = 0 /\ t.dp = 0 /\ t.put = 0 /\ t.rest = <<>>
      BY <3>1 DEF Idle
    <3>4. Where(t) = "user"
      BY <3>2, Zenon DEF Where
    <3> QED
      BY <1>1, <2>1, <3>2, <3>4, ZenonT(30)
  <2>2. CASE IputIp(p, s)
    <3>1. t = Put([s EXCEPT !.ip = 0], s.ip, "user") /\ "user" \in Labels /\ fd' = fd
      BY <2>2, LabelFacts, Zenon DEF IputIp, Goto, Inv, TypeInv
    <3>2. /\ t.pc = "put" /\ t.put = s.ip /\ t.rest = s.rest /\ t.ip = 0 /\ t.dp = s.dp
          /\ Where(t) = "user"
      BY <1>0, <3>1, PutIpFields
    <3> QED
      BY <1>0, <3>1, <3>2, Zenon
  <2> QED
    BY <2>1, <2>2, Zenon DEF OpenFile, IputIp
<1>3. OwnAs(p, st'[p])
  BY <1>2, Zenon DEF OwnAs, Owes
<1>4. GainStep(p)
  BY <1>0, <1>2, Zenon DEF GainStep, Has
<1> QED
  BY <1>2, <1>3, <1>4, OwnNext, Zenon DEF DropStep

\* So do those ends that change no inode.
LEMMA LeftQuiet ==
  ASSUME Inv, LInv, NEW p \in Procs, Where(st[p]) \notin {"chdir", "init"}, st[p].ip \in Inums,
         st[p].dp = 0, st[p].put = 0, UNCHANGED <<disk, ents, cwd>>,
         IputIp(p, st[p]) \/ OpenFile(p, st[p])
  PROVE  Quiet(p)
<1>1. /\ GainStep(p) /\ DropStep(p) /\ Own(p)'
      /\ st'[p].ip = 0 /\ Where(st'[p]) = "user"
  BY LeftFacts, Zenon
<1> QED
  BY <1>1, FileSysAssumption, Zenon DEF Quiet

\* The end of sys_chdir().
LEMMA QuietChdir ==
  ASSUME Inv, LInv, NEW p \in Procs, Chdir(p)
  PROVE  Quiet(p)
<1> PICK s : s = st[p]
  BY Zenon
<1> PICK t : t = st'[p]
  BY Zenon
<1>1. s.pc = "chdir" /\ t = Idle /\ cwd'[p] = s.ip /\ fd' = fd /\ UNCHANGED <<disk, ents, mem>>
  BY Zenon DEF Chdir, At, Goto, Inv, TypeInv
<1>2. t.pc = "user" /\ t.ip = 0 /\ t.dp = 0 /\ t.put = 0 /\ t.rest = <<>>
  BY <1>1 DEF Idle
<1>n. 0 \notin Inums
  BY FileSysAssumption, Zenon
<1>4. Where(t) = "user" /\ Where(s) = "chdir"
  BY <1>1, <1>2, Zenon DEF Where
<1>5. OwnAs(p, st'[p])
  BY <1>2, <1>4, Zenon DEF OwnAs, Owes
<1>6. GainStep(p) /\ DropStep(p)
  BY <1>1, <1>2, <1>n, ZenonT(30) DEF GainStep, Has, DropStep
<1> QED
  BY <1>1, <1>2, <1>n, <1>4, <1>5, <1>6, OwnNext, ZenonT(30) DEF Quiet

\* close() of the last descriptor.
LEMMA QuietClose ==
  ASSUME Inv, LInv, NEW p \in Procs, Close(p)
  PROVE  Quiet(p)
<1> PICK s : s = st[p]
  BY Zenon
<1> PICK t : t = st'[p]
  BY Zenon
<1>1. /\ s.pc = "user" /\ t = Put(Idle, fd[p], "user") /\ cwd' = cwd /\ fd'[p] = 0
      /\ UNCHANGED <<disk, ents, mem>>
  BY Zenon DEF Close, At, Goto, Inv, TypeInv
<1>2. t.pc = "put" /\ t.ret = "user" /\ t.ip = 0 /\ t.dp = 0 /\ t.put = fd[p] /\ t.rest = <<>>
  BY <1>1, ZenonT(30) DEF Idle, Put
<1>n. 0 \notin Inums
  BY FileSysAssumption, Zenon
<1>4. Where(t) = "user" /\ Where(s) = "user"
  BY <1>1, <1>2, Zenon DEF Where
<1>5. OwnAs(p, st'[p])
  BY <1>2, <1>4, ZenonT(30) DEF OwnAs, Owes
<1>6. GainStep(p) /\ DropStep(p)
  BY <1>1, <1>2, <1>n, <1>4, ZenonT(30) DEF GainStep, Has, DropStep
<1> QED
  BY <1>1, <1>2, <1>n, <1>4, <1>5, <1>6, OwnNext, ZenonT(30) DEF Quiet

\* create() with an existing inode.
LEMMA QuietExists ==
  ASSUME Inv, LInv, NEW p \in Procs, Exists(p)
  PROVE  Quiet(p)
<1>1. st[p] \in Locals /\ Shape(st[p]) /\ st[p].pc = "exists"
  BY LocalFacts, Zenon DEF Exists, At
<1>2. Where(st[p]) = "exists" /\ st[p].put = 0 /\ st[p].dp = 0 /\ st[p].ip \in Inums
  BY <1>1, Zenon DEF Shape, Where, InIput, Locals
<1>3. Cached(st[p].ip, {}, Nothing) /\ UNCHANGED <<disk, ents, cwd>>
  BY Zenon DEF Exists
<1>4. IputIp(p, st[p]) \/ OpenFile(p, st[p])
  BY Zenon DEF Exists
<1>6. Where(st[p]) \notin {"chdir", "init"}
  BY <1>2, Zenon
<1> QED
  BY <1>2, <1>3, <1>4, <1>6, LeftQuiet, ZenonT(30)

\* The end of create().
LEMMA QuietCreated ==
  ASSUME Inv, LInv, NEW p \in Procs, Created(p)
  PROVE  Quiet(p)
<1>1. st[p] \in Locals /\ Shape(st[p]) /\ st[p].pc = "created"
  BY LocalFacts, Zenon DEF Created, At
<1>2. Where(st[p]) = "created" /\ st[p].put = 0 /\ st[p].dp = 0 /\ st[p].ip \in Inums
  BY <1>1, Zenon DEF Shape, Where, InIput, Locals
<1>3. UNCHANGED <<mem, disk, ents, cwd>>
  BY Zenon DEF Created
<1>4. IputIp(p, st[p]) \/ OpenFile(p, st[p])
  BY Zenon DEF Created
<1>6. Where(st[p]) \notin {"chdir", "init"}
  BY <1>2, Zenon
<1> QED
  BY <1>2, <1>3, <1>4, <1>6, LeftQuiet, ZenonT(30)

\* The end of sys_link().
LEMMA QuietLinked ==
  ASSUME Inv, LInv, NEW p \in Procs, Linked(p)
  PROVE  Quiet(p)
<1>1. st[p] \in Locals /\ Shape(st[p]) /\ st[p].pc = "linked"
  BY LocalFacts, Zenon DEF Linked, At
<1>2. Where(st[p]) = "linked" /\ st[p].put = 0 /\ st[p].dp = 0 /\ st[p].ip \in Inums
  BY <1>1, Zenon DEF Shape, Where, InIput, Locals
<1>3. UNCHANGED <<mem, disk, ents, cwd>> /\ IputIp(p, st[p])
  BY Zenon DEF Linked
<1>6. Where(st[p]) \notin {"chdir", "init"}
  BY <1>2, Zenon
<1> QED
  BY <1>2, <1>3, <1>6, LeftQuiet, ZenonT(30)

\* The parent directory that nameiparent() has found, and the entry in it, which
\* does not stray.
LEMMA ParentEntry ==
  ASSUME Inv, LInv, NEW p \in Procs, At(p, "parent"), Ilock(p),
         ~Strays(st[p].dp, Head(st[p].rest))
  PROVE  LET s == st[p] IN
         /\ disk[s.dp].type = "dir" /\ Has(p, s.dp) /\ Head(s.rest) \in Elems
         /\ Entry(s) \in Inums => Has(p, Entry(s)) \/ disk[Entry(s)].nlink >= 1
         /\ Entry(s) = 0 => Head(s.rest) \in Names
<1>1. Where(st[p]) = "parent" /\ st[p].dp \in Inums /\ st[p].rest # <<>>
  BY ParentFacts, Zenon
<1>2. /\ disk[st[p].dp].type = "dir" /\ Has(p, st[p].dp)
  BY <1>1, Zenon DEF LInv, Own, Has
<1>3. Head(st[p].rest) \in Elems
  BY <1>1, RestHead, Zenon
<1> PICK d \in Inums : d = st[p].dp
  BY <1>1, Zenon
<1> PICK n \in Elems : n = Head(st[p].rest)
  BY <1>3, Zenon
<1>4. Where(st[p]) # "init"
  BY <1>1, Zenon
<1>5. /\ ents[d][n] \in Inums => Has(p, ents[d][n]) \/ disk[ents[d][n]].nlink >= 1
      /\ ents[d][n] = 0 => n \in Names
  BY <1>2, <1>4, EntryLinked, Zenon
<1> QED
  BY <1>2, <1>3, <1>5, Zenon DEF Entry

\* A name that is not there, or not "..", does not lead astray.
LEMMA NotAstray ==
  ASSUME NEW s, Entry(s) = 0 \/ Head(s.rest) # ".."
  PROVE  ~Strays(s.dp, Head(s.rest))
BY Zenon DEF Strays, Entry

\* create() of a name that exists: its inode has a link.
LEMMA QuietParentExists ==
  ASSUME Inv, LInv, NEW p \in Procs, ParentExists(p), ~strayed'
  PROVE  Quiet(p)
<1> PICK s : s = st[p]
  BY Zenon
<1> PICK t : t = st'[p]
  BY Zenon
<1> PICK j : j = Entry(s)
  BY Zenon
<1>1. /\ s \in Locals /\ Where(s) = "parent" /\ s.put = 0 /\ s.dp \in Inums
      /\ (j \in Inums => Has(p, j) \/ disk[j].nlink >= 1)
  BY ParentFacts, ParentEntry, Zenon DEF ParentExists, Follow
<1>2. t = Put([s EXCEPT !.ip = j, !.dp = 0], s.dp, "exists")
  BY Zenon DEF ParentExists, Goto, Inv, TypeInv
<1>3. t.pc = "put" /\ t.put = s.dp /\ t.rest = s.rest /\ t.ip = j /\ t.dp = 0 /\ t.ret = "exists"
  BY <1>1, <1>2, Zenon DEF Put, Locals
<1>4. Where(t) = "exists" /\ ~Owes(t)
  BY <1>3, Zenon DEF Where, Owes
<1>5. UNCHANGED <<disk, ents, cwd, fd>> /\ Cached(s.dp, {j}, Nothing)
  BY Zenon DEF ParentExists
<1> QED
  BY <1>1, <1>3, <1>4, <1>5, MoveQuiet, ZenonT(30)

\* sys_unlink() with the parent: the inode of the name has a link.
LEMMA QuietParentUnlink ==
  ASSUME Inv, LInv, NEW p \in Procs, ParentUnlink(p)
  PROVE  Quiet(p)
<1> PICK s : s = st[p]
  BY Zenon
<1> PICK t : t = st'[p]
  BY Zenon
<1> PICK j : j = Entry(s)
  BY Zenon
<1>1. /\ s \in Locals /\ Where(s) = "parent" /\ s.put = 0 /\ s.dp \in Inums /\ s.ip = 0
      /\ s.rest # <<>> /\ s.call = "unlink"
  BY ParentFacts, Zenon DEF ParentUnlink
<1>d. disk[s.dp].type = "dir" /\ Head(s.rest) \in Elems /\ Has(p, s.dp)
  BY <1>1, RestHead, Zenon DEF LInv, Own, Has
<1>2. UNCHANGED <<disk, ents, cwd, fd>>
  BY Zenon DEF ParentUnlink
<1>3. \A x : Goto(p, x) => t = x
  BY Zenon DEF Goto, Inv, TypeInv
<1>4. ASSUME Cached(s.dp, {}, Nothing), t = Put([s EXCEPT !.dp = 0], s.dp, "user")
      PROVE  Quiet(p)
  <2>1. t.pc = "put" /\ t.put = s.dp /\ t.rest = s.rest /\ t.ip = s.ip /\ t.dp = 0 /\ t.ret = "user"
    BY <1>1, <1>4, Zenon DEF Put, Locals
  <2>2. Where(t) = "user"
    BY <2>1, Zenon DEF Where
  <2> QED
    BY <1>1, <1>d, <1>2, <2>1, <2>2, MoveQuiet
<1>5. ASSUME Head(s.rest) \notin {".", ".."}, Cached(s.dp, {j}, Nothing),
             t = [s EXCEPT !.pc = "unlink", !.ip = j]
      PROVE  Quiet(p)
  <2>1. /\ t.pc = "unlink" /\ t.put = s.put /\ t.rest = s.rest /\ t.ip = j /\ t.dp = s.dp
        /\ t.call = "unlink"
    BY <1>1, <1>5, ZenonT(30) DEF Locals
  <2>2. Where(t) = "unlink" /\ ~Owes(t)
    BY <2>1, Zenon DEF Where, Owes
  <2>3. j \in Inums => Has(p, j) \/ disk[j].nlink >= 1
    BY <1>5, NotAstray, ParentEntry, Zenon DEF ParentUnlink
  <2>4. Head(t.rest) \in Names /\ ents[t.dp][Head(t.rest)] = t.ip
    BY <1>d, <1>5, <2>1, ZenonT(30) DEF Entry, Elems
  <2> QED
    BY <1>1, <1>d, <1>2, <2>1, <2>2, <2>3, <2>4, MoveQuiet
<1> QED
  BY <1>3, <1>4, <1>5, ZenonT(30) DEF ParentUnlink

\* iunlockput(dp) of a call that fails: link() still owes its link.
LEMMA QuietIunlockputDp ==
  ASSUME Inv, LInv, NEW p \in Procs, IunlockputDp(p)
  PROVE  Quiet(p)
<1> PICK s : s = st[p]
  BY Zenon
<1> PICK t : t = st'[p]
  BY Zenon
<1>1. /\ s.pc \in {"linkfail", "unlinkbad"} /\ UNCHANGED <<disk, ents, cwd, fd, mem>>
      /\ t = Put([s EXCEPT !.dp = 0], s.dp, IF s.pc = "linkfail" THEN "bad" ELSE "user")
  BY Zenon DEF IunlockputDp, At, Goto, Inv, TypeInv
<1>2. /\ s \in Locals /\ Where(s) = s.pc /\ s.put = 0 /\ s.dp \in Inums
      /\ Shape(s)
  BY <1>1, DpLockFacts, Zenon
<1>3. /\ t.pc = "put" /\ t.put = s.dp /\ t.rest = s.rest /\ t.ip = s.ip /\ t.dp = 0
      /\ t.ret = (IF s.pc = "linkfail" THEN "bad" ELSE "user") /\ t.call = s.call
  BY <1>1, <1>2, Zenon DEF Put, Locals
<1>4. Where(t) = t.ret
  BY <1>3, Zenon DEF Where
<1>5. Owes(t) /\ t.ip # 0 => t.ip = s.ip /\ Owes(s) /\ t.call = s.call
  BY <1>1, <1>2, <1>3, <1>4, Zenon DEF Owes
<1>7. Where(s) \in {"linkfail", "unlinkbad"} /\ Where(t) \in {"bad", "user"}
  BY <1>1, <1>2, <1>3, <1>4, ZenonT(30)
<1>8. UNCHANGED <<disk, ents, cwd, fd>> /\ t.put = s.dp /\ t.ip = s.ip /\ t.dp = 0
  BY <1>1, <1>3, Zenon
<1>9. t.pc = "put"
  BY <1>3, Zenon
<1>10. s.dp \in Inums => Has(p, s.dp) \/ disk[s.dp].nlink >= 1
  BY Zenon DEF Has
<1> QED
  BY <1>5, <1>7, <1>8, <1>9, <1>10, MoveQuiet, ZenonT(30)

\* A panic changes nothing else.
LEMMA QuietPanic ==
  ASSUME Inv, LInv, NEW p \in Procs, Panic(p)
  PROVE  Quiet(p)
<1>1. UNCHANGED <<disk, ents, ref, cwd, fd, st>>
  BY Zenon DEF Panic
<1>2. \A q \in Procs : \A i : Has(q, i)' <=> Has(q, i)
  BY <1>1, Zenon DEF Has
<1>3. GainStep(p) /\ DropStep(p)
  BY <1>1, <1>2, Zenon DEF GainStep, DropStep
<1>4. Own(p)
  BY Zenon DEF LInv
<1>5. Own(p)'
  BY <1>1, <1>2, <1>4, Zenon DEF Own
<1> QED
  BY <1>1, <1>3, <1>5, Zenon DEF Quiet

----------------------------------------------------------------------------
(* Steps that change link counts, allocate and free.                        *)

\* The links of i are still counted when names, subdirectories and calls that owe
\* a link change by at most a, b and c, and the count by x.
LEMMA StaysCovered ==
  ASSUME Inv, LInv, NEW i \in Inums, NEW x \in Int, NEW a \in Int, NEW b \in Int, NEW c \in Int,
         disk'[i].nlink = disk[i].nlink + x, a + b + c <= x,
         Cardinality(NamesOf(i, ents')) \in Nat,
         Cardinality(NamesOf(i, ents')) <= Cardinality(NamesOf(i, ents)) + a,
         Cardinality(Subdirs(i, disk', ents')) \in Nat,
         Cardinality(Subdirs(i, disk', ents')) <= Cardinality(Subdirs(i, disk, ents)) + b,
         Cardinality(Pending(i)') \in Nat,
         Cardinality(Pending(i)') <= Cardinality(Pending(i)) + c
  PROVE  Covered(i)'
<1>1. /\ disk[i].nlink \in Nat /\ Cardinality(Pending(i)) \in Nat
      /\ Cardinality(NamesOf(i, ents)) \in Nat /\ Cardinality(Subdirs(i, disk, ents)) \in Nat
  BY LinksNat, Zenon DEF LInv
<1>2. disk[i].nlink >= Cardinality(NamesOf(i, ents)) + Cardinality(Subdirs(i, disk, ents))
                         + Cardinality(Pending(i)) + One(ROOTINO, i)
  BY Zenon DEF LInv, LinkInv, Covered
<1>3. One(ROOTINO, i) \in Int
  BY OneFacts, Zenon
<1>4. disk'[i].nlink >= Cardinality(NamesOf(i, ents')) + Cardinality(Subdirs(i, disk', ents'))
                          + Cardinality(Pending(i)') + One(ROOTINO, i)
  BY <1>1, <1>2, <1>3
<1> QED
  BY <1>4, Zenon DEF Covered, NamesOf, Subdirs

\* The sets are finite.
LEMMA LinkSets ==
  ASSUME Inv, LInv, NEW i \in Inums
  PROVE  /\ IsFiniteSet(NamesOf(i, ents)) /\ IsFiniteSet(Subdirs(i, disk, ents))
         /\ IsFiniteSet(Pending(i))
         /\ Cardinality(NamesOf(i, ents)) \in Nat /\ Cardinality(Subdirs(i, disk, ents)) \in Nat
         /\ Cardinality(Pending(i)) \in Nat
BY LinksNat, Zenon DEF LInv

\* The usual case: nothing grows, and the count stays.
LEMMA SameCovered ==
  ASSUME Inv, LInv, NEW i \in Inums, disk'[i].nlink = disk[i].nlink,
         NamesOf(i, ents') \subseteq NamesOf(i, ents),
         Subdirs(i, disk', ents') \subseteq Subdirs(i, disk, ents), Pending(i)' \subseteq Pending(i)
  PROVE  Covered(i)'
<1>1. /\ IsFiniteSet(NamesOf(i, ents)) /\ IsFiniteSet(Subdirs(i, disk, ents))
      /\ IsFiniteSet(Pending(i)) /\ Cardinality(NamesOf(i, ents)) \in Nat
      /\ Cardinality(Subdirs(i, disk, ents)) \in Nat /\ Cardinality(Pending(i)) \in Nat
  BY LinkSets, Zenon
<1>2. /\ Cardinality(NamesOf(i, ents')) \in Nat
      /\ Cardinality(NamesOf(i, ents')) <= Cardinality(NamesOf(i, ents)) + 0
  BY <1>1, Fewer
<1>3. /\ Cardinality(Subdirs(i, disk', ents')) \in Nat
      /\ Cardinality(Subdirs(i, disk', ents')) <= Cardinality(Subdirs(i, disk, ents)) + 0
  BY <1>1, Fewer
<1>4. /\ Cardinality(Pending(i)') \in Nat
      /\ Cardinality(Pending(i)') <= Cardinality(Pending(i)) + 0
  BY <1>1, Fewer
<1>5. disk'[i].nlink = disk[i].nlink + 0
  BY LinksNat DEF LInv
<1>6. 0 \in Int /\ 0 + 0 + 0 <= 0
  OBVIOUS
<1> QED
  BY <1>2, <1>3, <1>4, <1>5, <1>6, StaysCovered, Zenon

\* Names of the same directories, and of inodes of the same types.
LEMMA SameNames ==
  ASSUME Inv, NEW i \in Inums, UNCHANGED ents, \A k \in Inums : disk'[k].type = disk[k].type
  PROVE  NamesOf(i, ents') = NamesOf(i, ents) /\ Subdirs(i, disk', ents') = Subdirs(i, disk, ents)
<1>1. \A n \in Names : ents[i][n] \in Inums \cup {0}
  BY ZenonT(30) DEF Inv, TypeInv, Entries, Elems
<1> QED
  BY <1>1, Zenon DEF Subdirs

\* The link count of i goes up or down by one, with the calls that owe a link.
LEMMA CountEffect ==
  ASSUME Inv, LInv, NEW p \in Procs, Sound(p), NEW i \in Inums, Has(p, i), NEW n \in {1, -1},
         disk' = [disk EXCEPT ![i].nlink = @ + n], UNCHANGED ents, Where(st[p]) # "init",
         st'[p].ip \in {0, i},
         n = -1 => st[p].ip = i /\ Owes(st[p]) /\ st'[p].ip = 0
  PROVE  DiskStep(p) /\ EntsStep(p) /\ DotStep(p) /\ LinkInv' /\ Parents'
<1>1. disk \in [Inums -> Dinode]
  BY Zenon DEF Inv, TypeInv, InodeTypes
<1>2. /\ \A k \in Inums : disk'[k].type = disk[k].type
      /\ \A k \in Inums \ {i} : disk'[k] = disk[k]
      /\ disk'[i].nlink = disk[i].nlink + n
  BY <1>1, Zenon DEF Dinode
<1>3. DiskStep(p)
  BY <1>2, Zenon DEF DiskStep
<1>4. EntsStep(p)
  BY Zenon DEF EntsStep
<1>5. DotStep(p)
  BY <1>2, Zenon DEF DotStep, HasDots
<1>p. Parents'
  BY <1>2, ParentsKept, Zenon DEF LInv
<1>6. ASSUME NEW k \in Inums PROVE Covered(k)'
  <2>1. /\ NamesOf(k, ents') = NamesOf(k, ents)
        /\ Subdirs(k, disk', ents') = Subdirs(k, disk, ents)
    BY <1>2, SameNames, Zenon
  <2>2. 0 \notin Inums /\ Frame(p)
    BY FileSysAssumption, Zenon DEF Sound
  <2>3. CASE k # i
    <3>1. Pending(k)' \subseteq Pending(k)
      BY <2>2, <2>3, PendingFewer, Zenon
    <3>2. disk'[k].nlink = disk[k].nlink
      BY <1>2, <2>3, Zenon
    <3> QED
      BY <2>1, <3>1, <3>2, SameCovered, ZenonT(30)
  <2>4. CASE k = i
    <3>1. /\ IsFiniteSet(Pending(i)) /\ Cardinality(NamesOf(i, ents)) \in Nat
          /\ Cardinality(Subdirs(i, disk, ents)) \in Nat /\ Cardinality(Pending(i)) \in Nat
      BY LinkSets, Zenon
    <3>2. /\ Cardinality(Pending(i)') \in Nat
          /\ Cardinality(Pending(i)') <= Cardinality(Pending(i)) + n
      <4>1. CASE n = 1
        <5>1. Pending(i)' \subseteq Pending(i) \cup {p}
          BY <2>2, PendingFewer, ZenonT(30)
        <5> QED
          BY <3>1, <4>1, <5>1, OneMore, ZenonT(30)
      <4>2. CASE n = -1
        <5>1. Pending(i)' \subseteq Pending(i) \ {p} /\ p \in Pending(i)
          BY <2>2, <4>2, PendingFewer, ZenonT(30) DEF Pending
        <5>2. /\ Cardinality(Pending(i)') \in Nat
              /\ Cardinality(Pending(i)') <= Cardinality(Pending(i)) - 1
          BY <3>1, <5>1, OneLess, Zenon
        <5> QED
          BY <3>1, <4>2, <5>2, ZenonT(30)
      <4> QED
        BY <4>1, <4>2, ZenonT(30)
    <3>3. /\ Cardinality(NamesOf(i, ents')) <= Cardinality(NamesOf(i, ents)) + 0
          /\ Cardinality(Subdirs(i, disk', ents')) <= Cardinality(Subdirs(i, disk, ents)) + 0
          /\ Cardinality(NamesOf(i, ents')) \in Nat /\ Cardinality(Subdirs(i, disk', ents')) \in Nat
      BY <2>1, <2>4, <3>1
    <3>4. n \in Int /\ 0 \in Int /\ 0 + 0 + n <= n
      OBVIOUS
    <3>5. Covered(i)'
      BY <1>2, <3>2, <3>3, <3>4, StaysCovered, Zenon
    <3> QED
      BY <2>4, <3>5, Zenon
  <2> QED
    BY <2>3, <2>4, Zenon
<1> QED
  BY <1>3, <1>4, <1>5, <1>p, <1>6, ZenonT(30) DEF LinkInv

\* bad: of sys_link()
LEMMA EffectLinkBad ==
  ASSUME Inv, LInv, NEW p \in Procs, LinkBad(p)
  PROVE  Effect(p)
<1>0. Sound(p)
  BY SoundLinkBad, Zenon
<1>1. st[p] \in Locals /\ Shape(st[p]) /\ st[p].pc = "bad"
  BY LocalFacts, Zenon DEF LinkBad, At
<1>2. /\ Where(st[p]) = "bad" /\ st[p].put = 0 /\ st[p].dp = 0 /\ st[p].ip \in Inums
      /\ st[p].call = "link" /\ st[p].ip # 0
  BY <1>1, Zenon DEF Shape, Where, InIput, Locals
<1> PICK i \in Inums : i = st[p].ip
  BY <1>2, Zenon
<1>3. ~NoType(i) /\ Cached(i, {}, Links(i, -1)) /\ Iupdate(Links(i, -1))
  BY <1>1, Zenon DEF LinkBad, Ilock, Wants
<1>4. UNCHANGED <<ents, cwd>> /\ ents' \in [Inums -> Entries] /\ IputIp(p, st[p])
  BY Zenon DEF LinkBad, Inv, TypeInv
<1>5. -1 \in Int /\ -1 \in {1, -1}
  OBVIOUS
<1>6. disk' = [disk EXCEPT ![i].nlink = @ + (-1)]
  BY <1>3, <1>4, <1>5, LinksSound
<1>8. Where(st[p]) # "chdir" /\ Where(st[p]) # "init" /\ Owes(st[p]) /\ Has(p, i)
  BY <1>2, Zenon DEF Owes, Has
<1>9. /\ GainStep(p) /\ DropStep(p) /\ Own(p)'
      /\ st'[p].ip = 0 /\ Where(st'[p]) = "user"
  BY <1>2, <1>4, <1>8, LeftFacts, ZenonT(30)
<1>10. DiskStep(p) /\ EntsStep(p) /\ DotStep(p) /\ LinkInv' /\ Parents'
  BY <1>0, <1>4, <1>5, <1>6, <1>8, <1>9, CountEffect, ZenonT(30)
<1> QED
  BY <1>9, <1>10, ZenonT(30) DEF Effect

\* The end of sys_unlink()
LEMMA EffectUnlinked ==
  ASSUME Inv, LInv, NEW p \in Procs, Unlinked(p)
  PROVE  Effect(p)
<1>0. Sound(p)
  BY SoundUnlinked, Zenon
<1>1. st[p] \in Locals /\ Shape(st[p]) /\ st[p].pc = "unlinked"
  BY LocalFacts, Zenon DEF Unlinked, At
<1>2. /\ Where(st[p]) = "unlinked" /\ st[p].put = 0 /\ st[p].dp = 0 /\ st[p].ip \in Inums
  BY <1>1, Zenon DEF Shape, Where, InIput, Locals
<1> PICK i \in Inums : i = st[p].ip
  BY <1>2, Zenon
<1>3. Cached(0, {}, Links(i, -1)) /\ Iupdate(Links(i, -1))
  BY <1>1, Zenon DEF Unlinked
<1>4. UNCHANGED <<ents, cwd>> /\ ents' \in [Inums -> Entries] /\ IputIp(p, st[p])
  BY Zenon DEF Unlinked, Inv, TypeInv
<1>5. -1 \in Int /\ -1 \in {1, -1}
  OBVIOUS
<1>6. disk' = [disk EXCEPT ![i].nlink = @ + (-1)]
  BY <1>3, <1>4, <1>5, LinksSound
<1>8. Where(st[p]) # "chdir" /\ Where(st[p]) # "init" /\ Owes(st[p]) /\ Has(p, i)
  BY <1>2, Zenon DEF Owes, Has
<1>9. /\ GainStep(p) /\ DropStep(p) /\ Own(p)'
      /\ st'[p].ip = 0 /\ Where(st'[p]) = "user"
  BY <1>2, <1>4, <1>8, LeftFacts, ZenonT(30)
<1>10. DiskStep(p) /\ EntsStep(p) /\ DotStep(p) /\ LinkInv' /\ Parents'
  BY <1>0, <1>4, <1>5, <1>6, <1>8, <1>9, CountEffect, Zenon
<1> QED
  BY <1>9, <1>10, Zenon DEF Effect

\* ip found by namei()
LEMMA EffectFound ==
  ASSUME Inv, LInv, NEW p \in Procs, Found(p)
  PROVE  Effect(p)
<1>0. Sound(p)
  BY SoundFound, Zenon
<1>1. st[p] \in Locals /\ Shape(st[p]) /\ st[p].pc = "found"
  BY LocalFacts, Zenon DEF Found, At
<1>2. Where(st[p]) = "found" /\ st[p].put = 0 /\ st[p].dp = 0 /\ st[p].ip \in Inums
  BY <1>1, Zenon DEF Shape, Where, InIput, Locals
<1> PICK i \in Inums : i = st[p].ip
  BY <1>2, Zenon
<1> PICK s : s = st[p]
  BY Zenon
<1> PICK t : t = st'[p]
  BY Zenon
<1>3. ~NoType(i) /\ Copy(i) = disk[i]
  BY <1>1, CopyIs, ZenonT(30) DEF Found, Ilock, Wants
<1>4. UNCHANGED <<ents, cwd>> /\ ents' \in [Inums -> Entries]
  BY Zenon DEF Found, Inv, TypeInv
<1>5. Where(s) \notin {"chdir", "init"} /\ ~Owes(s) /\ Has(p, i)
  BY <1>2, Zenon DEF Owes, Has
<1>6. \A x : Goto(p, x) => t = x
  BY Zenon DEF Goto, Inv, TypeInv
<1>7. CASE s.call = "link" /\ disk[i].type # "dir"
  <2>1. /\ Cached(i, {}, Links(i, 1)) /\ Iupdate(Links(i, 1))
        /\ t = [s EXCEPT !.pc = "new"] /\ fd' = fd
    BY <1>3, <1>6, <1>7, ZenonT(30) DEF Found
  <2>2. 1 \in Int /\ 1 \in {1, -1} /\ 1 # -1
    OBVIOUS
  <2>3. disk' = [disk EXCEPT ![i].nlink = @ + 1]
    BY <1>3, <1>4, <2>1, <2>2, LinksSound
  <2>5. /\ t.pc = "new" /\ t.put = s.put /\ t.call = s.call /\ t.rest = s.rest /\ t.ip = s.ip
        /\ t.dp = s.dp
    BY <1>1, <2>1, ZenonT(30) DEF Locals
  <2>6. Where(t) = "new"
    BY <2>5, Zenon DEF Where
  <2>7. GainStep(p)
    BY <1>2, <1>4, <1>5, <2>1, <2>5, GainsOne, ZenonT(30)
  <2>8. DropStep(p)
    BY <2>5, Zenon DEF DropStep
  <2>9. disk'[t.ip].type # "dir"
    BY <1>7, <2>3, <2>5 DEF Inv, TypeInv, InodeTypes, Dinode
  <2>10. OwnAs(p, st'[p])
    BY <1>3, <2>5, <2>6, <2>9, Zenon DEF OwnAs
  <2>11. DiskStep(p) /\ EntsStep(p) /\ DotStep(p) /\ LinkInv' /\ Parents'
    BY <1>0, <1>4, <1>5, <2>2, <2>3, <2>5, CountEffect, ZenonT(30)
  <2> QED
    BY <2>7, <2>8, <2>10, <2>11, OwnNext, ZenonT(30) DEF Effect
<1>8. CASE ~(s.call = "link" /\ disk[i].type # "dir")
  <2>1. Cached(i, {}, Nothing) /\ Iupdate(Nothing)
    BY <1>3, <1>8, Zenon DEF Found
  <2>2. disk' = disk
    BY <2>1, Zenon DEF Iupdate, Updated, Nothing, Inv, TypeInv, InodeTypes
  <2>4. \/ IputIp(p, s) \/ OpenFile(p, s)
        \/ t = Put(s, cwd[p], "chdir") /\ fd' = fd
    BY <1>3, <1>6, <1>8, ZenonT(30) DEF Found
  <2>5. CASE IputIp(p, s) \/ OpenFile(p, s)
    <3>1. Quiet(p)
      BY <1>2, <1>4, <1>5, <2>2, <2>5, LeftQuiet, ZenonT(30)
    <3> QED
      BY <1>0, <3>1, QuietEffect, ZenonT(30)
  <2>6. CASE t = Put(s, cwd[p], "chdir") /\ fd' = fd
    <3>1. /\ t.pc = "put" /\ t.put = cwd[p] /\ t.call = s.call /\ t.rest = s.rest /\ t.ip = s.ip
          /\ t.dp = s.dp /\ t.ret = "chdir"
      BY <1>1, <2>6, ZenonT(30) DEF Locals, Put
    <3>2. Where(t) = "chdir" /\ ~Owes(t)
      BY <3>1, Zenon DEF Where, Owes
    <3>3. Has(p, cwd[p])
      BY <1>2, Zenon DEF Has
    <3>4. Quiet(p)
      BY <1>2, <1>3, <1>4, <1>5, <2>2, <2>6, <3>1, <3>2, <3>3, MoveQuiet,
         ZenonT(30)
    <3> QED
      BY <1>0, <3>4, QuietEffect, Zenon
  <2> QED
    BY <2>4, <2>5, <2>6, ZenonT(30)
<1> QED
  BY <1>7, <1>8, ZenonT(30)

\* What a call in create() knows of the inode that it has just allocated.
LEMMA OwnInit ==
  ASSUME NEW p \in Procs, NEW t, t = st'[p], t.pc = "init", disk'[t.dp].type = "dir",
         Head(t.rest) \in Names, ents'[t.dp][Head(t.rest)] = 0,
         disk'[t.ip].type = NewType(t.call), disk'[t.ip].nlink = 0, t.call # "link",
         \A q \in Procs \ {p} : /\ ~(cwd'[q] = t.ip /\ Where(st'[q]) # "chdir")
                                /\ fd'[q] # t.ip /\ st'[q].ip # t.ip /\ st'[q].dp # t.ip
                                /\ ~(st'[q].put = t.ip /\ st'[q].pc # "drop")
  PROVE  Own(p)'
BY Zenon DEF Own, Has, Where, NewType

\* ialloc() takes an inode without links, names or pointers.
LEMMA EffectIalloc ==
  ASSUME Inv, LInv, NEW p \in Procs, Ialloc(p)
  PROVE  Effect(p)
<1>0. Sound(p)
  BY SoundIalloc, Zenon
<1> PICK s : s = st[p]
  BY Zenon
<1> PICK t : t = st'[p]
  BY Zenon
<1>1. /\ s \in Locals /\ Shape(s) /\ s.pc = "parent" /\ Where(s) = "parent" /\ s.put = 0
      /\ s.dp \in Inums /\ s.rest # <<>> /\ ~NoType(s.dp) /\ (s.ip # 0 <=> s.call = "link")
  BY ParentFacts, Zenon DEF Ialloc
<1>2. s.call \in Creates /\ s.ip = 0 /\ s.call # "link" /\ Entry(s) = 0
  BY <1>1, Zenon DEF Ialloc, Creates
<1>3. disk[s.dp].type = "dir" /\ Head(s.rest) \in Names /\ Has(p, s.dp)
  BY <1>2, NotAstray, ParentEntry, ZenonT(30) DEF Ialloc
<1>4. UNCHANGED <<cwd, fd>>
  BY Zenon DEF Ialloc
<1>5. CASE {n \in Inums : disk[n].type = "free"} = {}
  <2>1. UNCHANGED <<disk, ents, mem, st>>
    BY <1>5, Zenon DEF Ialloc
  <2>3. Where(s) \notin {"chdir", "init"} /\ t = s
    BY <1>1, <2>1, ZenonT(30)
  <2>4. s.dp \in Inums => Has(p, s.dp) \/ disk[s.dp].nlink >= 1
    BY <1>3, Zenon
  <2>5. Quiet(p)
    BY <1>1, <1>3, <1>4, <2>1, <2>3, <2>4, MoveQuiet, ZenonT(30)
  <2> QED
    BY <1>0, <2>5, QuietEffect, ZenonT(30)
<1>6. CASE {n \in Inums : disk[n].type = "free"} # {}
  <2> PICK k : k = Min({n \in Inums : disk[n].type = "free"})
    BY Zenon
  <2>1. k \in {n \in Inums : disk[n].type = "free"}
    <3>1. {n \in Inums : disk[n].type = "free"} \in SUBSET Nat
      BY FileSysAssumption, Zenon
    <3> QED
      BY <1>6, <3>1, FirstFree, ZenonT(30)
  <2>2. k \in Inums /\ disk[k].type = "free" /\ k # s.dp
    BY <1>3, <2>1, Zenon
  <2>3. disk[k].nlink = 0 /\ \A q \in Procs : ~Has(q, k)
    BY <2>2, Zenon DEF LInv, FreeInv
  <2>4. /\ disk' = [disk EXCEPT ![k] = [type |-> NewType(s.call), nlink |-> 0]]
        /\ ents' = [ents EXCEPT ![k] = NoEnts]
        /\ Cached(s.dp, {k}, Nothing) /\ t = [s EXCEPT !.pc = "init", !.ip = k]
    BY <1>6, Zenon DEF Ialloc, Goto, Inv, TypeInv
  <2>5. /\ t.pc = "init" /\ t.put = 0 /\ t.call = s.call /\ t.rest = s.rest /\ t.ip = k
        /\ t.dp = s.dp
    BY <1>1, <2>4, ZenonT(30) DEF Locals
  <2>6. Where(t) = "init" /\ ~Owes(t)
    BY <1>2, <2>5, ZenonT(30) DEF Where, Owes
  <2>7. NewType(s.call) # "free"
    BY <1>2, ZenonT(30) DEF NewType, Creates
  <2>8. /\ disk'[k].type = NewType(s.call) /\ disk'[k].nlink = 0
        /\ \A m \in Inums \ {k} : disk'[m] = disk[m]
    BY <2>2, <2>4, ZenonT(30) DEF Inv, TypeInv, InodeTypes
  <2>9. ents'[k] = NoEnts /\ \A m \in Inums \ {k} : ents'[m] = ents[m]
    BY <2>2, <2>4, ZenonT(30) DEF Inv, TypeInv
  <2>10. GainStep(p)
    <3> SUFFICES ASSUME NEW m \in Inums, m # k, Has(p, m)' PROVE Has(p, m)
      BY <2>2, <2>7, <2>8, ZenonT(30) DEF GainStep
    <3>1. 0 \notin Inums
      BY FileSysAssumption, Zenon
    <3> QED
      BY <1>1, <1>4, <2>5, <3>1, ZenonT(30) DEF Has
  <2>11. DropStep(p)
    BY <2>5, Zenon DEF DropStep
  <2>12. DiskStep(p)
    BY <2>2, <2>7, <2>8, ZenonT(30) DEF DiskStep
  <2>13. EntsStep(p)
    BY <2>2, <2>9, Zenon DEF EntsStep
  <2>14. DotStep(p)
    BY <1>1, <2>5, <2>6, <2>8, <2>9, ZenonT(30) DEF DotStep, HasDots
  <2>n. \A x \in Inums, n \in Names : ents[x][n] # k
    <3> SUFFICES ASSUME NEW x \in Inums, NEW n \in Names, ents[x][n] = k PROVE FALSE
      BY Zenon
    <3>1. <<x, n>> \in NamesOf(k, ents)
      BY Zenon DEF NamesOf
    <3>2. disk[k].nlink >= 1
      BY <2>2, <3>1, NamedLinked, Zenon
    <3> QED
      BY <2>3, <3>2
  <2>15. Parents'
    <3> SUFFICES ASSUME NEW m \in Inums, NEW x \in Inums, NEW n \in Names,
                        ents'[x][n] = m, disk'[m].type = "dir"
                 PROVE  ents'[m][".."] = x
      BY Zenon DEF Parents
    <3>1. NoEnts[n] = 0 /\ 0 \notin Inums
      BY FileSysAssumption, Zenon DEF NoEnts, Elems
    <3>2. x # k
      BY <2>9, <3>1, Zenon
    <3>3. ents[x][n] = m /\ m # k
      BY <2>9, <2>n, <3>2, Zenon
    <3>4. ents[m][".."] = x
      BY <2>8, <3>3, Zenon DEF LInv, Parents
    <3> QED
      BY <2>9, <3>3, <3>4, Zenon
  <2>16. LinkInv'
    <3> SUFFICES ASSUME NEW m \in Inums PROVE Covered(m)'
      BY Zenon DEF LinkInv
    <3>3. \A n \in Names : NoEnts[n] = 0 /\ ents[m][n] \in Inums \cup {0}
      BY DEF NoEnts, Elems, Inv, TypeInv, Entries
    <3>4. NamesOf(m, ents') \subseteq NamesOf(m, ents)
      <4>1. 0 \notin Inums
        BY FileSysAssumption, Zenon
      <4> QED
        BY <2>9, <3>3, <4>1, ZenonT(30) DEF NamesOf
    <3>5. Subdirs(m, disk', ents') \subseteq Subdirs(m, disk, ents)
      <4> SUFFICES ASSUME NEW n \in Names, ents'[m][n] # 0, disk'[ents'[m][n]].type = "dir"
                   PROVE  ents[m][n] # 0 /\ disk[ents[m][n]].type = "dir"
        BY Zenon DEF Subdirs
      <4>1. m # k
        BY <2>9, <3>3, Zenon
      <4>2. ents'[m][n] = ents[m][n] /\ ents[m][n] \in Inums \ {k}
        BY <2>9, <2>n, <3>3, <4>1, ZenonT(30)
      <4> QED
        BY <2>8, <4>2, Zenon
    <3>6. Pending(m)' \subseteq Pending(m)
      BY <1>0, <2>6, PendingFewer, ZenonT(30) DEF Sound
    <3>7. disk'[m].nlink = disk[m].nlink
      BY <2>3, <2>8, ZenonT(30)
    <3> QED
      BY <3>4, <3>5, <3>6, <3>7, SameCovered, ZenonT(30)
  <2>17. Own(p)'
    <3>1. disk'[t.dp].type = "dir" /\ ents'[t.dp][Head(t.rest)] = 0
      <4>1. s.dp # k /\ t.dp = s.dp /\ t.rest = s.rest
        BY <1>3, <2>2, <2>5
      <4>2. disk'[s.dp] = disk[s.dp] /\ ents'[s.dp] = ents[s.dp]
        BY <1>1, <2>8, <2>9, <4>1, Zenon
      <4>3. ents[s.dp][Head(s.rest)] = 0
        BY <1>2, Zenon DEF Entry
      <4> QED
        BY <1>3, <4>1, <4>2, <4>3, Zenon
    <3>2. ASSUME NEW q \in Procs \ {p}
          PROVE  /\ ~(cwd'[q] = t.ip /\ Where(st'[q]) # "chdir")
                 /\ fd'[q] # t.ip /\ st'[q].ip # t.ip /\ st'[q].dp # t.ip
                 /\ ~(st'[q].put = t.ip /\ st'[q].pc # "drop")
      <4>1. ~Has(q, k) /\ st'[q] = st[q] /\ cwd'[q] = cwd[q] /\ fd'[q] = fd[q]
        BY <1>0, <2>3, OthersSame, Zenon DEF Sound
      <4> QED
        BY <2>5, <4>1, Zenon DEF Has
    <3> QED
      BY <1>2, <1>3, <2>5, <2>8, <3>1, <3>2, OwnInit
  <2> QED
    BY <2>10, <2>11, <2>12, <2>13, <2>14, <2>15, <2>16, <2>17, ZenonT(30) DEF Effect
<1> QED
  BY <1>5, <1>6, ZenonT(30)

\* itrunc(), and the inode is free: it has no link, name or other pointer.
LEMMA EffectPutFree ==
  ASSUME Inv, LInv, NEW p \in Procs, PutFree(p)
  PROVE  Effect(p)
<1>0. Sound(p)
  BY SoundPutFree, Zenon
<1> PICK s : s = st[p]
  BY Zenon
<1> PICK t : t = st'[p]
  BY Zenon
<1>1. s \in Locals /\ Shape(s) /\ s.pc = "free" /\ Own(p)
  BY LocalFacts, Zenon DEF PutFree, At, LInv
<1>2. /\ s.put \in Inums /\ ref[s.put] = 1 /\ disk[s.put].nlink = 0 /\ disk[s.put].type # "free"
      /\ \A q \in Procs \ {p} : ~Has(q, s.put)
  BY <1>1, FreesOwn, Zenon
<1> PICK i \in Inums : i = s.put
  BY <1>2, Zenon
<1>3. ~(cwd[p] = i /\ Where(s) # "chdir") /\ fd[p] # i /\ s.ip # i /\ s.dp # i
  BY <1>2, Sole, ZenonT(30)
<1>4. /\ disk' = [disk EXCEPT ![i].type = "free"] /\ mem' = [mem EXCEPT ![i] = NoInode]
      /\ ents' = [ents EXCEPT ![i] = NoEnts] /\ UNCHANGED <<cwd, fd>>
      /\ t = [s EXCEPT !.pc = "drop"]
  BY Zenon DEF PutFree, Goto, Inv, TypeInv
<1>5. /\ t.pc = "drop" /\ t.ret = s.ret /\ t.ip = s.ip /\ t.dp = s.dp
      /\ t.put = s.put /\ t.call = s.call /\ t.new = s.new /\ t.rest = s.rest
  BY <1>1, <1>4, Zenon DEF Locals
<1>6. Where(t) = Where(s) /\ (Owes(t) <=> Owes(s))
  BY <1>1, <1>5, Zenon DEF Where, Owes
<1>7. /\ disk'[i].type = "free" /\ disk'[i].nlink = disk[i].nlink
      /\ \A m \in Inums \ {i} : disk'[m] = disk[m]
  BY <1>4 DEF Inv, TypeInv, InodeTypes, Dinode
<1>8. ents'[i] = NoEnts /\ \A m \in Inums \ {i} : ents'[m] = ents[m]
  BY <1>4, Zenon DEF Inv, TypeInv
<1>9. \A m : Has(p, m)' => Has(p, m)
  BY <1>1, <1>4, <1>5, <1>6, ZenonT(30) DEF Has
<1>10. GainStep(p)
  BY <1>9, Zenon DEF GainStep
<1>11. DropStep(p)
  BY <1>5, Zenon DEF DropStep
<1>12. DiskStep(p)
  <2>1. ~Has(p, i)'
    BY <1>3, <1>4, <1>5, <1>6 DEF Has
  <2> QED
    BY <1>1, <1>7, <2>1, ZenonT(30) DEF DiskStep
<1>13. EntsStep(p)
  <2>1. Has(p, i) /\ lock[i] = p
    BY <1>1, LocalFacts, Zenon DEF Has, Locks
  <2> QED
    BY <1>8, <2>1, Zenon DEF EntsStep
<1>14. DotStep(p)
  BY <1>5, <1>6, <1>7, <1>8, ZenonT(30) DEF DotStep, HasDots
<1>15. Parents'
  <2> SUFFICES ASSUME NEW m \in Inums, NEW x \in Inums, NEW n \in Names,
                      ents'[x][n] = m, disk'[m].type = "dir"
               PROVE  ents'[m][".."] = x
    BY Zenon DEF Parents
  <2>1. NoEnts[n] = 0 /\ 0 \notin Inums
    BY FileSysAssumption, Zenon DEF NoEnts, Elems
  <2>2. x # i /\ m # i
    BY <1>7, <1>8, <2>1
  <2>3. ents[m][".."] = x
    BY <1>7, <1>8, <2>2, Zenon DEF LInv, Parents
  <2> QED
    BY <1>8, <2>2, <2>3, Zenon
<1>16. LinkInv'
  <2> SUFFICES ASSUME NEW m \in Inums PROVE Covered(m)'
    BY Zenon DEF LinkInv
  <2>1. \A n \in Names : NoEnts[n] = 0 /\ ents[m][n] \in Inums \cup {0}
    BY DEF NoEnts, Elems, Inv, TypeInv, Entries
  <2>2. NamesOf(m, ents') \subseteq NamesOf(m, ents)
    <3>1. 0 \notin Inums
      BY FileSysAssumption, Zenon
    <3> QED
      BY <1>8, <2>1, <3>1 DEF NamesOf
  <2>3. Subdirs(m, disk', ents') \subseteq Subdirs(m, disk, ents)
    BY <1>7, <1>8, <2>1 DEF Subdirs
  <2>4. Pending(m)' \subseteq Pending(m)
    BY <1>0, <1>5, <1>6, PendingFewer, ZenonT(30) DEF Sound
  <2>5. disk'[m].nlink = disk[m].nlink
    BY <1>7, Zenon
  <2> QED
    BY <2>2, <2>3, <2>4, <2>5, SameCovered, ZenonT(30)
<1>17. Own(p)'
  <2>1. s.dp \in Inums \cup {0} /\ s.ip \in Inums \cup {0}
    BY <1>1, Zenon DEF Locals
  <2>2. s.dp # 0 => disk'[s.dp] = disk[s.dp] /\ ents'[s.dp] = ents[s.dp]
    BY <1>3, <1>7, <1>8, <2>1, ZenonT(30)
  <2>3. s.ip # 0 => disk'[s.ip] = disk[s.ip]
    BY <1>3, <1>7, <2>1, ZenonT(30)
  <2>4. /\ Where(s) \in {"parent", "init", "unlink", "linkfail", "unlinkbad"} => s.dp # 0
        /\ Where(s) = "init" => s.ip # 0
    BY <1>1, Zenon DEF Shape
  <2>5. \A q \in Procs \ {p} : \A m : Has(q, m)' <=> Has(q, m)
    BY <1>0, OthersSame, Zenon DEF Sound
  <2> QED
    BY <1>1, <1>5, <1>6, <2>2, <2>3, <2>4, <2>5 DEF Own
<1> QED
  BY <1>10, <1>11, <1>12, <1>13, <1>14, <1>15, <1>16, <1>17, ZenonT(30) DEF Effect
=============================================================================
