------------------------ MODULE FileSysTreeProofs ------------------------
(***************************************************************************)
(* Proofs about FileSys: the steps that write directories keep LInv, and   *)
(* with it names lead to allocated inodes and no call panics.              *)
(***************************************************************************)
EXTENDS FileSysLinkProofs

----------------------------------------------------------------------------
(* Steps that change directories.                                           *)

\* Directories e with the entry n of d set to v.
SetEntry(e, d, n, v) == [e EXCEPT ![d][n] = v]

\* The names after a change of the entry n of directory d to v.
EntryChanged(d, n, v) ==
  /\ \A k \in Inums : NamesOf(k, ents') \subseteq NamesOf(k, ents) \cup {<<d, n>>}
  /\ \A k \in Inums \ {v} : NamesOf(k, ents') \subseteq NamesOf(k, ents) \ {<<d, n>>}
  /\ \A k \in Inums \ {d} : ents'[k] = ents[k]
  /\ ents'[d][n] = v /\ \A m \in Elems \ {n} : ents'[d][m] = ents[d][m]
  /\ ents'[d]["."] = ents[d]["."] /\ ents'[d][".."] = ents[d][".."]

\* sys_link() and sys_unlink() change one entry.
LEMMA EntryChange ==
  ASSUME Inv, NEW d \in Inums, NEW n \in Names, NEW v \in Inums \cup {0},
         ents' = SetEntry(ents, d, n, v)
  PROVE  EntryChanged(d, n, v)
<1>1. ents \in [Inums -> [Elems -> Inums \cup {0}]] /\ n \in Elems
  BY Zenon DEF Inv, TypeInv, Entries, Elems
<1>2. \A k \in Inums \ {d} : ents'[k] = ents[k]
  BY <1>1, Zenon DEF SetEntry
<1>3. ents'[d][n] = v /\ \A m \in Elems \ {n} : ents'[d][m] = ents[d][m]
  BY <1>1, Zenon DEF SetEntry
<1>4. "." \in Elems \ {n} /\ ".." \in Elems \ {n}
  BY FileSysAssumption, Zenon DEF Elems
<1>5. \A x \in Inums \X Names : ents'[x[1]][x[2]] = IF x = <<d, n>> THEN v ELSE ents[x[1]][x[2]]
  <2> SUFFICES ASSUME NEW a \in Inums, NEW b \in Names
               PROVE  ents'[a][b] = IF <<a, b>> = <<d, n>> THEN v ELSE ents[a][b]
    OBVIOUS
  <2>1. b \in Elems
    BY Zenon DEF Elems
  <2> QED
    BY <1>2, <1>3, <2>1, Zenon
<1> QED
  BY <1>2, <1>3, <1>4, <1>5, ZenonT(30) DEF EntryChanged, NamesOf

\* sys_link() with the parent of the new name: the link is counted already.
LEMMA EffectDirlink ==
  ASSUME Inv, LInv, NEW p \in Procs, Dirlink(p), ~strayed'
  PROVE  Effect(p)
<1>0. Sound(p)
  BY SoundDirlink, Zenon
<1> PICK s : s = st[p]
  BY Zenon
<1> PICK t : t = st'[p]
  BY Zenon
<1> PICK j : j = Entry(s)
  BY Zenon
<1>1. /\ s \in Locals /\ Where(s) = "parent" /\ s.put = 0 /\ s.dp \in Inums /\ lock[s.dp] = None
      /\ s.ip \in Inums \cup {0} /\ s.ip # 0 /\ j \in Inums \cup {0} /\ s.call = "link"
  BY ParentFacts, Zenon DEF Dirlink
<1>n. ~Strays(s.dp, Head(s.rest))
  BY NotAstray, Zenon DEF Dirlink, Follow
<1>2. /\ disk[s.dp].type = "dir" /\ Has(p, s.dp)
      /\ j \in Inums => Has(p, j) \/ disk[j].nlink >= 1
      /\ j = 0 => Head(s.rest) \in Names
  BY <1>n, ParentEntry, Zenon DEF Dirlink
<1>3. UNCHANGED <<disk, cwd, fd>> /\ Where(s) \notin {"chdir", "init"} /\ Owes(s)
  BY <1>1, Zenon DEF Dirlink, Owes
<1>4. \A x : Goto(p, x) => t = x
  BY Zenon DEF Goto, Inv, TypeInv
<1>5. CASE j # 0
  <2>1. Cached(s.dp, {j}, Nothing) /\ t = Put(s, j, "linkfail") /\ UNCHANGED ents
    BY <1>4, <1>5, Zenon DEF Dirlink
  <2>2. /\ t.pc = "put" /\ t.put = j /\ t.rest = s.rest /\ t.ip = s.ip /\ t.dp = s.dp
        /\ t.ret = "linkfail" /\ t.call = s.call
    BY <1>1, <2>1, Zenon DEF Put, Locals
  <2>3. Where(t) = "linkfail"
    BY <2>2, Zenon DEF Where
  <2>4. /\ t.pc \notin {"free", "drop"} /\ Where(t) \notin {"init", "unlink"}
        /\ t.ip \in {s.ip, s.dp, j, 0} /\ t.dp \in {s.ip, s.dp, j, 0} /\ t.put \in {s.ip, s.dp, j, 0}
        /\ disk[t.dp].type = "dir"
    BY <1>2, <2>2, <2>3, Zenon
  <2>5. Quiet(p)
    BY <1>2, <1>3, <2>1, <2>2, <2>4, MoveQuiet, ZenonT(30)
  <2> QED
    BY <1>0, <2>5, QuietEffect, Zenon
<1>6. CASE j = 0
  <2> PICK d \in Inums : d = s.dp
    BY <1>1, Zenon
  <2> PICK i \in Inums : i = s.ip
    BY <1>1, Zenon
  <2> PICK n \in Names : n = Head(s.rest)
    BY <1>2, <1>6, Zenon
  <2>1. /\ Cached(d, {}, Nothing) /\ t = Put([s EXCEPT !.dp = 0], d, "linked")
        /\ ents' = [ents EXCEPT ![d][n] = i]
    BY <1>4, <1>6, Zenon DEF Dirlink
  <2>2. /\ t.pc = "put" /\ t.put = d /\ t.rest = s.rest /\ t.ip = s.ip /\ t.dp = 0
        /\ t.ret = "linked" /\ t.call = s.call
    BY <1>1, <2>1, Zenon DEF Put, Locals
  <2>3. Where(t) = "linked" /\ ~Owes(t)
    BY <2>2, Zenon DEF Where, Owes
  <2>5. GainStep(p)
    BY <1>2, <1>3, <2>2, GainsOne, ZenonT(30)
  <2>6. DropStep(p)
    BY <2>2, Zenon DEF DropStep
  <2>7. DiskStep(p)
    BY <1>3, Zenon DEF DiskStep
  <2>8. /\ NamesOf(i, ents') \subseteq NamesOf(i, ents) \cup {<<d, n>>}
        /\ \A k \in Inums \ {i} : NamesOf(k, ents') \subseteq NamesOf(k, ents)
        /\ \A k \in Inums \ {d} : ents'[k] = ents[k]
        /\ ents'[d][n] = i /\ \A m \in Elems \ {n} : ents'[d][m] = ents[d][m]
        /\ ents'[d]["."] = ents[d]["."] /\ ents'[d][".."] = ents[d][".."]
    <3>1. i \in Inums \cup {0} /\ ents' = SetEntry(ents, d, n, i)
      BY <2>1, Zenon DEF SetEntry
    <3>2. EntryChanged(d, n, i)
      BY <3>1, EntryChange, Zenon
    <3> QED
      BY <3>2, Zenon DEF EntryChanged
  <2>9. EntsStep(p)
    BY <1>1, <1>2, <2>8, ZenonT(30) DEF EntsStep
  <2>10. DotStep(p)
    BY <1>3, <2>8, ZenonT(30) DEF DotStep, HasDots
  <2>11. OwnAs(p, st'[p])
    BY <1>2, <2>2, <2>3, ZenonT(30) DEF OwnAs
  <2>d. disk[i].type # "dir"
    BY <1>1, <1>3, ZenonT(30) DEF LInv, Own
  <2>p. Parents'
    <3>1. \A k \in Inums : disk'[k].type = disk[k].type /\ ents'[k][".."] = ents[k][".."]
      BY <1>3, <2>8, ZenonT(30)
    <3>2. \A k \in Inums, m \in Names : \/ ents'[k][m] = ents[k][m]
                                        \/ disk[ents'[k][m]].type # "dir"
      BY <2>8, <2>d, ZenonT(30) DEF Elems
    <3> QED
      BY <3>1, <3>2, ParentsKept, Zenon DEF LInv
  <2>12. LinkInv'
    <3> SUFFICES ASSUME NEW k \in Inums PROVE Covered(k)'
      BY Zenon DEF LinkInv
    <3>2. Subdirs(k, disk', ents') \subseteq Subdirs(k, disk, ents)
      <4> SUFFICES ASSUME NEW m \in Names, ents'[k][m] # 0, disk[ents'[k][m]].type = "dir"
                   PROVE  ents[k][m] # 0 /\ disk[ents[k][m]].type = "dir"
        BY <1>3, Zenon DEF Subdirs
      <4>1. m \in Elems
        BY Zenon DEF Elems
      <4> QED
        BY <2>8, <2>d, <4>1
    <3>3. CASE k # i
      <4>1. Pending(k)' \subseteq Pending(k)
        BY <1>0, <2>3, PendingFewer, ZenonT(30) DEF Sound
      <4> QED
        BY <1>3, <2>8, <3>2, <3>3, <4>1, SameCovered, ZenonT(30)
    <3>4. CASE k = i
      <4>1. /\ IsFiniteSet(NamesOf(i, ents)) /\ IsFiniteSet(Subdirs(i, disk, ents))
            /\ IsFiniteSet(Pending(i)) /\ Cardinality(NamesOf(i, ents)) \in Nat
            /\ Cardinality(Subdirs(i, disk, ents)) \in Nat /\ Cardinality(Pending(i)) \in Nat
        BY LinkSets, Zenon
      <4>2. /\ Cardinality(NamesOf(i, ents')) \in Nat
            /\ Cardinality(NamesOf(i, ents')) <= Cardinality(NamesOf(i, ents)) + 1
        BY <2>8, <4>1, OneMore, ZenonT(30)
      <4>3. /\ Cardinality(Subdirs(i, disk', ents')) \in Nat
            /\ Cardinality(Subdirs(i, disk', ents')) <= Cardinality(Subdirs(i, disk, ents)) + 0
        BY <3>2, <3>4, <4>1, Fewer
      <4>4. /\ Cardinality(Pending(i)') \in Nat
            /\ Cardinality(Pending(i)') <= Cardinality(Pending(i)) + (-1)
        <5>1. Pending(i)' \subseteq Pending(i) \ {p} /\ p \in Pending(i)
          BY <1>0, <1>3, <2>3, PendingFewer DEF Pending, Sound
        <5>2. /\ Cardinality(Pending(i)') \in Nat
              /\ Cardinality(Pending(i)') <= Cardinality(Pending(i)) - 1
          BY <4>1, <5>1, OneLess, Zenon
        <5> QED
          BY <4>1, <5>2, Zenon
      <4>5. 0 \in Int /\ 1 \in Int /\ -1 \in Int /\ 1 + 0 + (-1) <= 0
        OBVIOUS
      <4>6. disk'[i].nlink = disk[i].nlink + 0
        BY <1>3, LinksNat DEF LInv
      <4>7. Covered(i)'
        BY <4>2, <4>3, <4>4, <4>5, <4>6, StaysCovered, Zenon
      <4> QED
        BY <3>4, <4>7, Zenon
    <3> QED
      BY <3>3, <3>4, Zenon
  <2> QED
    BY <2>5, <2>6, <2>7, <2>9, <2>10, <2>11, <2>p, <2>12, OwnNext, Zenon DEF Effect
<1> QED
  BY <1>5, <1>6, Zenon

\* sys_unlink(): the entry is erased, and its link is owed until the end.
LEMMA EffectUnlink ==
  ASSUME Inv, LInv, NEW p \in Procs, Unlink(p)
  PROVE  Effect(p)
<1>0. Sound(p)
  BY SoundUnlink, Zenon
<1> PICK s : s = st[p]
  BY Zenon
<1> PICK t : t = st'[p]
  BY Zenon
<1>1. s.pc = "unlink"
  BY Zenon DEF Unlink, At
<1>2. /\ s \in Locals /\ Where(s) = "unlink" /\ s.put = 0 /\ s.dp \in Inums /\ lock[s.dp] = p
      /\ s.ip \in Inums /\ Own(p)
  BY <1>1, DpLockFacts, ZenonT(30) DEF LInv
<1> PICK d \in Inums : d = s.dp
  BY <1>2, Zenon
<1> PICK i \in Inums : i = s.ip
  BY <1>2, Zenon
<1>3. /\ disk[d].type = "dir" /\ Head(s.rest) \in Names /\ ents[d][Head(s.rest)] = i
      /\ Has(p, d) /\ Has(p, i)
  BY <1>2, Zenon DEF Own, Has
<1> PICK n \in Names : n = Head(s.rest)
  BY <1>3, Zenon
<1>4. lock[i] = None /\ ~NoType(i) /\ i # d /\ p # None
  BY <1>1, <1>2, FileSysAssumption, ZenonT(30) DEF Unlink, Ilock, Wants
<1>5. Copy(i) = disk[i]
  BY <1>4, CopyIs, Zenon
<1>6. UNCHANGED <<cwd, fd>> /\ Where(s) \notin {"chdir", "init"}
  BY <1>2, Zenon DEF Unlink
<1>7. \A x : Goto(p, x) => t = x
  BY Zenon DEF Goto, Inv, TypeInv
<1>8. ASSUME Cached(i, {}, Nothing), t = Put([s EXCEPT !.ip = 0], i, "unlinkbad"),
             UNCHANGED <<disk, ents>>
      PROVE  Effect(p)
  <2>1. /\ t.pc = "put" /\ t.put = s.ip /\ t.rest = s.rest /\ t.ip = 0 /\ t.dp = s.dp
        /\ t.ret = "unlinkbad"
    BY <1>2, <1>8, ZenonT(30) DEF Put, Locals
  <2>2. Where(t) = "unlinkbad"
    BY <2>1, Zenon DEF Where
  <2>4. s.dp \in Inums => Has(p, s.dp) \/ disk[s.dp].nlink >= 1
    BY <1>3, Zenon
  <2>5. Quiet(p)
    BY <1>3, <1>6, <1>8, <2>1, <2>2, <2>4, MoveQuiet, ZenonT(30)
  <2> QED
    BY <1>0, <2>5, QuietEffect, ZenonT(30)
<1>9. ASSUME Cached(i, {}, IF disk[i].type = "dir" THEN Links(d, -1) ELSE Nothing),
             Iupdate(IF disk[i].type = "dir" THEN Links(d, -1) ELSE Nothing),
             ents' = [ents EXCEPT ![d][n] = 0], t = Put([s EXCEPT !.dp = 0], d, "unlinked")
      PROVE  Effect(p)
  <2>1. /\ t.pc = "put" /\ t.put = s.dp /\ t.rest = s.rest /\ t.ip = s.ip /\ t.dp = 0
        /\ t.ret = "unlinked" /\ t.call = s.call
    BY <1>2, <1>9, ZenonT(30) DEF Put, Locals
  <2>2. Where(t) = "unlinked" /\ Owes(t) /\ s.call # "link"
    BY <1>2, <2>1, LocalFacts, ZenonT(30) DEF Where, Owes, Shape
  <2>4. GainStep(p)
    BY <1>3, <1>6, <2>1, GainsOne, ZenonT(30)
  <2>5. DropStep(p)
    BY <2>1, Zenon DEF DropStep
  <2>6. /\ \A k \in Inums : disk'[k].type = disk[k].type
        /\ \A k \in Inums \ {d} : disk'[k] = disk[k]
        /\ disk'[d].nlink = IF disk[i].type = "dir" THEN disk[d].nlink + (-1) ELSE disk[d].nlink
    <3>1. disk \in [Inums -> Dinode]
      BY Zenon DEF Inv, TypeInv, InodeTypes
    <3>2. CASE disk[i].type = "dir"
      <4>1. Cached(i, {}, Links(d, -1)) /\ Iupdate(Links(d, -1)) /\ -1 \in Int
        BY <1>9, <3>2
      <4>2. ents' \in [Inums -> Entries]
        BY <1>0, Zenon DEF Sound, InodeStep
      <4>3. disk' = [disk EXCEPT ![d].nlink = @ + (-1)]
        BY <1>4, <4>1, <4>2, LinksSound
      <4> QED
        BY <3>1, <3>2, <4>3, ZenonT(30) DEF Dinode
    <3>3. CASE disk[i].type # "dir"
      <4>1. Iupdate(Nothing)
        BY <1>9, <3>3, Zenon
      <4>2. disk' = disk
        BY <3>1, <4>1, Zenon DEF Iupdate, Updated, Nothing
      <4> QED
        BY <3>3, <4>2, Zenon
    <3> QED
      BY <3>2, <3>3, Zenon
  <2>7. /\ \A k \in Inums : NamesOf(k, ents') \subseteq NamesOf(k, ents) \ {<<d, n>>}
        /\ \A k \in Inums \ {d} : ents'[k] = ents[k]
        /\ ents'[d][n] = 0 /\ \A m \in Elems \ {n} : ents'[d][m] = ents[d][m]
        /\ ents'[d]["."] = ents[d]["."] /\ ents'[d][".."] = ents[d][".."]
    <3>1. 0 \notin Inums
      BY FileSysAssumption, Zenon
    <3>2. 0 \in Inums \cup {0} /\ ents' = SetEntry(ents, d, n, 0)
      BY <1>9, Zenon DEF SetEntry
    <3>3. EntryChanged(d, n, 0)
      BY <3>2, EntryChange, Zenon
    <3> QED
      BY <3>1, <3>3, Zenon DEF EntryChanged
  <2>8. DiskStep(p)
    BY <1>3, <2>6, Zenon DEF DiskStep
  <2>9. EntsStep(p)
    BY <1>2, <1>3, <2>7, ZenonT(30) DEF EntsStep
  <2>10. DotStep(p)
    BY <1>6, <2>6, <2>7 DEF DotStep, HasDots
  <2>p. Parents'
    <3>1. \A k \in Inums : disk'[k].type = disk[k].type /\ ents'[k][".."] = ents[k][".."]
      BY <2>6, <2>7, ZenonT(30)
    <3>2. \A k \in Inums, m \in Names : ents'[k][m] = ents[k][m] \/ ents'[k][m] \notin Inums
      BY <2>7, FileSysAssumption, ZenonT(30) DEF Elems
    <3> QED
      BY <3>1, <3>2, ParentsKept, Zenon DEF LInv
  <2>11. OwnAs(p, st'[p])
    BY <1>3, <2>1, <2>2, Zenon DEF OwnAs
  <2>12. LinkInv'
    <3> SUFFICES ASSUME NEW k \in Inums PROVE Covered(k)'
      BY Zenon DEF LinkInv
    <3>1. \A m \in Names : ents[k][m] \in Inums \cup {0} /\ m \in Elems
      BY ZenonT(30) DEF Inv, TypeInv, Entries, Elems
    <3>2. /\ Subdirs(k, disk', ents') \subseteq Subdirs(k, disk, ents)
          /\ k = d => Subdirs(k, disk', ents') \subseteq Subdirs(k, disk, ents) \ {n}
      <4>1. ASSUME NEW m \in Names, ents'[k][m] # 0, disk'[ents'[k][m]].type = "dir"
            PROVE  ents[k][m] # 0 /\ disk[ents[k][m]].type = "dir" /\ ~(k = d /\ m = n)
        <5>1. ents'[k][m] = ents[k][m] /\ ~(k = d /\ m = n)
          BY <2>7, <3>1, <4>1
        <5> QED
          BY <2>6, <3>1, <4>1, <5>1, ZenonT(30)
      <4> QED
        BY <4>1, Zenon DEF Subdirs
    <3>3. /\ IsFiniteSet(NamesOf(k, ents)) /\ IsFiniteSet(Subdirs(k, disk, ents))
          /\ IsFiniteSet(Pending(k)) /\ Cardinality(NamesOf(k, ents)) \in Nat
          /\ Cardinality(Subdirs(k, disk, ents)) \in Nat /\ Cardinality(Pending(k)) \in Nat
      BY LinkSets, Zenon
    <3>4. CASE k \notin {i, d}
      <4>1. Pending(k)' \subseteq Pending(k)
        BY <1>0, <2>1, <3>4, PendingFewer, ZenonT(30) DEF Sound
      <4> QED
        BY <2>6, <2>7, <3>2, <3>4, <4>1, SameCovered, ZenonT(30)
    <3>5. CASE k = i
      <4>1. /\ Cardinality(NamesOf(k, ents')) \in Nat
            /\ Cardinality(NamesOf(k, ents')) <= Cardinality(NamesOf(k, ents)) + (-1)
        <5>1. <<d, n>> \in NamesOf(k, ents)
          BY <1>3, <3>5, ZenonT(30) DEF NamesOf
        <5>2. /\ Cardinality(NamesOf(k, ents')) \in Nat
              /\ Cardinality(NamesOf(k, ents')) <= Cardinality(NamesOf(k, ents)) - 1
          BY <2>7, <3>3, <5>1, OneLess, ZenonT(30)
        <5> QED
          BY <3>3, <5>2, ZenonT(30)
      <4>2. /\ Cardinality(Subdirs(k, disk', ents')) \in Nat
            /\ Cardinality(Subdirs(k, disk', ents')) <= Cardinality(Subdirs(k, disk, ents)) + 0
        BY <3>2, <3>3, Fewer
      <4>3. /\ Cardinality(Pending(k)') \in Nat
            /\ Cardinality(Pending(k)') <= Cardinality(Pending(k)) + 1
        <5>1. Pending(k)' \subseteq Pending(k) \cup {p}
          BY <1>0, PendingFewer, ZenonT(30) DEF Sound
        <5> QED
          BY <3>3, <5>1, OneMore, ZenonT(30)
      <4>4. 0 \in Int /\ 1 \in Int /\ -1 \in Int /\ (-1) + 0 + 1 <= 0
        OBVIOUS
      <4>5. disk'[k].nlink = disk[k].nlink + 0
        BY <1>4, <2>6, <3>5, LinksNat DEF LInv
      <4> QED
        BY <4>1, <4>2, <4>3, <4>4, <4>5, StaysCovered, Zenon
    <3>6. CASE k = d
      <4>1. /\ Cardinality(NamesOf(k, ents')) \in Nat
            /\ Cardinality(NamesOf(k, ents')) <= Cardinality(NamesOf(k, ents)) + 0
        BY <2>7, <3>3, Fewer
      <4>2. /\ Cardinality(Pending(k)') \in Nat
            /\ Cardinality(Pending(k)') <= Cardinality(Pending(k)) + 0
        <5>1. Pending(k)' \subseteq Pending(k)
          BY <1>0, <1>4, <2>1, <3>6, PendingFewer, ZenonT(30) DEF Sound
        <5> QED
          BY <3>3, <5>1, Fewer
      <4>3. CASE disk[i].type = "dir"
        <5>1. n \in Subdirs(k, disk, ents)
          BY <1>3, <3>6, <4>3, FileSysAssumption, ZenonT(30) DEF Subdirs
        <5>2. /\ Cardinality(Subdirs(k, disk', ents')) \in Nat
              /\ Cardinality(Subdirs(k, disk', ents')) <= Cardinality(Subdirs(k, disk, ents)) - 1
          BY <3>2, <3>3, <3>6, <5>1, OneLess, ZenonT(30)
        <5>3. Cardinality(Subdirs(k, disk', ents')) <= Cardinality(Subdirs(k, disk, ents)) + (-1)
          BY <3>3, <5>2, Zenon
        <5>4. 0 \in Int /\ -1 \in Int /\ 0 + (-1) + 0 <= -1
          OBVIOUS
        <5>5. disk'[k].nlink = disk[k].nlink + (-1)
          BY <2>6, <3>6, <4>3, ZenonT(30)
        <5> QED
          BY <4>1, <4>2, <5>2, <5>3, <5>4, <5>5, StaysCovered, Zenon
      <4>4. CASE disk[i].type # "dir"
        <5>1. Pending(k)' \subseteq Pending(k)
          BY <1>0, <1>4, <2>1, <3>6, PendingFewer, Zenon DEF Sound
        <5>2. disk'[k].nlink = disk[k].nlink
          BY <2>6, <3>6, <4>4, ZenonT(30)
        <5> QED
          BY <2>7, <3>2, <5>1, <5>2, SameCovered, ZenonT(30)
      <4> QED
        BY <4>3, <4>4, ZenonT(30)
    <3> QED
      BY <3>4, <3>5, <3>6, ZenonT(30)
  <2> QED
    BY <2>4, <2>5, <2>8, <2>9, <2>10, <2>p, <2>11, <2>12, OwnNext, ZenonT(30) DEF Effect
<1> QED
  BY <1>5, <1>7, <1>8, <1>9, ZenonT(30) DEF Unlink

\* What InitInode() writes, inode by inode and entry by entry.
LEMMA InitWrites ==
  ASSUME Inv, LInv, NEW p \in Procs, InitInode(p), NEW i \in Inums, i = st[p].ip,
         NEW d \in Inums, d = st[p].dp, NEW n \in Names, n = Head(st[p].rest)
  PROVE  /\ \A k \in Inums : disk'[k].type = disk[k].type
         /\ disk'[i].nlink = 1 /\ \A k \in Inums \ {i, d} : disk'[k] = disk[k]
         /\ disk'[d].nlink = IF st[p].call = "mkdir" THEN disk[d].nlink + 1 ELSE disk[d].nlink
         /\ ents'[d][n] = i /\ \A m \in Elems \ {n} : ents'[d][m] = ents[d][m]
         /\ \A k \in Inums \ {i, d} : ents'[k] = ents[k]
         /\ \A m \in Names : ents'[i][m] = 0
         /\ st[p].call = "mkdir" => ents'[i]["."] = i /\ ents'[i][".."] = d
<1> PICK s : s = st[p]
  BY Zenon
<1>1. s.pc = "init" /\ s.call \in Creates /\ i # d
  BY LocalFacts, Zenon DEF InitInode, At, Shape, Where
<1>2. /\ Iupdate(NewLinks(s))
      /\ ents' = [ents EXCEPT ![i] = IF s.call = "mkdir"
                                     THEN [NoEnts EXCEPT !["."] = i, ![".."] = d] ELSE NoEnts,
                              ![d][n] = i]
  BY Zenon DEF InitInode
<1>3. /\ Copy(i) = disk[i] /\ disk[i] \in Dinode
      /\ Copy(d) = disk[d] /\ disk[d] \in Dinode
  BY CopyIs, Zenon
<1>4. \A k \in Inums : disk'[k] = IF k \in DOMAIN NewLinks(s) THEN NewLinks(s)[k] ELSE disk[k]
  BY <1>2, Zenon DEF Iupdate, Updated
<1>5. disk'[i] = [disk[i] EXCEPT !.nlink = 1]
  BY <1>3, <1>4, Zenon DEF NewLinks
<1>6. disk'[d] = IF s.call = "mkdir" THEN [disk[d] EXCEPT !.nlink = disk[d].nlink + 1] ELSE disk[d]
  <2>1. CASE s.call = "mkdir"
    <3>1. NewLinks(s)[d] = [Copy(d) EXCEPT !.nlink = @ + 1] /\ d \in DOMAIN NewLinks(s)
      BY <1>1, <2>1, Zenon DEF NewLinks
    <3> QED
      BY <1>3, <1>4, <2>1, <3>1, ZenonT(30)
  <2>2. CASE s.call # "mkdir"
    BY <1>1, <1>4, <2>2, Zenon DEF NewLinks
  <2> QED
    BY <2>1, <2>2, Zenon
<1>7. \A k \in Inums \ {i, d} : disk'[k] = disk[k]
  BY <1>4, Zenon DEF NewLinks
<1>8. disk'[i].type = disk[i].type /\ disk'[i].nlink = 1
  BY <1>3, <1>5, Zenon DEF Dinode
<1>9. /\ disk'[d].type = disk[d].type
      /\ disk'[d].nlink = IF s.call = "mkdir" THEN disk[d].nlink + 1 ELSE disk[d].nlink
  BY <1>3, <1>6, Zenon DEF Dinode
<1>10. \A k \in Inums : disk'[k].type = disk[k].type
  BY <1>7, <1>8, <1>9, ZenonT(30)
<1> PICK dots : dots = IF s.call = "mkdir"
                       THEN [NoEnts EXCEPT !["."] = i, ![".."] = d] ELSE NoEnts
  BY Zenon
<1>11. dots \in [Elems -> Inums \cup {0}]
  BY Zenon DEF NoEnts
<1>12. (\A m \in Names : dots[m] = 0) /\ (s.call = "mkdir" => dots["."] = i /\ dots[".."] = d)
  BY FileSysAssumption, Zenon DEF NoEnts, Elems
<1>13. ents \in [Inums -> [Elems -> Inums \cup {0}]] /\ n \in Elems
  BY Zenon DEF Inv, TypeInv, Entries, Elems
<1>14. ents' = [[ents EXCEPT ![i] = dots] EXCEPT ![d][n] = i]
  BY <1>2, Zenon
<1>15. [ents EXCEPT ![i] = dots] \in [Inums -> [Elems -> Inums \cup {0}]]
  BY <1>11, <1>13, ZenonT(30)
<1>16. /\ ents'[i] = dots /\ \A k \in Inums \ {i, d} : ents'[k] = ents[k]
       /\ ents'[d][n] = i /\ \A m \in Elems \ {n} : ents'[d][m] = ents[d][m]
  BY <1>1, <1>13, <1>14, <1>15, ZenonT(30)
<1> QED
  BY <1>7, <1>8, <1>9, <1>10, <1>12, <1>16, ZenonT(30)

\* The names and subdirectories after InitInode(): the new name, in the parent.
LEMMA InitNames ==
  ASSUME Inv, LInv, NEW p \in Procs, InitInode(p), NEW i \in Inums, i = st[p].ip,
         NEW d \in Inums, d = st[p].dp, NEW n \in Names, n = Head(st[p].rest), i # d,
         NEW k \in Inums
  PROVE  /\ k # i => NamesOf(k, ents') \subseteq NamesOf(k, ents)
         /\ NamesOf(i, ents') \subseteq NamesOf(i, ents) \cup {<<d, n>>}
         /\ k # d => Subdirs(k, disk', ents') \subseteq Subdirs(k, disk, ents)
         /\ disk[i].type # "dir" => Subdirs(d, disk', ents') \subseteq Subdirs(d, disk, ents)
         /\ Subdirs(d, disk', ents') \subseteq Subdirs(d, disk, ents) \cup {n}
<1>0. /\ \A j \in Inums : disk'[j].type = disk[j].type
      /\ ents'[d][n] = i /\ \A m \in Elems \ {n} : ents'[d][m] = ents[d][m]
      /\ \A j \in Inums \ {i, d} : ents'[j] = ents[j]
      /\ \A m \in Names : ents'[i][m] = 0
  BY InitWrites
<1>1. 0 \notin Inums /\ Names \subseteq Elems
  BY FileSysAssumption, Zenon DEF Elems
<1>2. \A a \in Inums, b \in Names : ents[a][b] \in Inums \cup {0}
  BY DEF Inv, TypeInv, Entries, Elems
<1>3. ASSUME NEW a \in Inums, NEW b \in Names, ents'[a][b] # 0
      PROVE  (a = d /\ b = n /\ ents'[a][b] = i) \/ (~(a = d /\ b = n) /\ ents'[a][b] = ents[a][b])
  <2>1. CASE a = i
    BY <1>0, <1>3, <2>1, ZenonT(30)
  <2>2. CASE a = d
    BY <1>0, <1>1, <2>2, ZenonT(30)
  <2>3. CASE a \notin {i, d}
    BY <1>0, <2>3, Zenon
  <2> QED
    BY <2>1, <2>2, <2>3, Zenon
<1>4. ASSUME NEW j \in Inums, NEW a \in Inums, NEW b \in Names, <<a, b>> \in NamesOf(j, ents')
      PROVE  <<a, b>> \in NamesOf(j, ents) \/ (j = i /\ <<a, b>> = <<d, n>>)
  <2>1. ents'[a][b] = j
    BY <1>4, Zenon DEF NamesOf
  <2>2. ents'[a][b] # 0
    BY <1>1, <2>1, Zenon
  <2>3. ents[a][b] = j \/ (j = i /\ a = d /\ b = n)
    BY <1>3, <2>1, <2>2, ZenonT(30)
  <2> QED
    BY <2>3, Zenon DEF NamesOf
<1>5. ASSUME NEW j \in Inums, NEW x \in NamesOf(j, ents')
      PROVE  x \in NamesOf(j, ents) \/ (j = i /\ x = <<d, n>>)
  <2>1. PICK a \in Inums, b \in Names : x = <<a, b>>
    BY <1>5 DEF NamesOf
  <2> QED
    BY <1>4, <1>5, <2>1, ZenonT(30)
<1>6. ASSUME NEW j \in Inums, NEW b \in Names, b \in Subdirs(j, disk', ents')
      PROVE  b \in Subdirs(j, disk, ents) \/ (j = d /\ b = n /\ disk[i].type = "dir")
  <2>1. ents'[j][b] # 0 /\ disk'[ents'[j][b]].type = "dir"
    BY <1>6, Zenon DEF Subdirs
  <2>2. CASE j = d /\ b = n /\ ents'[j][b] = i
    BY <1>0, <2>1, <2>2, ZenonT(30)
  <2>3. CASE ents'[j][b] = ents[j][b]
    <3>1. ents[j][b] \in Inums
      BY <1>2, <2>1, <2>3, ZenonT(30)
    <3> QED
      BY <1>0, <2>1, <2>3, <3>1, ZenonT(30) DEF Subdirs
  <2> QED
    BY <1>3, <2>1, <2>2, <2>3, ZenonT(30)
<1>7. \A j \in Inums : Subdirs(j, disk', ents') \subseteq Names
  BY Zenon DEF Subdirs
<1>8. k # i => NamesOf(k, ents') \subseteq NamesOf(k, ents)
  BY <1>5, Zenon
<1>9. NamesOf(i, ents') \subseteq NamesOf(i, ents) \cup {<<d, n>>}
  BY <1>5, Zenon
<1>10. k # d => Subdirs(k, disk', ents') \subseteq Subdirs(k, disk, ents)
  BY <1>6, <1>7, ZenonT(30)
<1>11. disk[i].type # "dir" => Subdirs(d, disk', ents') \subseteq Subdirs(d, disk, ents)
  BY <1>6, <1>7, ZenonT(30)
<1>12. Subdirs(d, disk', ents') \subseteq Subdirs(d, disk, ents) \cup {n}
  BY <1>6, <1>7, ZenonT(30)
<1> QED
  BY <1>8, <1>9, <1>10, <1>11, <1>12, ZenonT(30)

\* create() of a new name: one link for its one name, one for "..".
LEMMA EffectInitInode ==
  ASSUME Inv, LInv, NEW p \in Procs, InitInode(p)
  PROVE  Effect(p)
<1>0. Sound(p)
  BY SoundInitInode, Zenon
<1> PICK s : s = st[p]
  BY Zenon
<1> PICK t : t = st'[p]
  BY Zenon
<1>1. s.pc = "init"
  BY Zenon DEF InitInode, At
<1>2. /\ s \in Locals /\ Where(s) = "init" /\ s.put = 0 /\ s.dp \in Inums /\ lock[s.dp] = p
      /\ s.ip \in Inums /\ Own(p)
  BY <1>1, DpLockFacts, Zenon DEF LInv
<1> PICK d \in Inums : d = s.dp
  BY <1>2, Zenon
<1> PICK i \in Inums : i = s.ip
  BY <1>2, Zenon
<1>3. /\ disk[d].type = "dir" /\ Head(s.rest) \in Names /\ ents[d][Head(s.rest)] = 0
      /\ disk[i].type = NewType(s.call) /\ disk[i].nlink = 0
      /\ Has(p, d) /\ Has(p, i)
  BY <1>2, Zenon DEF Own, Has
<1> PICK n \in Names : n = Head(s.rest)
  BY <1>3, Zenon
<1>4. lock[i] = None /\ i # d /\ s.call \in Creates
  BY <1>1, <1>2, LocalFacts, ZenonT(30) DEF InitInode, Ilock, Wants, Shape
<1>5. /\ Cached(i, {}, NewLinks(s)) /\ Iupdate(NewLinks(s)) /\ UNCHANGED <<cwd, fd>>
      /\ t = Put([s EXCEPT !.dp = 0], d, "created")
  BY Zenon DEF InitInode, Goto, Inv, TypeInv
<1>6. /\ t.pc = "put" /\ t.put = d /\ t.rest = s.rest /\ t.ip = s.ip /\ t.dp = 0
      /\ t.ret = "created" /\ t.call = s.call
  BY <1>2, <1>5, ZenonT(30) DEF Put, Locals
<1>7. Where(t) = "created" /\ ~Owes(t) /\ s.call # "link"
  BY <1>4, <1>6, Zenon DEF Where, Owes, Creates
<1>8. disk[i].type = "dir" <=> s.call = "mkdir"
  BY <1>3, <1>4, ZenonT(30) DEF NewType, Creates
<1>10. GainStep(p)
  BY <1>2, <1>3, <1>5, <1>6, GainsOne, ZenonT(30)
<1>11. DropStep(p)
  BY <1>6, Zenon DEF DropStep
<1>12. /\ \A k \in Inums : disk'[k].type = disk[k].type
       /\ disk'[i].nlink = 1 /\ \A k \in Inums \ {i, d} : disk'[k] = disk[k]
       /\ disk'[d].nlink = IF s.call = "mkdir" THEN disk[d].nlink + 1 ELSE disk[d].nlink
       /\ \A m \in Elems \ {n} : ents'[d][m] = ents[d][m]
       /\ \A k \in Inums \ {i, d} : ents'[k] = ents[k]
       /\ s.call = "mkdir" => ents'[i]["."] = i /\ ents'[i][".."] = d
  BY InitWrites
<1>13. DiskStep(p)
  BY <1>3, <1>12, Zenon DEF DiskStep
<1>14. EntsStep(p)
  BY <1>2, <1>3, <1>4, <1>12, ZenonT(30) DEF EntsStep
<1>d. \A k \in Inums \ {i} : ents'[k]["."] = ents[k]["."] /\ ents'[k][".."] = ents[k][".."]
  <2>1. "." \in Elems \ {n} /\ ".." \in Elems \ {n}
    BY FileSysAssumption, Zenon DEF Elems
  <2>2. ents'[d]["."] = ents[d]["."] /\ ents'[d][".."] = ents[d][".."]
    BY <1>12, <2>1, Zenon
  <2>3. \A k \in Inums \ {i, d} : ents'[k] = ents[k]
    BY <1>12, Zenon
  <2> QED
    BY <2>2, <2>3, Zenon
<1>15. DotStep(p)
  <2> SUFFICES ASSUME NEW k \in Inums, disk'[k].type = "dir", ~HasDots(k)'
               PROVE  /\ disk[k].type = "dir" /\ ~HasDots(k)
                      /\ ~(Where(st[p]) = "init" /\ st[p].ip = k)
    BY Zenon DEF DotStep
  <2>1. 0 \notin Inums
    BY FileSysAssumption, Zenon
  <2>2. k # i
    <3> SUFFICES ASSUME k = i PROVE FALSE
      BY Zenon
    <3>1. s.call = "mkdir"
      BY <1>8, <1>12, Zenon
    <3>2. ents'[i]["."] = i /\ ents'[i][".."] = d /\ d # 0
      BY <1>12, <2>1, <3>1, Zenon
    <3> QED
      BY <3>2, Zenon DEF HasDots
  <2> QED
    BY <1>d, <1>12, <2>2, ZenonT(30) DEF HasDots
<1>p. Parents'
  <2> SUFFICES ASSUME NEW k \in Inums, NEW a \in Inums, NEW b \in Names,
                      ents'[a][b] = k, disk'[k].type = "dir"
               PROVE  ents'[k][".."] = a
    BY Zenon DEF Parents
  <2>1. <<a, b>> \in NamesOf(k, ents')
    BY Zenon DEF NamesOf
  <2>2. CASE k # i
    <3>1. <<a, b>> \in NamesOf(k, ents)
      BY <1>4, <2>1, <2>2, InitNames
    <3>2. ents[a][b] = k /\ disk[k].type = "dir"
      BY <1>12, <3>1, Zenon DEF NamesOf
    <3>3. ents[k][".."] = a
      BY <3>2, Zenon DEF LInv, Parents
    <3> QED
      BY <1>d, <2>2, <3>3, Zenon
  <2>3. CASE k = i
    <3>1. NamesOf(i, ents) = {}
      BY <1>3, NamedLinked
    <3>2. NamesOf(i, ents') \subseteq NamesOf(i, ents) \cup {<<d, n>>}
      BY <1>4, InitNames
    <3>3. <<a, b>> = <<d, n>>
      BY <2>1, <2>3, <3>1, <3>2, Zenon
    <3>4. disk[i].type = "dir"
      BY <1>12, <2>3, Zenon
    <3> QED
      BY <1>8, <1>12, <2>3, <3>3, <3>4
  <2> QED
    BY <2>2, <2>3, Zenon
<1>16. OwnAs(p, st'[p])
  BY <1>3, <1>6, <1>7, ZenonT(30) DEF OwnAs
<1>17. LinkInv'
  <2> SUFFICES ASSUME NEW k \in Inums PROVE Covered(k)'
    BY Zenon DEF LinkInv
  <2>1. /\ k # i => NamesOf(k, ents') \subseteq NamesOf(k, ents)
        /\ NamesOf(i, ents') \subseteq NamesOf(i, ents) \cup {<<d, n>>}
        /\ k # d => Subdirs(k, disk', ents') \subseteq Subdirs(k, disk, ents)
        /\ disk[i].type # "dir" => Subdirs(d, disk', ents') \subseteq Subdirs(d, disk, ents)
        /\ Subdirs(d, disk', ents') \subseteq Subdirs(d, disk, ents) \cup {n}
    BY <1>4, InitNames
  <2>2. Pending(k)' \subseteq Pending(k)
    BY <1>0, <1>7, PendingFewer, Zenon DEF Sound
  <2>3. /\ IsFiniteSet(NamesOf(k, ents)) /\ IsFiniteSet(Subdirs(k, disk, ents))
        /\ IsFiniteSet(Pending(k)) /\ Cardinality(NamesOf(k, ents)) \in Nat
        /\ Cardinality(Subdirs(k, disk, ents)) \in Nat /\ Cardinality(Pending(k)) \in Nat
    BY LinkSets, Zenon
  <2>4. Cardinality(Pending(k)') \in Nat /\ Cardinality(Pending(k)') <= Cardinality(Pending(k)) + 0
    BY <2>2, <2>3, Fewer
  <2>5. 0 \in Int /\ 1 \in Int /\ 1 + 0 + 0 <= 1 /\ 0 + 1 + 0 <= 1
    OBVIOUS
  <2>6. CASE k = i
    <3>1. NamesOf(k, ents') \subseteq NamesOf(k, ents) \cup {<<d, n>>}
      BY <2>1, <2>6, Zenon
    <3>2. /\ Cardinality(NamesOf(k, ents')) \in Nat
          /\ Cardinality(NamesOf(k, ents')) <= Cardinality(NamesOf(k, ents)) + 1
      BY <2>3, <3>1, OneMore, ZenonT(30)
    <3>3. Subdirs(k, disk', ents') \subseteq Subdirs(k, disk, ents)
      BY <1>4, <2>1, <2>6, ZenonT(30)
    <3>4. /\ Cardinality(Subdirs(k, disk', ents')) \in Nat
          /\ Cardinality(Subdirs(k, disk', ents')) <= Cardinality(Subdirs(k, disk, ents)) + 0
      BY <2>3, <3>3, Fewer
    <3>5. disk'[k].nlink = disk[k].nlink + 1
      BY <1>3, <1>12, <2>6
    <3> QED
      BY <2>4, <2>5, <3>2, <3>4, <3>5, StaysCovered, Zenon
  <2>7. CASE k = d /\ s.call = "mkdir"
    <3>1. NamesOf(k, ents') \subseteq NamesOf(k, ents)
      BY <1>4, <2>1, <2>7, ZenonT(30)
    <3>2. /\ Cardinality(NamesOf(k, ents')) \in Nat
          /\ Cardinality(NamesOf(k, ents')) <= Cardinality(NamesOf(k, ents)) + 0
      BY <2>3, <3>1, Fewer
    <3>3. Subdirs(k, disk', ents') \subseteq Subdirs(k, disk, ents) \cup {n}
      BY <2>1, <2>7, Zenon
    <3>4. /\ Cardinality(Subdirs(k, disk', ents')) \in Nat
          /\ Cardinality(Subdirs(k, disk', ents')) <= Cardinality(Subdirs(k, disk, ents)) + 1
      BY <2>3, <3>3, OneMore, ZenonT(30)
    <3>5. disk'[k].nlink = disk[k].nlink + 1
      BY <1>12, <2>7, ZenonT(30)
    <3> QED
      BY <2>4, <2>5, <3>2, <3>4, <3>5, StaysCovered, Zenon
  <2>8. CASE k # i /\ ~(k = d /\ s.call = "mkdir")
    <3>1. NamesOf(k, ents') \subseteq NamesOf(k, ents)
      BY <2>1, <2>8, Zenon
    <3>2. Subdirs(k, disk', ents') \subseteq Subdirs(k, disk, ents)
      BY <1>8, <2>1, <2>8, ZenonT(30)
    <3>3. disk'[k].nlink = disk[k].nlink
      BY <1>12, <2>8, ZenonT(30)
    <3> QED
      BY <2>2, <3>1, <3>2, <3>3, SameCovered, ZenonT(30)
  <2> QED
    BY <2>6, <2>7, <2>8, ZenonT(30)
<1> QED
  BY <1>10, <1>11, <1>13, <1>14, <1>15, <1>p, <1>16, <1>17, OwnNext, Zenon DEF Effect

----------------------------------------------------------------------------
(* The theorems.                                                            *)

\* Every step that does not stray keeps the count of the links.
LEMMA NextLInv ==
  ASSUME Inv, LInv, [Next]_vars, ~strayed'
  PROVE  LInv'
<1>1. CASE UNCHANGED vars
  <2>1. UNCHANGED <<disk, ents, ref, mem, cwd, fd, st>>
    BY <1>1, Zenon DEF vars
  <2>2. FreeInv'
    BY <2>1, Zenon DEF LInv, FreeInv, Has
  <2>3. LinkInv'
    BY <2>1, Zenon DEF LInv, LinkInv, Covered, Pending, NamesOf, Subdirs
  <2>4. ASSUME NEW p \in Procs PROVE Own(p)'
    BY <2>1, ZenonT(30) DEF LInv, Own, Has
  <2>5. Dots' /\ Parents'
    BY <2>1, Zenon DEF LInv, Dots, HasDots, Parents
  <2> QED
    BY <2>2, <2>3, <2>4, <2>5, ZenonT(30) DEF LInv
<1>2. ASSUME NEW p \in Procs, Call(p) \/ Close(p) \/ Step(p) PROVE LInv'
  <2>1. Sound(p)
    BY <1>2, NextSound, ZenonT(30)
  <2>2. Effect(p)
    <3>1. CASE Call(p)
      BY <2>1, <3>1, QuietCall, QuietEffect, ZenonT(30)
    <3>2. CASE Close(p)
      BY <2>1, <3>2, QuietClose, QuietEffect, ZenonT(30)
    <3>3. CASE PutLock(p)
      BY <2>1, <3>3, QuietPutLock, QuietEffect, ZenonT(30)
    <3>4. CASE PutFree(p)
      BY <3>4, EffectPutFree, ZenonT(30)
    <3>5. CASE PutDrop(p)
      BY <2>1, <3>5, QuietPutDrop, QuietEffect, Zenon
    <3>6. CASE WalkNew(p)
      BY <2>1, <3>6, QuietWalkNew, QuietEffect, Zenon
    <3>7. CASE WalkStep(p)
      BY <2>1, <3>7, QuietWalkStep, QuietEffect, Zenon
    <3>8. CASE Found(p)
      BY <3>8, EffectFound, Zenon
    <3>9. CASE Chdir(p)
      BY <2>1, <3>9, QuietChdir, QuietEffect, Zenon
    <3>10. CASE ParentExists(p)
      BY <2>1, <3>10, QuietParentExists, QuietEffect, Zenon
    <3>11. CASE Exists(p)
      BY <2>1, <3>11, QuietExists, QuietEffect, Zenon
    <3>12. CASE Ialloc(p)
      BY <3>12, EffectIalloc, Zenon
    <3>13. CASE InitInode(p)
      BY <3>13, EffectInitInode, Zenon
    <3>14. CASE Created(p)
      BY <2>1, <3>14, QuietCreated, QuietEffect, Zenon
    <3>15. CASE Dirlink(p)
      BY <3>15, EffectDirlink, Zenon
    <3>16. CASE Linked(p)
      BY <2>1, <3>16, QuietLinked, QuietEffect, Zenon
    <3>17. CASE LinkBad(p)
      BY <3>17, EffectLinkBad, Zenon
    <3>18. CASE ParentUnlink(p)
      BY <2>1, <3>18, QuietParentUnlink, QuietEffect, Zenon
    <3>19. CASE Unlink(p)
      BY <3>19, EffectUnlink, Zenon
    <3>20. CASE Unlinked(p)
      BY <3>20, EffectUnlinked, Zenon
    <3>21. CASE IunlockputDp(p)
      BY <2>1, <3>21, QuietIunlockputDp, QuietEffect, Zenon
    <3>22. CASE Panic(p)
      BY <2>1, <3>22, QuietPanic, QuietEffect, Zenon
    <3> QED
      BY <1>2, <3>1, <3>2, <3>3, <3>4, <3>5, <3>6, <3>7, <3>8, <3>9, <3>10, <3>11,
         <3>12, <3>13, <3>14, <3>15, <3>16, <3>17, <3>18, <3>19, <3>20, <3>21, <3>22,
         ZenonT(30) DEF Step
  <2> QED
    BY <2>1, <2>2, EffectInv, ZenonT(30)
<1> QED
  BY <1>1, <1>2, Zenon DEF Next

\* The disk that mkfs or an earlier boot leaves has its links counted.
LEMMA InitLInv ==
  ASSUME Init
  PROVE  LInv
<1>0. ROOTINO \in Inums /\ 0 \notin Inums
  BY FileSysAssumption, Zenon
<1>1. PICK tr \in Trees : disk = DiskOf(tr) /\ ents = EntsOf(tr)
  BY Zenon DEF Init
<1>2. Consistent(disk, ents)
  BY <1>1, FileSysAssumption, Zenon
<1>3. \A p \in Procs : /\ cwd[p] = ROOTINO /\ fd[p] = 0 /\ st[p] = Idle
                       /\ st[p].ip = 0 /\ st[p].dp = 0 /\ st[p].put = 0 /\ st[p].pc = "user"
                       /\ st[p].rest = <<>> /\ st[p].call = None
  BY Zenon DEF Init, Idle
<1>4. \A p \in Procs : Where(st[p]) = "user" /\ ~Owes(st[p])
  BY <1>3, Zenon DEF Where, Owes
<1>5. LinkInv
  <2> SUFFICES ASSUME NEW i \in Inums PROVE Covered(i)
    BY Zenon DEF LinkInv
  <2>1. Pending(i) = {}
    BY <1>4, Zenon DEF Pending
  <2>2. Cardinality(Pending(i)) = 0
    BY <2>1, FS_EmptySet, ZenonT(30)
  <2>3. disk[i].nlink >= Cardinality(NamesOf(i, ents)) + Cardinality(Subdirs(i, disk, ents))
                           + (IF i = ROOTINO THEN 1 ELSE 0)
    BY <1>2, Zenon DEF Consistent
  <2>4. (IF i = ROOTINO THEN 1 ELSE 0) = One(ROOTINO, i)
    BY Zenon DEF One
  <2>5. Cardinality(NamesOf(i, ents)) \in Nat /\ Cardinality(Subdirs(i, disk, ents)) \in Nat
    BY CountsNat, Zenon
  <2>6. disk[i].nlink \in Int
    BY <1>2, Zenon DEF Consistent, Dinode
  <2>7. One(ROOTINO, i) \in Int
    BY OneFacts, Zenon
  <2>8. disk[i].nlink >= Cardinality(NamesOf(i, ents)) + Cardinality(Subdirs(i, disk, ents))
                           + One(ROOTINO, i)
    BY <2>3, <2>4, ZenonT(30)
  <2> QED
    BY <2>2, <2>5, <2>6, <2>7, <2>8 DEF Covered
<1>6. FreeInv
  <2> SUFFICES ASSUME NEW i \in Inums, disk[i].type = "free"
               PROVE  disk[i].nlink = 0 /\ \A p \in Procs : ~Has(p, i)
    BY Zenon DEF FreeInv
  <2>1. disk[i].nlink = 0
    BY <1>2, Zenon DEF Consistent
  <2>2. i # ROOTINO
    <3> SUFFICES ASSUME i = ROOTINO PROVE FALSE
      BY Zenon
    <3>1. Covered(i)
      BY <1>5, Zenon DEF LinkInv
    <3>2. 0 >= Cardinality(NamesOf(i, ents)) + Cardinality(Subdirs(i, disk, ents))
                 + Cardinality(Pending(i)) + 1
      BY <2>1, <3>1, Zenon DEF Covered, One
    <3>3. /\ Cardinality(NamesOf(i, ents)) \in Nat /\ Cardinality(Subdirs(i, disk, ents)) \in Nat
          /\ Cardinality(Pending(i)) \in Nat
      BY CountsNat, Zenon
    <3> QED
      BY <3>2, <3>3
  <2> QED
    BY <1>0, <1>3, <2>1, <2>2 DEF Has
<1>7. ASSUME NEW p \in Procs PROVE Own(p)
  <2> QED
    BY <1>3, <1>4, ZenonT(30) DEF Own
<1>8. Dots
  BY <1>2, Zenon DEF Consistent, Dots, HasDots
<1>9. Parents
  <2> SUFFICES ASSUME NEW i \in Inums, NEW d \in Inums, NEW n \in Names,
                      ents[d][n] = i, disk[i].type = "dir"
               PROVE  ents[i][".."] = d
    BY Zenon DEF Parents
  <2>1. <<d, n>> \in NamesOf(i, ents)
    BY Zenon DEF NamesOf
  <2>2. ents[i][".."] = <<d, n>>[1]
    BY <1>2, <2>1, Zenon DEF Consistent
  <2> QED
    BY <2>2
<1> QED
  BY <1>5, <1>6, <1>7, <1>8, <1>9, ZenonT(30) DEF LInv

\* Until somebody strays, LInv is inductive with Inv.
THEOREM LinkInvariant == Spec => []LinksOK
<1>1. Init => LinksOK
  BY InitLInv, Zenon DEF LinksOK
<1>2. Inv /\ LinksOK /\ [Next]_vars => LinksOK'
  <2> SUFFICES ASSUME Inv, LinksOK, [Next]_vars, ~strayed' PROVE LInv'
    BY Zenon DEF LinksOK
  <2>1. ~strayed
    <3>1. CASE Next
      BY <3>1, NextSound, Zenon DEF Next, Sound, RestStep
    <3>2. CASE UNCHANGED vars
      BY <3>2, Zenon DEF vars
    <3> QED
      BY <3>1, <3>2, Zenon
  <2> QED
    BY <2>1, NextLInv, Zenon DEF LinksOK
<1> QED
  BY <1>1, <1>2, InodeInvariant, PTL DEF Spec

\* Names lead to allocated inodes that have a link for each (sysfile.c: create,
\* sys_link, sys_unlink), until somebody strays.
THEOREM LinksCounted == Spec => []LinksCover
<1>1. Inv /\ LinksOK => LinksCover
  <2> SUFFICES ASSUME Inv, LInv, NEW i \in Inums
               PROVE  /\ NamesOf(i, ents) # {} => disk[i].type # "free"
                      /\ disk[i].nlink >= Cardinality(NamesOf(i, ents))
                                            + Cardinality(Subdirs(i, disk, ents))
    BY Zenon DEF LinksCover, LinksOK
  <2>1. /\ disk[i].nlink \in Nat /\ Cardinality(Pending(i)) \in Nat
        /\ Cardinality(NamesOf(i, ents)) \in Nat /\ Cardinality(Subdirs(i, disk, ents)) \in Nat
    BY LinksNat, Zenon DEF LInv
  <2>2. disk[i].nlink >= Cardinality(NamesOf(i, ents)) + Cardinality(Subdirs(i, disk, ents))
                           + Cardinality(Pending(i)) + One(ROOTINO, i)
    BY Zenon DEF LInv, LinkInv, Covered
  <2>3. One(ROOTINO, i) \in 0 .. 1
    BY DEF One
  <2>4. ASSUME NamesOf(i, ents) # {} PROVE disk[i].type # "free"
    <3>1. disk[i].nlink >= 1
      BY <2>4, NamedLinked, Zenon
    <3> QED
      BY <3>1 DEF LInv, FreeInv
  <2> QED
    BY <2>1, <2>2, <2>3, <2>4
<1> QED
  BY <1>1, InodeInvariant, LinkInvariant, PTL

\* ilock(), dirlookup() and sys_unlink() do not panic until somebody strays.
THEOREM NoInodePanic == Spec => []NoPanic
<1>1. Inv /\ LinksOK => NoPanic
  <2> SUFFICES ASSUME Inv, LInv, NEW p \in Procs, Wants(p) # 0, st[p].pc # "put"
               PROVE  /\ ~NoType(Wants(p))
                      /\ ~(st[p].pc = "unlink" /\ Copy(Wants(p)).nlink < 1)
                      /\ st[p].pc = "parent" => Copy(Wants(p)).type = "dir"
    BY Zenon DEF NoPanic, Doomed, LinksOK
  <2>1. st[p] \in Locals /\ Shape(st[p]) /\ Own(p) /\ 0 \notin Inums
    BY LocalFacts, FileSysAssumption, Zenon DEF LInv
  <2>2. \/ st[p].pc \in {"walk", "parent"} /\ Wants(p) = st[p].dp
        \/ st[p].pc \in {"found", "exists", "init", "unlink", "bad"} /\ Wants(p) = st[p].ip
    BY Zenon DEF Wants
  <2>3. Wants(p) \in Inums
    BY <2>1, <2>2, Zenon DEF Locals
  <2> PICK i \in Inums : i = Wants(p)
    BY <2>3, Zenon
  <2>4. Has(p, i)
    BY <2>2, Zenon DEF Has
  <2>5. disk[i].type # "free"
    BY <2>4, Zenon DEF LInv, FreeInv
  <2>6. Copy(i) = disk[i] /\ ~NoType(i)
    BY <2>5, CopyIs, Zenon DEF NoType
  <2>7. ASSUME st[p].pc = "unlink" PROVE disk[i].nlink >= 1
    <3>1. Where(st[p]) = "unlink" /\ i = st[p].ip /\ st[p].dp \in Inums
      BY <2>1, <2>2, <2>7, ZenonT(30) DEF Where, Shape, Locals
    <3>2. Head(st[p].rest) \in Names /\ ents[st[p].dp][Head(st[p].rest)] = i
      BY <2>1, <3>1, ZenonT(30) DEF Own
    <3>3. <<st[p].dp, Head(st[p].rest)>> \in NamesOf(i, ents)
      BY <3>1, <3>2, ZenonT(30) DEF NamesOf
    <3> QED
      BY <3>3, NamedLinked, Zenon
  <2>8. ASSUME st[p].pc = "parent" PROVE disk[i].type = "dir"
    <3>1. Where(st[p]) = "parent" /\ i = st[p].dp
      BY <2>2, <2>8, Zenon DEF Where
    <3> QED
      BY <2>1, <3>1, Zenon DEF Own
  <2>9. ~(st[p].pc = "unlink" /\ Copy(i).nlink < 1)
    <3>1. disk[i].nlink \in Nat
      BY LinksNat, Zenon DEF LInv
    <3> QED
      BY <2>6, <2>7, <3>1
  <2> QED
    BY <2>6, <2>8, <2>9, Zenon
<1> QED
  BY <1>1, InodeInvariant, LinkInvariant, PTL
=============================================================================
