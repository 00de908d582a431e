------------------------------ MODULE FileSys ------------------------------
(***************************************************************************)
(* Inodes, directories, path names (fs.c) and the system calls on them     *)
(* (sysfile.c): open, creat, mkdir, mknod, link, unlink, chdir and close,  *)
(* by processes that meet at the sleep locks of the inodes.                *)
(*                                                                         *)
(* A step of a call is what it does under the locks it holds, up to the    *)
(* next lock it may have to wait for.  iput() is cut finer: its look at    *)
(* the reference count, the release of the inode on disk and the decrement *)
(* are separate steps.  A call runs in one transaction of the log, so the  *)
(* disk is shown as the transaction sees it.  The inode cache is indexed   *)
(* by inode number and has room for every inode; a directory's content is  *)
(* the function from names to inode numbers that dirlookup() computes.     *)
(***************************************************************************)
EXTENDS Integers, Sequences, FiniteSets, FiniteSetsExt

CONSTANTS
  Procs,
  Inums,      \* inode numbers
  Names,      \* file names other than "." and ".."
  Paths,      \* [abs, elems]: the paths that calls are made with
  LinkPaths,  \* the paths that link() is given for the new name
  Trees,      \* what may be on the disk at first: inum -> [type, nlink, ents]
  MaxCalls    \* bound: the system calls of a behaviour

ROOTINO == 1
None == "none"
Elems == Names \cup {".", ".."}
Creates == {"creat", "mkdir", "mknod"}
Calls == {"open", "openw", "chdir", "link", "unlink"} \cup Creates

\* What the disk says of an inode, and what a directory says of names.
Dinode == [type : {"free", "file", "dir", "dev"}, nlink : Int]
Entries == [Elems -> Inums \cup {0}]

\* The names of inode i in directories e, and the directories among the names
\* in directory i.
NamesOf(i, e) == {x \in Inums \X Names : e[x[1]][x[2]] = i}
Subdirs(i, d, e) == {n \in Names : e[i][n] # 0 /\ d[e[i][n]].type = "dir"}

\* What mkfs, and calls that have ended, leave on the disk: free inodes have no
\* links, directories have "." and "..", which leads to the directory that holds
\* their name, and nlink counts at least the names of an inode and the ".." in its
\* subdirectories, and one more for the root.
Consistent(d, e) ==
  /\ d \in [Inums -> Dinode] /\ e \in [Inums -> Entries]
  /\ \A i \in Inums :
       /\ d[i].type = "free" => d[i].nlink = 0
       /\ d[i].type = "dir" =>
            /\ e[i]["."] = i /\ e[i][".."] # 0
            /\ \A x \in NamesOf(i, e) : e[i][".."] = x[1]
       /\ d[i].nlink >= Cardinality(NamesOf(i, e)) + Cardinality(Subdirs(i, d, e))
                          + (IF i = ROOTINO THEN 1 ELSE 0)

DiskOf(t) == [i \in Inums |-> [type |-> t[i].type, nlink |-> t[i].nlink]]
EntsOf(t) == [i \in Inums |-> t[i].ents]

ASSUME FileSysAssumption ==
  /\ IsFiniteSet(Procs) /\ IsFiniteSet(Inums) /\ IsFiniteSet(Names)
  /\ Inums \subseteq Nat \ {0} /\ ROOTINO \in Inums
  /\ Names \cap {".", "..", ""} = {}
  /\ None \notin Procs /\ MaxCalls \in Nat
  /\ Paths \cup LinkPaths \subseteq [abs : BOOLEAN, elems : Seq(Elems)]
  /\ \A t \in Trees : Consistent(DiskOf(t), EntsOf(t))

VARIABLES
  disk,     \* struct dinode: [type, nlink]
  ents,     \* what the blocks of a directory say: name -> inum, or 0
  ref, valid, mem, lock,   \* struct inode; mem is its copy of the dinode
  cwd, fd,  \* struct proc: current directory, and its one open file (or 0)
  st,       \* where each process is in its call, with its local variables
  calls,    \* system calls begun so far
  panic,    \* has a step panicked?
  strayed   \* history, read by no step: see Strays

vars == <<disk, ents, ref, valid, mem, lock, cwd, fd, st, calls, panic, strayed>>

\* Where a call can be.
Labels == {"user", "put", "free", "drop", "walk", "found", "chdir", "parent", "exists", "init",
           "created", "new", "linked", "linkfail", "bad", "unlink", "unlinked", "unlinkbad"}

\* A process outside the kernel.  Inside, ip, dp and put are the inodes that it
\* holds a reference to, put the one an iput() is about to give up.
Idle == [pc |-> "user", call |-> None, new |-> <<>>, rest |-> <<>>,
         ip |-> 0, dp |-> 0, put |-> 0, ret |-> "user"]

TypeOK ==
  /\ disk \in [Inums -> Dinode] /\ mem \in [Inums -> Dinode]
  /\ ents \in [Inums -> Entries]
  /\ ref \in [Inums -> Nat] /\ valid \in [Inums -> BOOLEAN]
  /\ lock \in [Inums -> Procs \cup {None}]
  /\ cwd \in [Procs -> Inums] /\ fd \in [Procs -> Inums \cup {0}]
  /\ st \in [Procs -> [pc : Labels, call : Calls \cup {None}, new : LinkPaths \cup {<<>>},
                       rest : Seq(Elems), ip : Inums \cup {0}, dp : Inums \cup {0},
                       put : Inums \cup {0}, ret : Labels]]
  /\ calls \in 0 .. MaxCalls /\ panic \in BOOLEAN /\ strayed \in BOOLEAN

NoEnts == [n \in Elems |-> 0]
NoInode == [type |-> "free", nlink |-> 0]

\* A disk on which mkfs has made the root directory, and perhaps some calls of an
\* earlier boot other files; every process starts at the root.
Init ==
  /\ \E t \in Trees : disk = DiskOf(t) /\ ents = EntsOf(t)
  /\ ref = [i \in Inums |-> IF i = ROOTINO THEN Cardinality(Procs) ELSE 0]
  /\ valid = [i \in Inums |-> FALSE] /\ mem = [i \in Inums |-> NoInode]
  /\ lock = [i \in Inums |-> None]
  /\ cwd = [p \in Procs |-> ROOTINO] /\ fd = [p \in Procs |-> 0]
  /\ st = [p \in Procs |-> Idle] /\ calls = 0
  /\ panic = FALSE /\ strayed = FALSE

----------------------------------------------------------------------------
(* Inodes.                                                                  *)

At(p, l) == st[p].pc = l /\ ~panic
Goto(p, s) == st' = [st EXCEPT ![p] = s]

\* The inode whose sleep lock p must get for its next step, or 0.
Wants(p) ==
  LET s == st[p]
  IN  CASE s.pc = "put" -> s.put
        [] s.pc \in {"walk", "parent"} /\ s.rest # <<>> -> s.dp
        [] s.pc \in {"found", "exists", "init", "unlink", "bad"} -> s.ip
        [] OTHER -> 0

\* What ilock(i) finds in the inode.
Copy(i) == IF valid[i] THEN mem[i] ELSE disk[i]
NoType(i) == ~valid[i] /\ disk[i].type = "free"

\* acquiresleep() of the lock for p's next step, which then does not panic
Ilock(p) ==
  /\ lock[Wants(p)] = None
  /\ ~NoType(Wants(p))

\* The next step of p panics: "ilock: no type", "unlink: nlink < 1" or, on the
\* directory that nameiparent() has returned, "dirlookup not DIR".
Doomed(p) ==
  LET s == st[p]
      i == Wants(p)
  IN  /\ ~panic /\ i # 0 /\ s.pc # "put" /\ lock[i] = None
      /\ \/ NoType(i)
         \/ s.pc = "unlink" /\ Copy(i).nlink < 1
         \/ /\ s.pc = "parent" /\ Copy(i).type # "dir"
            /\ ~(s.call = "unlink" /\ Head(s.rest) \in {".", ".."})

Panic(p) ==
  /\ Doomed(p)
  /\ panic' = TRUE
  /\ UNCHANGED <<disk, ents, ref, valid, mem, lock, cwd, fd, st, calls, strayed>>

\* Inodes d with those in the domain of u set to u.
Updated(d, u) == [k \in Inums |-> IF k \in DOMAIN u THEN u[k] ELSE d[k]]

\* The cache after ilock(i) (i = 0 for none), after iget() or idup() of the
\* inodes in J, and with the fields of the inodes in the domain of u set to u.
Cached(i, J, u) ==
  /\ valid' = [k \in Inums |-> k = i \/ (valid[k] /\ ~(k \in J /\ ref[k] = 0))]
  /\ mem' = Updated([k \in Inums |-> IF k = i THEN Copy(k) ELSE mem[k]], u)
  /\ ref' = [k \in Inums |-> IF k \in J THEN ref[k] + 1 ELSE ref[k]]

Nothing == [k \in {} |-> NoInode]
Links(i, n) == [k \in {i} |-> [Copy(i) EXCEPT !.nlink = @ + n]]

\* iupdate(), for every inode that u changes
Iupdate(u) == disk' = Updated(disk, u)

\* iput(i), to go on at r
Put(s, i, r) == [s EXCEPT !.pc = "put", !.put = i, !.ret = r]

\* Mutants: any reference will do; the freed inode stays valid in the cache.
PutLock_AnyRef(p) ==
  LET i == st[p].put
  IN  /\ At(p, "put") /\ lock[i] = None
      /\ lock' = IF valid[i] /\ mem[i].nlink = 0 THEN [lock EXCEPT ![i] = p] ELSE lock
      /\ Goto(p, [st[p] EXCEPT !.pc = IF valid[i] /\ mem[i].nlink = 0 THEN "free" ELSE "drop"])
      /\ UNCHANGED <<disk, ents, ref, valid, mem, cwd, fd, calls, panic, strayed>>

PutFree_StillValid(p) ==
  LET i == st[p].put
  IN  /\ At(p, "free")
      /\ disk' = [disk EXCEPT ![i].type = "free"]
      /\ ents' = [ents EXCEPT ![i] = NoEnts]
      /\ lock' = [lock EXCEPT ![i] = None]
      /\ Goto(p, [st[p] EXCEPT !.pc = "drop"])
      /\ UNCHANGED <<ref, valid, mem, cwd, fd, calls, panic, strayed>>

\* iput(), first part: with the lock, is this the last reference to an inode
\* without links?
PutLock(p) ==
  LET i == st[p].put
  IN  /\ At(p, "put") /\ lock[i] = None
      /\ \/ /\ valid[i] /\ mem[i].nlink = 0 /\ ref[i] = 1
            /\ lock' = [lock EXCEPT ![i] = p]
            /\ Goto(p, [st[p] EXCEPT !.pc = "free"])
         \/ /\ ~(valid[i] /\ mem[i].nlink = 0 /\ ref[i] = 1)
            /\ Goto(p, [st[p] EXCEPT !.pc = "drop"])
            /\ UNCHANGED lock
      /\ UNCHANGED <<disk, ents, ref, valid, mem, cwd, fd, calls, panic, strayed>>

\* itrunc(), type 0, iupdate(), valid 0, and the lock is let go
PutFree(p) ==
  LET i == st[p].put
  IN  /\ At(p, "free")
      /\ disk' = [disk EXCEPT ![i].type = "free"]
      /\ mem' = [mem EXCEPT ![i] = NoInode]
      /\ ents' = [ents EXCEPT ![i] = NoEnts]
      /\ valid' = [valid EXCEPT ![i] = FALSE]
      /\ lock' = [lock EXCEPT ![i] = None]
      /\ Goto(p, [st[p] EXCEPT !.pc = "drop"])
      /\ UNCHANGED <<ref, cwd, fd, calls, panic, strayed>>

\* The decrement, and back to the caller of iput().  What an entry of the cache
\* without references holds is never read: it is shown as invalid.
PutDrop(p) ==
  /\ At(p, "drop")
  /\ ref' = [ref EXCEPT ![st[p].put] = @ - 1]
  /\ valid' = [i \in Inums |-> valid[i] /\ ref'[i] > 0]
  /\ mem' = [i \in Inums |-> IF valid'[i] THEN mem[i] ELSE NoInode]
  /\ Goto(p, IF st[p].ret = "user" THEN Idle
             ELSE [st[p] EXCEPT !.pc = st[p].ret, !.put = 0, !.ret = "user"])
  /\ UNCHANGED <<disk, ents, lock, cwd, fd, calls, panic, strayed>>

----------------------------------------------------------------------------
(* Path names: namex().  dp walks.                                          *)

\* Does name n of directory i lead astray?  A directory that has been removed, and
\* is in use, keeps its "..": of a parent that has been removed as well, and
\* whose inode may have been freed, or may be freed and reallocated any time.
Strays(i, n) ==
  /\ n = ".." /\ NamesOf(i, ents) = {}
  /\ ents[i][n] # 0 /\ disk[ents[i][n]].nlink = 0

\* dirlookup() finds name n in directory i: has anybody strayed?
Follow(i, n) == strayed' = (strayed \/ Strays(i, n))

\* Is it nameiparent()'s walk?
Nameiparent(s) == s.call \in Creates \cup {"unlink"} \/ (s.call = "link" /\ s.ip # 0)

\* Where a failed walk leads: link() has a count to take back.
Failed(s) == IF s.call = "link" /\ s.ip # 0 THEN "bad" ELSE "user"

\* The walk along a path, from the root or the current directory; a path
\* without elements is a result for namei() and a failure for nameiparent().
Walk(p, s, path) ==
  LET i == IF path.abs THEN ROOTINO ELSE cwd[p]
  IN  /\ Cached(0, {i}, Nothing)
      /\ Goto(p, CASE path.elems # <<>> -> [s EXCEPT !.pc = "walk", !.dp = i, !.rest = path.elems]
                   [] path.elems = <<>> /\ Nameiparent(s) -> Put(s, i, Failed(s))
                   [] OTHER -> [s EXCEPT !.pc = "found", !.ip = i])

\* A system call begins: with a path, or two for link().
Call(p) ==
  /\ At(p, "user") /\ calls < MaxCalls
  /\ calls' = calls + 1
  /\ \E c \in Calls, path \in Paths :
       \E new \in IF c = "link" THEN LinkPaths ELSE {<<>>} :
         Walk(p, [Idle EXCEPT !.call = c, !.new = new], path)
  /\ UNCHANGED <<disk, ents, lock, cwd, fd, panic, strayed>>

\* The second path of link()
WalkNew(p) ==
  /\ At(p, "new")
  /\ Walk(p, [st[p] EXCEPT !.new = <<>>], st[p].new)
  /\ UNCHANGED <<disk, ents, lock, cwd, fd, calls, panic, strayed>>

\* One turn of the loop: lock, look the element up, unlock, iput().
WalkStep(p) ==
  LET s == st[p]
      i == s.dp
      last == Nameiparent(s) /\ Len(s.rest) = 1
      j == ents[i][Head(s.rest)]
  IN  /\ At(p, "walk") /\ s.rest # <<>> /\ Ilock(p)
      /\ \/ /\ Copy(i).type # "dir" \/ (~last /\ j = 0)
            /\ Cached(i, {}, Nothing)
            /\ Goto(p, Put([s EXCEPT !.dp = 0], i, Failed(s)))
            /\ UNCHANGED strayed
         \/ /\ Copy(i).type = "dir" /\ last
            /\ Cached(i, {}, Nothing)
            /\ Goto(p, [s EXCEPT !.pc = "parent"])
            /\ UNCHANGED strayed
         \/ /\ Copy(i).type = "dir" /\ ~last /\ j # 0
            /\ Cached(i, {j}, Nothing)
            /\ Goto(p, IF Len(s.rest) = 1
                       THEN Put([s EXCEPT !.ip = j, !.dp = 0, !.rest = <<>>], i, "found")
                       ELSE Put([s EXCEPT !.dp = j, !.rest = Tail(@)], i, "walk"))
            /\ Follow(i, Head(s.rest))
      /\ UNCHANGED <<disk, ents, lock, cwd, fd, calls, panic>>

----------------------------------------------------------------------------
(* The system calls, from where their path is resolved.                     *)

\* Mutant: no iput() when there is no descriptor.
OpenFile_NoPut(p, s) ==
  \/ fd[p] = 0 /\ fd' = [fd EXCEPT ![p] = s.ip] /\ Goto(p, Idle)
  \/ Goto(p, Idle) /\ UNCHANGED fd

\* The end of sys_open(), with ip locked: the file and the descriptor are found
\* and take over the reference, or one of them is not and ip is put.
OpenFile(p, s) ==
  \/ /\ fd[p] = 0
     /\ fd' = [fd EXCEPT ![p] = s.ip]
     /\ Goto(p, Idle)
  \/ /\ Goto(p, Put([s EXCEPT !.ip = 0], s.ip, "user"))
     /\ UNCHANGED fd

IputIp(p, s) == Goto(p, Put([s EXCEPT !.ip = 0], s.ip, "user")) /\ UNCHANGED fd

\* sys_open(), sys_chdir() and sys_link() after namei(): ilock(ip)
Found(p) ==
  LET s == st[p]
      i == s.ip
      dir == Copy(i).type = "dir"
      up == s.call = "link" /\ ~dir
  IN  /\ At(p, "found") /\ Ilock(p)
      /\ Cached(i, {}, IF up THEN Links(i, 1) ELSE Nothing)
      /\ Iupdate(IF up THEN Links(i, 1) ELSE Nothing)
      /\ \/ s.call = "open" /\ OpenFile(p, s)
         \/ s.call = "openw" /\ (IF dir THEN IputIp(p, s) ELSE OpenFile(p, s))
         \/ /\ s.call = "chdir"
            /\ IF dir THEN Goto(p, Put(s, cwd[p], "chdir")) /\ UNCHANGED fd ELSE IputIp(p, s)
         \/ /\ s.call = "link"
            /\ IF dir THEN IputIp(p, s) ELSE Goto(p, [s EXCEPT !.pc = "new"]) /\ UNCHANGED fd
      /\ UNCHANGED <<ents, lock, cwd, calls, panic, strayed>>

\* sys_chdir(): the old directory has been put
Chdir(p) ==
  /\ At(p, "chdir")
  /\ cwd' = [cwd EXCEPT ![p] = st[p].ip]
  /\ Goto(p, Idle)
  /\ UNCHANGED <<disk, ents, ref, valid, mem, lock, fd, calls, panic, strayed>>

\* nameiparent() has returned dp: ilock(dp), and dirlookup() of the entry.
Entry(s) == ents[s.dp][Head(s.rest)]

\* create() of a name that exists
ParentExists(p) ==
  LET s == st[p]
  IN  /\ At(p, "parent") /\ s.call \in Creates /\ Ilock(p) /\ Entry(s) # 0
      /\ Copy(s.dp).type = "dir"
      /\ Cached(s.dp, {Entry(s)}, Nothing)
      /\ Goto(p, Put([s EXCEPT !.ip = Entry(s), !.dp = 0], s.dp, "exists"))
      /\ Follow(s.dp, Head(s.rest))
      /\ UNCHANGED <<disk, ents, lock, cwd, fd, calls, panic>>

Exists(p) ==
  LET s == st[p]
  IN  /\ At(p, "exists") /\ Ilock(p)
      /\ Cached(s.ip, {}, Nothing)
      /\ IF s.call = "creat" /\ Copy(s.ip).type = "file" THEN OpenFile(p, s) ELSE IputIp(p, s)
      /\ UNCHANGED <<disk, ents, lock, cwd, calls, panic, strayed>>

\* Mutant: the parent gets no link for "..".
NewLinks_NoParent(s) == [k \in {s.ip} |-> [Copy(k) EXCEPT !.nlink = 1]]

\* The new inode has one link, and one more goes to the parent for "..".
NewLinks(s) == [k \in {s.ip} \cup (IF s.call = "mkdir" THEN {s.dp} ELSE {}) |->
                  [Copy(k) EXCEPT !.nlink = IF k = s.ip THEN 1 ELSE @ + 1]]

NewType(c) == CASE c = "creat" -> "file" [] c = "mkdir" -> "dir" [] c = "mknod" -> "dev"

\* create() of a new name: ialloc() takes the first free inode of the disk.
Ialloc(p) ==
  LET s == st[p]
      free == {i \in Inums : disk[i].type = "free"}
      k == Min(free)
  IN  /\ At(p, "parent") /\ s.call \in Creates /\ Ilock(p) /\ Entry(s) = 0
      /\ Copy(s.dp).type = "dir"
      /\ \/ /\ free # {}
            /\ disk' = [disk EXCEPT ![k] = [type |-> NewType(s.call), nlink |-> 0]]
            /\ ents' = [ents EXCEPT ![k] = NoEnts]
            /\ Cached(s.dp, {k}, Nothing)
            /\ lock' = [lock EXCEPT ![s.dp] = p]
            /\ Goto(p, [s EXCEPT !.pc = "init", !.ip = k])
            /\ UNCHANGED panic
         \/ /\ free = {}
            /\ panic' = TRUE
            /\ UNCHANGED <<disk, ents, ref, valid, mem, lock, st>>
      /\ UNCHANGED <<cwd, fd, calls, strayed>>

\* ilock(ip), one link, "." and "..", and the entry in dp; iunlockput(dp)
InitInode(p) ==
  LET s == st[p]
      u == NewLinks(s)
      dots == IF s.call = "mkdir" THEN [NoEnts EXCEPT !["."] = s.ip, ![".."] = s.dp] ELSE NoEnts
  IN  /\ At(p, "init") /\ Ilock(p)
      /\ Cached(s.ip, {}, u) /\ Iupdate(u)
      /\ ents' = [ents EXCEPT ![s.ip] = dots, ![s.dp][Head(s.rest)] = s.ip]
      /\ lock' = [lock EXCEPT ![s.ip] = p, ![s.dp] = None]
      /\ Goto(p, Put([s EXCEPT !.dp = 0], s.dp, "created"))
      /\ UNCHANGED <<cwd, fd, calls, panic, strayed>>

\* create() has returned ip, locked
Created(p) ==
  LET s == st[p]
  IN  /\ At(p, "created")
      /\ IF s.call = "creat" THEN OpenFile(p, s) ELSE IputIp(p, s)
      /\ lock' = [lock EXCEPT ![s.ip] = None]
      /\ UNCHANGED <<disk, ents, ref, valid, mem, cwd, calls, panic, strayed>>

\* sys_link() with the parent of the new name: dirlink(), iunlockput(dp); a
\* name that exists is put with dp still locked.
Dirlink(p) ==
  LET s == st[p]
      j == Entry(s)
  IN  /\ At(p, "parent") /\ s.call = "link" /\ Ilock(p) /\ Copy(s.dp).type = "dir"
      /\ \/ /\ j = 0
            /\ Cached(s.dp, {}, Nothing)
            /\ ents' = [ents EXCEPT ![s.dp][Head(s.rest)] = s.ip]
            /\ Goto(p, Put([s EXCEPT !.dp = 0], s.dp, "linked"))
            /\ UNCHANGED <<lock, strayed>>
         \/ /\ j # 0
            /\ Cached(s.dp, {j}, Nothing)
            /\ lock' = [lock EXCEPT ![s.dp] = p]
            /\ Goto(p, Put(s, j, "linkfail"))
            /\ Follow(s.dp, Head(s.rest))
            /\ UNCHANGED ents
      /\ UNCHANGED <<disk, cwd, fd, calls, panic>>

Linked(p) ==
  /\ At(p, "linked")
  /\ IputIp(p, st[p])
  /\ UNCHANGED <<disk, ents, ref, valid, mem, lock, cwd, calls, panic, strayed>>

\* bad: of sys_link(): the link counted too early is taken back
LinkBad(p) ==
  LET s == st[p]
  IN  /\ At(p, "bad") /\ Ilock(p)
      /\ Cached(s.ip, {}, Links(s.ip, -1)) /\ Iupdate(Links(s.ip, -1))
      /\ IputIp(p, s)
      /\ UNCHANGED <<ents, lock, cwd, calls, panic, strayed>>

\* sys_unlink() with the parent: a name that cannot be removed, or ip
ParentUnlink(p) ==
  LET s == st[p]
      j == Entry(s)
  IN  /\ At(p, "parent") /\ s.call = "unlink" /\ Ilock(p)
      /\ \/ /\ Head(s.rest) \in {".", ".."} \/ (Copy(s.dp).type = "dir" /\ j = 0)
            /\ Cached(s.dp, {}, Nothing)
            /\ Goto(p, Put([s EXCEPT !.dp = 0], s.dp, "user"))
            /\ UNCHANGED lock
         \/ /\ Head(s.rest) \notin {".", ".."} /\ Copy(s.dp).type = "dir" /\ j # 0
            /\ Cached(s.dp, {j}, Nothing)
            /\ lock' = [lock EXCEPT ![s.dp] = p]
            /\ Goto(p, [s EXCEPT !.pc = "unlink", !.ip = j])
      /\ UNCHANGED <<disk, ents, cwd, fd, calls, panic, strayed>>

Isdirempty(i) == \A n \in Names : ents[i][n] = 0

\* ... ilock(ip) with dp locked; the entry is erased, and dp put with ip locked
Unlink(p) ==
  LET s == st[p]
      i == s.ip
      dir == Copy(i).type = "dir"
      u == IF dir THEN Links(s.dp, -1) ELSE Nothing
  IN  /\ At(p, "unlink") /\ Ilock(p)
      /\ Copy(i).nlink >= 1
      /\ \/ /\ dir /\ ~Isdirempty(i)
            /\ Cached(i, {}, Nothing)
            /\ Goto(p, Put([s EXCEPT !.ip = 0], i, "unlinkbad"))
            /\ UNCHANGED <<disk, ents, lock>>
         \/ /\ dir => Isdirempty(i)
            /\ Cached(i, {}, u) /\ Iupdate(u)
            /\ ents' = [ents EXCEPT ![s.dp][Head(s.rest)] = 0]
            /\ lock' = [lock EXCEPT ![i] = p, ![s.dp] = None]
            /\ Goto(p, Put([s EXCEPT !.dp = 0], s.dp, "unlinked"))
      /\ UNCHANGED <<cwd, fd, calls, panic, strayed>>

Unlinked(p) ==
  LET s == st[p]
  IN  /\ At(p, "unlinked")
      /\ Cached(0, {}, Links(s.ip, -1)) /\ Iupdate(Links(s.ip, -1))
      /\ lock' = [lock EXCEPT ![s.ip] = None]
      /\ IputIp(p, s)
      /\ UNCHANGED <<ents, cwd, calls, panic, strayed>>

\* iunlockput(dp) on the way out of a call that fails
IunlockputDp(p) ==
  LET s == st[p]
  IN  /\ \/ At(p, "linkfail") /\ Goto(p, Put([s EXCEPT !.dp = 0], s.dp, "bad"))
         \/ At(p, "unlinkbad") /\ Goto(p, Put([s EXCEPT !.dp = 0], s.dp, "user"))
      /\ lock' = [lock EXCEPT ![s.dp] = None]
      /\ UNCHANGED <<disk, ents, ref, valid, mem, cwd, fd, calls, panic, strayed>>

\* close() of the last descriptor of a file
Close(p) ==
  /\ At(p, "user") /\ fd[p] # 0 /\ calls < MaxCalls
  /\ calls' = calls + 1
  /\ fd' = [fd EXCEPT ![p] = 0]
  /\ Goto(p, Put(Idle, fd[p], "user"))
  /\ UNCHANGED <<disk, ents, ref, valid, mem, lock, cwd, panic, strayed>>

Step(p) ==
  \/ PutLock(p) \/ PutFree(p) \/ PutDrop(p)
  \/ WalkNew(p) \/ WalkStep(p)
  \/ Found(p) \/ Chdir(p)
  \/ ParentExists(p) \/ Exists(p) \/ Ialloc(p) \/ InitInode(p) \/ Created(p)
  \/ Dirlink(p) \/ Linked(p) \/ LinkBad(p)
  \/ ParentUnlink(p) \/ Unlink(p) \/ Unlinked(p) \/ IunlockputDp(p)
  \/ Panic(p)

Next == \E p \in Procs : Call(p) \/ Close(p) \/ Step(p)

Spec == Init /\ [][Next]_vars

----------------------------------------------------------------------------
(* Properties.                                                              *)

\* The label of the call that p is in, that an iput() returns to included.
Where(s) == IF s.pc \in {"put", "free", "drop"} THEN s.ret ELSE s.pc

\* The pointers to inode i that ip->ref counts: of each process its current
\* directory (until chdir() puts it), its open file, and its local variables.
Refs(i) ==
  {h \in Procs \X {"cwd", "fd", "ip", "dp", "put"} :
     CASE h[2] = "cwd" -> cwd[h[1]] = i /\ Where(st[h[1]]) # "chdir"
       [] h[2] = "fd" -> fd[h[1]] = i
       [] OTHER -> st[h[1]][h[2]] = i}

\* The reference count of every inode is the number of pointers to it, at every
\* point of every call and of its error paths (iget, idup and iput of fs.c); a
\* process outside the kernel holds no inode lock; variables keep their types.
RefCounted ==
  /\ TypeOK
  /\ \A i \in Inums : ref[i] = Cardinality(Refs(i))
  /\ \A i \in Inums : lock[i] # None => st[lock[i]].pc # "user"

\* A cached inode that is marked valid is what the disk holds, and is not free,
\* even while other processes free and reallocate its number.
CacheCoherent ==
  \A i \in Inums : ref[i] > 0 /\ valid[i] => mem[i] = disk[i] /\ disk[i].type # "free"

\* Unless somebody has strayed: no name is left dangling, and no inode has fewer
\* links than names: its entries, and ".." of the directories it holds.
LinksCover ==
  ~strayed =>
    \A i \in Inums :
      /\ NamesOf(i, ents) # {} => disk[i].type # "free"
      /\ disk[i].nlink >= Cardinality(NamesOf(i, ents)) + Cardinality(Subdirs(i, disk, ents))

\* No step panics, whatever the others do in between, unless somebody has strayed:
\* who locks an inode finds it allocated, who unlinks a name an inode with links,
\* and who searches a directory a directory (fs.c:310, sysfile.c:212, fs.c:531).
\* Only ".." of a removed directory with a removed parent leads to these panics.
\* That of ialloc() without a free inode (fs.c:213) is not meant.
NoPanic == ~strayed => \A p \in Procs : ~Doomed(p)

\* No set of processes waits for inode locks that its own members hold.
NoDeadlock ==
  ~ \E S \in SUBSET Procs \ {{}} :
      \A p \in S : Wants(p) # 0 /\ lock[Wants(p)] \in S
=============================================================================
