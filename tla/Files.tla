-------------------------------- MODULE Files --------------------------------
(* The file table (file.c) with the descriptors of the processes and the      *)
(* calls that move references about: dup, close, open and pipe (sysfile.c,    *)
(* pipe.c), fork and exit (proc.c).  Memory for a pipe may run out; the inode *)
(* behind an open file is a count of references, iref.                        *)
EXTENDS Naturals, Sequences, FiniteSets

CONSTANTS
  Procs, FirstProc,   \* processes, and the one there is at first
  NOFile, NFile,      \* descriptors of a process, files of the system
  PipeIds             \* pages that can be pipes

VARIABLES
  ofile,    \* p->ofile, 0 for none
  ftable,   \* ftable.file: ref, type, pipe and writable
  popen,    \* the open ends of each pipe (readopen and writeopen)
  iref,     \* references to the inode of open files
  live,     \* the process exists
  at,       \* where the call of each process is, "user" outside
  mine,     \* files a call holds that have no descriptor, in order
  ff        \* the copy fileclose() made of a file it has freed, <<>> for none

vars == <<ofile, ftable, popen, iref, live, at, mine, ff>>

FDs == 0 .. NOFile - 1
FileIds == 1 .. NFile
NoFile == [ref |-> 0, type |-> "NONE", pipe |-> 0, writable |-> FALSE]

Init ==
  /\ ofile = [p \in Procs |-> [fd \in FDs |-> 0]]
  /\ ftable = [f \in FileIds |-> NoFile]
  /\ popen = [k \in PipeIds |-> {}]
  /\ iref = 0
  /\ live = {FirstProc}
  /\ at = [p \in Procs |-> "user"]
  /\ mine = [p \in Procs |-> <<>>]
  /\ ff = [p \in Procs |-> <<>>]

User(p) == p \in live /\ at[p] = "user"

Least(S) == CHOOSE n \in S : \A m \in S : n <= m

(* What filealloc() and fdalloc() find.                                       *)
FreeFiles == {f \in FileIds : ftable[f].ref = 0}
FreeFds(p) == {fd \in FDs : ofile[p][fd] = 0}

(* The state of a call: where it goes on, and the files it then holds.        *)
Goto(p, where, files) ==
  /\ at' = [at EXCEPT ![p] = where]
  /\ mine' = [mine EXCEPT ![p] = files]

filealloc(f) == ftable' = [ftable EXCEPT ![f].ref = 1]

-----------------------------------------------------------------------------

sys_dup(p) == \E fd \in FDs :
  /\ User(p) /\ ofile[p][fd] # 0 /\ FreeFds(p) # {}
  /\ ofile' = [ofile EXCEPT ![p][Least(FreeFds(p))] = ofile[p][fd]]
  /\ ftable' = [ftable EXCEPT ![ofile[p][fd]].ref = @ + 1]
  /\ UNCHANGED <<popen, iref, live, at, mine, ff>>

(* close(), and each turn of the loop of exit().                              *)
sys_close(p) == \E fd \in FDs :
  /\ p \in live /\ at[p] \in {"user", "exit"} /\ ofile[p][fd] # 0
  /\ ofile' = [ofile EXCEPT ![p][fd] = 0]
  /\ Goto(p, IF at[p] = "user" THEN "close" ELSE "exit_close", <<ofile[p][fd]>>)
  /\ UNCHANGED <<ftable, popen, iref, live, ff>>

(* Mutant: fileclose() frees the slot one reference too early.               *)
Freed_Two(f) == [ftable EXCEPT ![f] = IF @.ref <= 2 THEN NoFile ELSE [@ EXCEPT !.ref = @ - 1]]

(* fileclose() under ftable.lock: the last reference frees the slot and       *)
(* leaves a copy to be closed after the lock is released.  (Fields that have  *)
(* no meaning without a type are cleared with it.)                            *)
Freed(f) == [ftable EXCEPT ![f] = IF @.ref = 1 THEN NoFile ELSE [@ EXCEPT !.ref = @ - 1]]

Closing(p) == at[p] \in {"close", "exit_close"}

fileclose(p) ==
  /\ Closing(p) /\ mine[p] # <<>> /\ ff[p] = <<>>
  /\ ftable' = Freed(Head(mine[p]))
  /\ ff' = [ff EXCEPT ![p] = IF ftable[Head(mine[p])].ref = 1 /\ ftable[Head(mine[p])].type # "NONE"
                             THEN <<ftable[Head(mine[p])]>> ELSE <<>>]
  /\ Goto(p, at[p], Tail(mine[p]))
  /\ UNCHANGED <<ofile, popen, iref, live>>

(* pipeclose() of the end, or iput() of the inode.                            *)
CloseCopy(p) ==
  /\ ff[p] # <<>>
  /\ \/ /\ ff[p][1].type = "PIPE"
        /\ popen' = [popen EXCEPT ![ff[p][1].pipe] = @ \ {ff[p][1].writable}]
        /\ UNCHANGED iref
     \/ /\ ff[p][1].type = "INODE" /\ iref' = iref - 1 /\ UNCHANGED popen
  /\ ff' = [ff EXCEPT ![p] = <<>>]
  /\ UNCHANGED <<ofile, ftable, live, at, mine>>

Closed(p) ==
  /\ Closing(p) /\ mine[p] = <<>> /\ ff[p] = <<>>
  /\ Goto(p, IF at[p] = "close" THEN "user" ELSE "exit", <<>>)
  /\ UNCHANGED <<ofile, ftable, popen, iref, live, ff>>

-----------------------------------------------------------------------------

(* sys_open() has found the inode (a reference to it), and asks for a file;   *)
(* without one it lets go of the inode again.                                 *)
sys_open(p) ==
  /\ User(p) /\ FreeFiles # {}
  /\ filealloc(Least(FreeFiles))
  /\ iref' = iref + 1
  /\ Goto(p, "open", <<Least(FreeFiles)>>)
  /\ UNCHANGED <<ofile, popen, live, ff>>

(* fdalloc(), or fileclose() and iput().                                      *)
OpenFd(p) ==
  /\ at[p] = "open"
  /\ \/ /\ FreeFds(p) # {}
        /\ ofile' = [ofile EXCEPT ![p][Least(FreeFds(p))] = Head(mine[p])]
        /\ Goto(p, "opened", mine[p]) /\ UNCHANGED iref
     \/ /\ FreeFds(p) = {} /\ iref' = iref - 1
        /\ Goto(p, "close", mine[p]) /\ UNCHANGED ofile
  /\ UNCHANGED <<ftable, popen, live, ff>>

(* After end_op() the file gets its type and its inode.                       *)
Opened(p) ==
  /\ at[p] = "opened"
  /\ ftable' = [ftable EXCEPT ![Head(mine[p])].type = "INODE"]
  /\ Goto(p, "user", <<>>)
  /\ UNCHANGED <<ofile, popen, iref, live, ff>>

(* pipealloc(): two files, then a page; what there is of them is closed if    *)
(* one cannot be had.                                                         *)
sys_pipe(p) ==
  /\ User(p) /\ FreeFiles # {}
  /\ filealloc(Least(FreeFiles))
  /\ Goto(p, "pipe", <<Least(FreeFiles)>>)
  /\ UNCHANGED <<ofile, popen, iref, live, ff>>

PipeFile(p) ==
  /\ at[p] = "pipe" /\ Len(mine[p]) = 1
  /\ \/ /\ FreeFiles = {} /\ Goto(p, "close", mine[p]) /\ UNCHANGED ftable
     \/ /\ FreeFiles # {} /\ filealloc(Least(FreeFiles))
        /\ Goto(p, "pipe", Append(mine[p], Least(FreeFiles)))
  /\ UNCHANGED <<ofile, popen, iref, live, ff>>

PipePageOrNot(p) ==
  /\ at[p] = "pipe" /\ Len(mine[p]) = 2
  /\ \/ Goto(p, "close", mine[p]) /\ UNCHANGED <<ftable, popen>>
     \/ \E k \in PipeIds :
          /\ popen[k] = {}
          /\ popen' = [popen EXCEPT ![k] = {FALSE, TRUE}]
          /\ ftable' = [f \in FileIds |->
               IF f \in {mine[p][1], mine[p][2]}
               THEN [ref |-> 1, type |-> "PIPE", pipe |-> k, writable |-> f = mine[p][2]] ELSE ftable[f]]
          /\ Goto(p, "fds", mine[p])
  /\ UNCHANGED <<ofile, iref, live, ff>>

(* Mutant: the first descriptor stays when there is no second one.           *)
PipeFds_KeepFirst(p) ==
  LET fd0 == Least(FreeFds(p))
      fd1 == Least(FreeFds(p) \ {fd0})
  IN
  /\ at[p] = "fds"
  /\ \/ /\ Cardinality(FreeFds(p)) >= 2
        /\ ofile' = [ofile EXCEPT ![p][fd0] = mine[p][1], ![p][fd1] = mine[p][2]]
        /\ Goto(p, "user", <<>>)
     \/ /\ FreeFds(p) = {} /\ Goto(p, "close", mine[p]) /\ UNCHANGED ofile
     \/ /\ Cardinality(FreeFds(p)) = 1 /\ Goto(p, "close", mine[p])
        /\ ofile' = [ofile EXCEPT ![p][fd0] = mine[p][1]]
  /\ UNCHANGED <<ftable, popen, iref, live, ff>>

(* sys_pipe(): both descriptors, or neither and both files closed.            *)
PipeFds(p) ==
  LET fd0 == Least(FreeFds(p))
      fd1 == Least(FreeFds(p) \ {fd0})
  IN
  /\ at[p] = "fds"
  /\ \/ /\ Cardinality(FreeFds(p)) >= 2
        /\ ofile' = [ofile EXCEPT ![p][fd0] = mine[p][1], ![p][fd1] = mine[p][2]]
        /\ Goto(p, "user", <<>>)
     \/ Cardinality(FreeFds(p)) < 2 /\ Goto(p, "close", mine[p]) /\ UNCHANGED ofile
  /\ UNCHANGED <<ftable, popen, iref, live, ff>>

(* fork() duplicates the descriptors; exit() closes them all.                 *)
Fork(p) == \E q \in Procs \ live :
  /\ User(p)
  /\ ofile' = [ofile EXCEPT ![q] = ofile[p]]
  /\ ftable' = [f \in FileIds |->
       [ftable[f] EXCEPT !.ref = @ + Cardinality({fd \in FDs : ofile[p][fd] = f})]]
  /\ live' = live \cup {q}
  /\ UNCHANGED <<popen, iref, at, mine, ff>>

Exit(p) ==
  /\ p \in live
  /\ \/ User(p) /\ Goto(p, "exit", <<>>) /\ UNCHANGED live
     \/ /\ at[p] = "exit" /\ \A fd \in FDs : ofile[p][fd] = 0
        /\ live' = live \ {p}
        /\ Goto(p, "user", <<>>)
  /\ UNCHANGED <<ofile, ftable, popen, iref, ff>>

Step(p) ==
  \/ sys_dup(p) \/ sys_close(p) \/ fileclose(p) \/ CloseCopy(p) \/ Closed(p)
  \/ sys_open(p) \/ OpenFd(p) \/ Opened(p)
  \/ sys_pipe(p) \/ PipeFile(p) \/ PipePageOrNot(p) \/ PipeFds(p) \/ Fork(p) \/ Exit(p)

Next == \E p \in Procs : Step(p)

Spec == Init /\ [][Next]_vars

-----------------------------------------------------------------------------

(* The references of a file: descriptors, and calls that hold it without one. *)
Holders(f) ==
  Cardinality({pf \in Procs \X FDs : ofile[pf[1]][pf[2]] = f})
  + Cardinality({p \in Procs : at[p] # "opened" /\ \E i \in DOMAIN mine[p] : mine[p][i] = f})

(* Files of the given kind that are open or being closed.                     *)
OpenOnes(Kind(_)) ==
  Cardinality({f \in FileIds : ftable[f].ref > 0 /\ Kind(ftable[f])})
  + Cardinality({p \in Procs : ff[p] # <<>> /\ Kind(ff[p][1])})

(* file.c:25-80 under fork, exit and the error paths of open and pipe: f->ref *)
(* counts the references there are, a free slot has no type, and a process    *)
(* outside a call has no descriptor on a file fileread() would panic on.      *)
FileRefs ==
  /\ \A f \in FileIds : /\ ftable[f].ref = Holders(f)
                        /\ ftable[f].ref = 0 => ftable[f].type = "NONE"
  /\ \A p \in Procs, fd \in FDs : User(p) /\ ofile[p][fd] # 0 => ftable[ofile[p][fd]].type # "NONE"

(* pipe.c:22-75, file.c:73-79: an end of a pipe is open as long as the one    *)
(* file for it is, so that the page is freed once and when neither is left;   *)
(* and every open file, and every open() under way, has its inode reference.  *)
EndsClosedOnce ==
  /\ \A k \in PipeIds, w \in BOOLEAN :
       OpenOnes(LAMBDA f : f.type = "PIPE" /\ f.pipe = k /\ f.writable = w)
         = IF w \in popen[k] THEN 1 ELSE 0
  /\ iref = OpenOnes(LAMBDA f : f.type = "INODE") + Cardinality({p \in Procs : at[p] \in {"open", "opened"}})

=============================================================================
