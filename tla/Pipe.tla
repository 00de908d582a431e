-------------------------------- MODULE Pipe --------------------------------
(***************************************************************************)
(* One pipe (pipe.c) and the processes that hold its ends: the ring buffer *)
(* with its two counters, the sleeps of readers and writers, close, and    *)
(* kill.                                                                   *)
(*                                                                         *)
(* A step is one critical section of p->lock: a writer copies bytes until  *)
(* it is done or the ring is full, and a reader until it is done or the    *)
(* ring is empty, without letting go of the lock.  A process is single-    *)
(* threaded: it closes no end while it is inside a read or a write.        *)
(***************************************************************************)
EXTENDS Naturals, Sequences, FiniteSetsExt

CONSTANTS
  Procs,
  Bytes,
  PIPESIZE,
  WORD,       \* nread and nwrite are unsigned words: they count modulo WORD
  MaxN        \* bound: the most bytes a caller asks for

\* PIPESIZE is a power of two, and divides 2^32.
ASSUME PipeAssumption ==
  /\ PIPESIZE \in Nat \ {0}
  /\ WORD \in Nat /\ WORD > PIPESIZE /\ WORD % PIPESIZE = 0
  /\ MaxN \in Nat \ {0}

VARIABLES
  data, nread, nwrite, readopen, writeopen,   \* struct pipe
  rfd, wfd,     \* the processes that hold the read end, the write end
  killed,
  pc,           \* where each process is
  left          \* bytes a writer has still to write, or a reader asked for

ring == <<data, nread, nwrite>>
ends == <<readopen, writeopen, rfd, wfd>>
vars == <<data, nread, nwrite, readopen, writeopen, rfd, wfd, killed, pc, left>>

TypeOK ==
  /\ data \in [0 .. PIPESIZE - 1 -> Bytes]
  /\ nread \in 0 .. WORD - 1 /\ nwrite \in 0 .. WORD - 1
  /\ readopen \in BOOLEAN /\ writeopen \in BOOLEAN
  /\ rfd \subseteq Procs /\ wfd \subseteq Procs
  /\ killed \in [Procs -> BOOLEAN]
  /\ pc \in [Procs -> {"idle", "write", "wsleep", "read", "rsleep"}]
  /\ left \in [Procs -> 0 .. MaxN]

\* pipealloc(), for a process that has come to hold both ends
Init ==
  /\ \E b \in Bytes : data = [i \in 0 .. PIPESIZE - 1 |-> b]
  /\ nread = 0 /\ nwrite = 0
  /\ readopen = TRUE /\ writeopen = TRUE
  /\ \E p \in Procs : rfd = {p} /\ wfd = {p}
  /\ killed = [p \in Procs |-> FALSE]
  /\ pc = [p \in Procs |-> "idle"]
  /\ left = [p \in Procs |-> 0]

\* Bytes in the ring.
Count == (nwrite + WORD - nread) % WORD

\* Mutant: the ring takes one byte too many.
Room_OneMore == PIPESIZE + 1 - Count

Room == PIPESIZE - Count

Advance(n, k) == (n + k) % WORD

\* Mutant: the sleepers on the channel are forgotten.
Wakeup_Not(from, to, p, l) == [pc EXCEPT ![p] = l]

\* wakeup() of the sleepers at `from', who go back to `to', by p, who goes to l
Wakeup(from, to, p, l) ==
  [q \in Procs |-> IF q = p THEN l ELSE IF pc[q] = from THEN to ELSE pc[q]]

WakeReaders(p, l) == Wakeup("rsleep", "read", p, l)
WakeWriters(p, l) == Wakeup("wsleep", "write", p, l)

----------------------------------------------------------------------------
(* write(), read() and close() by process p                                 *)

WriteCall(p) ==
  /\ p \in wfd /\ pc[p] = "idle" /\ ~killed[p]
  /\ \E n \in 1 .. MaxN : left' = [left EXCEPT ![p] = n]
  /\ pc' = [pc EXCEPT ![p] = "write"]
  /\ UNCHANGED <<ring, ends, killed>>

\* p->data[p->nwrite++ % PIPESIZE] = addr[i], for the k bytes of s
Stored(s, k) ==
  [i \in DOMAIN data |->
     LET js == {j \in 1 .. k : (nwrite + j - 1) % PIPESIZE = i}
     IN  IF js = {} THEN data[i] ELSE s[Max(js)]]

\* pipewrite(): bytes go into the ring; then it returns n, fails because the
\* ring is full for good, or sleeps.
PipeWrite(p) ==
  LET k == Min({left[p], Room})
  IN  /\ pc[p] = "write"
      /\ \E s \in [1 .. k -> Bytes] : data' = Stored(s, k)
      /\ nwrite' = Advance(nwrite, k)
      /\ \/ /\ k = left[p]
            /\ pc' = WakeReaders(p, "idle")
            /\ left' = [left EXCEPT ![p] = 0]
         \/ /\ k < left[p] /\ (~readopen \/ killed[p])
            /\ pc' = [pc EXCEPT ![p] = "idle"]
            /\ left' = [left EXCEPT ![p] = 0]
         \/ /\ k < left[p] /\ readopen /\ ~killed[p]
            /\ pc' = WakeReaders(p, "wsleep")
            /\ left' = [left EXCEPT ![p] = @ - k]
      /\ UNCHANGED <<nread, ends, killed>>

ReadCall(p) ==
  /\ p \in rfd /\ pc[p] = "idle" /\ ~killed[p]
  /\ \E n \in 1 .. MaxN : left' = [left EXCEPT ![p] = n]
  /\ pc' = [pc EXCEPT ![p] = "read"]
  /\ UNCHANGED <<ring, ends, killed>>

\* piperead() on an empty pipe that may still be written: fails or sleeps
ReadWait(p) ==
  /\ pc[p] = "read"
  /\ nread = nwrite /\ writeopen
  /\ pc' = [pc EXCEPT ![p] = IF killed[p] THEN "idle" ELSE "rsleep"]
  /\ left' = [left EXCEPT ![p] = IF killed[p] THEN 0 ELSE @]
  /\ UNCHANGED <<ring, ends, killed>>

\* ... and otherwise: it returns the bytes there are, none at end of file
PipeRead(p) ==
  /\ pc[p] = "read"
  /\ nread # nwrite \/ ~writeopen
  /\ nread' = Advance(nread, Min({left[p], Count}))
  /\ pc' = WakeWriters(p, "idle")
  /\ left' = [left EXCEPT ![p] = 0]
  /\ UNCHANGED <<data, nwrite, ends, killed>>

\* fileclose(), which calls pipeclose() for the last reference to an end
CloseWrite(p) ==
  /\ p \in wfd /\ pc[p] = "idle"
  /\ wfd' = wfd \ {p}
  /\ writeopen' = (wfd' # {})
  /\ pc' = IF wfd' = {} THEN WakeReaders(p, "idle") ELSE pc
  /\ UNCHANGED <<ring, readopen, rfd, killed, left>>

CloseRead(p) ==
  /\ p \in rfd /\ pc[p] = "idle"
  /\ rfd' = rfd \ {p}
  /\ readopen' = (rfd' # {})
  /\ pc' = IF rfd' = {} THEN WakeWriters(p, "idle") ELSE pc
  /\ UNCHANGED <<ring, writeopen, wfd, killed, left>>

\* fork(): filedup() for each end that the parent holds
Fork(p, q) ==
  /\ pc[p] = "idle" /\ p \in rfd \cup wfd
  /\ ~killed[p] /\ ~killed[q]
  /\ q \notin rfd \cup wfd
  /\ rfd' = IF p \in rfd THEN rfd \cup {q} ELSE rfd
  /\ wfd' = IF p \in wfd THEN wfd \cup {q} ELSE wfd
  /\ UNCHANGED <<ring, readopen, writeopen, killed, pc, left>>

\* kill() makes a sleeper runnable; a killed process makes no more calls.
Kill(p) ==
  /\ ~killed[p] /\ p \in rfd \cup wfd
  /\ killed' = [killed EXCEPT ![p] = TRUE]
  /\ pc' = [pc EXCEPT ![p] = IF @ = "wsleep" THEN "write"
                             ELSE IF @ = "rsleep" THEN "read" ELSE @]
  /\ UNCHANGED <<ring, ends, left>>

InCall(p) == PipeWrite(p) \/ ReadWait(p) \/ PipeRead(p)

Next ==
  \E p \in Procs :
    \/ WriteCall(p) \/ ReadCall(p) \/ InCall(p)
    \/ CloseWrite(p) \/ CloseRead(p) \/ Kill(p)
    \/ \E q \in Procs : Fork(p, q)

\* A process inside a call, once awake, is run and gets the lock.
Fairness == \A p \in Procs : WF_vars(InCall(p))

Spec == Init /\ [][Next]_vars
FairSpec == Spec /\ Fairness

----------------------------------------------------------------------------
(* Properties.                                                              *)

contents == [i \in 1 .. Count |-> data[(nread + i - 1) % PIPESIZE]]

Fifo == INSTANCE ByteFifo WITH Capacity <- PIPESIZE, queue <- contents

\* Whatever the mix of readers and writers, and when nread and nwrite wrap
\* around: no byte is lost, repeated or overtaken, and the ring never holds
\* more than PIPESIZE.
ImplementsFifo == Fifo!FifoSpec

\* Nobody sleeps in a pipe without a reason: a sleeping reader means an empty
\* pipe with a writer left, a sleeping writer a full one with a reader left,
\* and neither has been killed.  The exception: a killed writer returns from a
\* ring it has just filled without a wakeup of the readers.  The counters stay
\* in their range.
NoMissedWakeup ==
  /\ TypeOK
  /\ \A p \in Procs :
       /\ pc[p] = "rsleep" =>
            /\ writeopen /\ ~killed[p]
            /\ Count = 0 \/ \E q \in Procs : killed[q]
       /\ pc[p] = "wsleep" => Count = PIPESIZE /\ readopen /\ ~killed[p]

\* Who is killed, or waits for an end that everybody has closed, returns from
\* its read or write.
HangUp ==
  \A p \in Procs :
    \/ pc[p] # "idle" /\ killed[p]
    \/ pc[p] \in {"read", "rsleep"} /\ ~writeopen
    \/ pc[p] \in {"write", "wsleep"} /\ ~readopen
    ~> pc[p] = "idle"
=============================================================================
