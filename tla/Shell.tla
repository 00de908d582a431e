------------------------------- MODULE Shell -------------------------------
(* The shell, sh.c: how a line becomes a command, and how processes run it.   *)
(*                                                                            *)
(* A line is a sequence of what gettoken() returns ("a" for a word, "+" for   *)
(* >>); a word is its position.  A process is the shell (0) or one of the     *)
(* slots fork() finds; exec() turns it into a program, which writes and reads *)
(* to the end of its input, in some order, and exits.  A pipe has no room: a  *)
(* write waits for a reader, or finds that there can be none.                 *)
EXTENDS Integers, Sequences, FiniteSets, FiniteSetsExt, SequencesExt

CONSTANTS
  Lines,      \* what is typed
  MaxArgs,    \* MAXARGS
  Jobs,       \* slots for processes, numbers above 0
  ShPipes,    \* pipes there can be
  MaxLines    \* bound: lines typed in a behaviour

VARIABLES
  line,     \* the last line read
  nlines,   \* lines read
  procs,    \* the processes
  broken    \* a fork() or pipe() has failed

vars == <<line, nlines, procs, broken>>

-----------------------------------------------------------------------------
(* Parsing.  A result is a command and the position after it, 0 for a panic.  *)

execcmd(argv) == [type |-> "EXEC", argv |-> argv]
redircmd(c, r) == [type |-> "REDIR", cmd |-> c, file |-> r.file, fd |-> r.fd]
pipecmd(l, r) == [type |-> "PIPE", left |-> l, right |-> r]
listcmd(l, r) == [type |-> "LIST", left |-> l, right |-> r]
backcmd(c) == [type |-> "BACK", cmd |-> c]

Panic == [cmd |-> [type |-> "panic"], at |-> 0]
Result(c, i) == [cmd |-> c, at |-> i]

peek(s, i, toks) == i \in DOMAIN s /\ s[i] \in toks

Redirs == {"<", ">", "+"}
Redir(s, i) == [file |-> i + 1, fd |-> IF s[i] = "<" THEN 0 ELSE 1]
Wrapped(c, rs) == FoldLeft(redircmd, c, rs)

(* The parsers get the results at later positions from a table P.             *)

parseredirs(s, i) ==
  LET at(n) == i + 2 * n
      n == Min({n \in 0 .. Len(s) : ~(peek(s, at(n), Redirs) /\ peek(s, at(n) + 1, {"a"}))})
  IN  [rs |-> [m \in 1 .. n |-> Redir(s, at(m - 1))], at |-> IF peek(s, at(n), Redirs) THEN 0 ELSE at(n)]

(* The loop of parseexec(): the words, the redirections, where it ends.       *)
ParseArgs(P, s, i) ==
  LET r == parseredirs(s, i)
      rest == P["args", r.at + 1]
  IN  CASE r.at = 0 -> [argv |-> <<>>, rs |-> <<>>, at |-> 0]
        [] r.at > Len(s) \/ peek(s, r.at, {"|", ")", "&", ";"}) -> [argv |-> <<>>, rs |-> r.rs, at |-> r.at]
        [] peek(s, r.at, {"a"}) -> [argv |-> <<r.at>> \o rest.argv, rs |-> r.rs \o rest.rs, at |-> rest.at]
        [] OTHER -> [argv |-> <<>>, rs |-> <<>>, at |-> 0]

parseblock(P, s, i) ==
  LET c == P["line", i + 1]
      r == parseredirs(s, c.at + 1)
  IN  IF peek(s, c.at, {")"}) /\ r.at # 0 THEN Result(Wrapped(c.cmd, r.rs), r.at) ELSE Panic

parseexec(P, s, i) ==
  LET a == P["args", i] IN
  CASE peek(s, i, {"("}) -> parseblock(P, s, i)
    [] ~peek(s, i, {"("}) /\ a.at # 0 /\ Len(a.argv) < MaxArgs -> Result(Wrapped(execcmd(a.argv), a.rs), a.at)
    [] OTHER -> Panic

(* c, and what follows the token after it, joined; that may have failed.      *)
Joined(join(_, _), c, r) == IF r.at = 0 THEN Panic ELSE Result(join(c.cmd, r.cmd), r.at)

(* Mutant: what follows a bar is a line.                                      *)
parsepipe_Line(P, s, i) ==
  LET c == parseexec(P, s, i) IN
  IF peek(s, c.at, {"|"}) THEN Joined(pipecmd, c, P["line", c.at + 1]) ELSE c

parsepipe(P, s, i) ==
  LET c == parseexec(P, s, i) IN
  IF peek(s, c.at, {"|"}) THEN Joined(pipecmd, c, P["pipe", c.at + 1]) ELSE c

parseline(P, s, i) ==
  LET c == P["pipe", i]
      n == Min({n \in 0 .. Len(s) : ~peek(s, c.at + n, {"&"})})
      back[k \in 0 .. n] == IF k = 0 THEN c.cmd ELSE backcmd(back[k - 1])
      b == Result(back[n], c.at + n)
  IN  IF c.at # 0 /\ peek(s, b.at, {";"}) THEN Joined(listcmd, b, P["line", b.at + 1])
      ELSE IF c.at = 0 THEN Panic ELSE b

parsecmd(s) ==
  LET P[n \in {"line", "pipe", "args"}, i \in 1 .. Len(s) + 1] ==
        CASE n = "line" -> parseline(P, s, i)
          [] n = "pipe" -> parsepipe(P, s, i)
          [] n = "args" -> ParseArgs(P, s, i)
      r == P["line", 1]
  IN  IF r.at = Len(s) + 1 THEN r.cmd ELSE Panic.cmd

-----------------------------------------------------------------------------
(* Processes.                                                                 *)

FDs == 0 .. 4
Closed == <<>>
NoFds == [d \in FDs |-> Closed]
InitProc == -1

(* pc, what it runs, descriptors, parent, the pipe it has made, the wait()s   *)
(* it has before it and what it runs then, what is left to do of a program,   *)
(* and whether it was started by "&".                                         *)
NoProc == [pc |-> "unused", cmd |-> Panic.cmd, fds |-> NoFds, parent |-> InitProc, p |-> <<0, 0>>,
           waits |-> 0, then |-> Panic.cmd, todo |-> <<>>, bg |-> FALSE]

Close(f, S) == [d \in FDs |-> IF d \in S THEN Closed ELSE f[d]]
Lowest(f) == Min({d \in FDs : f[d] = Closed})
Open(f, x) == [f EXCEPT ![Lowest(f)] = x]

(* exit(): init, which only waits, takes over the children.                   *)
Exited(P, q) ==
  [x \in DOMAIN P |->
     CASE x = q /\ P[q].parent = InitProc -> NoProc
       [] x = q /\ P[q].parent # InitProc -> [NoProc EXCEPT !.pc = "zombie", !.parent = P[q].parent, !.bg = P[q].bg]
       [] x # q /\ P[x].parent = q /\ P[x].pc # "unused" ->
            IF P[x].pc = "zombie" THEN NoProc ELSE [P[x] EXCEPT !.parent = InitProc]
       [] OTHER -> P[x]]

(* fork1(): the child starts as the record given; without a slot, or without  *)
(* memory, panic().                                                           *)
fork1(q, child, self) ==
  LET free == {k \in Jobs : procs[k].pc = "unused"} IN
  \/ /\ free # {}
     /\ procs' = [procs EXCEPT ![Min(free)] = [child EXCEPT !.parent = q], ![q] = self]
     /\ UNCHANGED broken
  \/ procs' = Exited(procs, q) /\ broken' = TRUE

Child(q, c, f) == [NoProc EXCEPT !.pc = "run", !.cmd = c, !.fds = f, !.bg = procs[q].bg]

Runs(q, type) == procs[q].pc = "run" /\ procs[q].cmd.type = type

Init ==
  /\ line = <<>> /\ nlines = 0 /\ broken = FALSE
  /\ procs = [q \in Jobs \cup {0} |->
       IF q = 0 THEN [NoProc EXCEPT !.pc = "prompt", !.fds = [d \in FDs |-> IF d < 3 THEN <<"tty">> ELSE Closed]]
       ELSE NoProc]

(* main(): a line is read and run in a child.                                 *)
main ==
  /\ procs[0].pc = "prompt" /\ nlines < MaxLines
  /\ line' \in Lines /\ nlines' = nlines + 1
  /\ fork1(0, [Child(0, Panic.cmd, procs[0].fds) EXCEPT !.pc = "parse"],
           [procs[0] EXCEPT !.pc = "wait", !.waits = 1])

Parse(q) ==
  /\ procs[q].pc = "parse"
  /\ procs' = [procs EXCEPT ![q].pc = "run", ![q].cmd = parsecmd(line)]
  /\ UNCHANGED <<line, nlines, broken>>

(* wait(), from wherever.  The caller has a child (it would return -1).       *)
wait(q) ==
  LET kids == {k \in Jobs : procs[k].pc # "unused" /\ procs[k].parent = q}
      self == [procs[q] EXCEPT !.waits = @ - 1]
      after == CASE self.waits > 0 -> self
                 [] self.waits = 0 /\ q = 0 -> [self EXCEPT !.pc = "prompt"]
                 [] OTHER -> [self EXCEPT !.pc = "run", !.cmd = self.then]
  IN
  /\ procs[q].pc = "wait"
  /\ \E k \in kids : procs[k].pc = "zombie" /\ procs' = [procs EXCEPT ![k] = NoProc, ![q] = after]
  /\ UNCHANGED <<line, nlines, broken>>

(* runcmd() that comes to an exit(): a line that is wrong, no words, or the   *)
(* end after a pipe.                                                          *)
Exits(q) ==
  /\ Runs(q, "panic") \/ (Runs(q, "EXEC") /\ procs[q].cmd.argv = <<>>)
  /\ procs' = Exited(procs, q)
  /\ UNCHANGED <<line, nlines, broken>>

(* EXEC: a program, or no such file.                                          *)
Exec(q) ==
  /\ Runs(q, "EXEC") /\ procs[q].cmd.argv # <<>>
  /\ \/ procs' = Exited(procs, q)
     \/ \E todo \in {<<"write", "read">>, <<"read", "write">>, <<"write">>} :
          procs' = [procs EXCEPT ![q].pc = "program", ![q].todo = todo]
  /\ UNCHANGED <<line, nlines, broken>>

Redirect(q) ==
  LET c == procs[q].cmd IN
  /\ Runs(q, "REDIR")
  /\ \/ procs' = Exited(procs, q)
     \/ procs' = [procs EXCEPT ![q].fds = Open(Close(@, {c.fd}), <<"file">>), ![q].cmd = c.cmd]
  /\ UNCHANGED <<line, nlines, broken>>

List(q) ==
  LET c == procs[q].cmd IN
  /\ Runs(q, "LIST")
  /\ fork1(q, Child(q, c.left, procs[q].fds), [procs[q] EXCEPT !.pc = "wait", !.waits = 1, !.then = c.right])
  /\ UNCHANGED <<line, nlines>>

Back(q) ==
  LET c == procs[q].cmd IN
  /\ Runs(q, "BACK")
  /\ fork1(q, [Child(q, c.cmd, procs[q].fds) EXCEPT !.bg = TRUE], [procs[q] EXCEPT !.cmd = Panic.cmd])
  /\ UNCHANGED <<line, nlines>>

(* PIPE: the two ends,                                                        *)
Pipe(q) ==
  LET f == procs[q].fds
      free == {k \in ShPipes : \A x \in DOMAIN procs, d \in FDs : procs[x].fds[d] \notin {<<"r", k>>, <<"w", k>>}}
      k == Min(free)
      f1 == Open(f, <<"r", k>>)
  IN
  /\ Runs(q, "PIPE")
  /\ \/ /\ free # {}
        /\ procs' = [procs EXCEPT ![q].pc = "left", ![q].p = <<Lowest(f), Lowest(f1)>>,
                                  ![q].fds = Open(f1, <<"w", k>>)]
        /\ UNCHANGED broken
     \/ free = {} /\ procs' = Exited(procs, q) /\ broken' = TRUE
  /\ UNCHANGED <<line, nlines>>

(* dup() of the end in the place of descriptor d, and no other copies.        *)
DupEnd(f, d, p, e) == Close(Open(Close(f, {d}), f[p[e]]), {p[1], p[2]})

(* the child on the left,                                                     *)
PipeLeft(q) ==
  LET me == procs[q] IN
  /\ me.pc = "left"
  /\ fork1(q, Child(q, me.cmd.left, DupEnd(me.fds, 1, me.p, 2)), [me EXCEPT !.pc = "right"])
  /\ UNCHANGED <<line, nlines>>

(* Mutant: the parent keeps the end to write to.                              *)
BothClosed_ReadOnly(f, p) == Close(f, {p[1]})

BothClosed(f, p) == Close(f, {p[1], p[2]})

(* that on the right; then the parent closes its ends and waits for both.     *)
PipeRight(q) ==
  LET me == procs[q] IN
  /\ me.pc = "right"
  /\ fork1(q, Child(q, me.cmd.right, DupEnd(me.fds, 0, me.p, 1)),
           [me EXCEPT !.pc = "wait", !.waits = 2, !.then = Panic.cmd, !.fds = BothClosed(@, me.p)])
  /\ UNCHANGED <<line, nlines>>

(* Has a process an end of the pipe behind x open?                            *)
SomeHas(x) == \E q \in DOMAIN procs, d \in FDs : procs[q].fds[d] = x

(* A read comes to the end of the input when there is no one to write; a      *)
(* write ends when it is read, or when there is no one to read.               *)
Ready(q) ==
  LET me == procs[q]
      in == me.fds[0]
      out == me.fds[1]
  IN
  CASE Head(me.todo) = "read" /\ Len(in) = 2 -> ~SomeHas(<<"w", in[2]>>)
    [] Head(me.todo) = "write" /\ Len(out) = 2 ->
         \/ ~SomeHas(<<"r", out[2]>>)
         \/ \E r \in Jobs : /\ procs[r].pc = "program" /\ procs[r].todo # <<>> /\ Head(procs[r].todo) = "read"
                            /\ procs[r].fds[0] = <<"r", out[2]>>
    [] OTHER -> TRUE

Program(q) ==
  /\ procs[q].pc = "program"
  /\ \/ procs[q].todo # <<>> /\ Ready(q) /\ procs' = [procs EXCEPT ![q].todo = Tail(@)]
     \/ procs[q].todo = <<>> /\ procs' = Exited(procs, q)
  /\ UNCHANGED <<line, nlines, broken>>

Step(q) ==
  \/ Parse(q) \/ wait(q) \/ Exits(q) \/ Exec(q) \/ Redirect(q) \/ List(q) \/ Back(q)
  \/ Pipe(q) \/ PipeLeft(q) \/ PipeRight(q) \/ Program(q)

Next == main \/ \E q \in DOMAIN procs : Step(q)

Spec == Init /\ [][Next]_vars

-----------------------------------------------------------------------------
(* The grammar, without look-ahead: the commands that tokens i .. j make up,  *)
(* from those (G) that fewer tokens make up.                                  *)

Isredir(s, k) == s[k] \in Redirs
WordsOf(s, i, j) == {k \in i .. j : s[k] = "a" /\ ~(k > i /\ Isredir(s, k - 1))}
RedirsOf(s, i, j) ==
  LET at == SetToSortSeq({k \in i .. j : Isredir(s, k)}, <) IN [n \in DOMAIN at |-> Redir(s, at[n])]

(* Words, and redirections with their files, only.                            *)
Flat(s, i, j) == \A k \in i .. j : s[k] = "a" \/ (Isredir(s, k) /\ k < j /\ s[k + 1] = "a")

SimpleOf(G, s, i, j) ==
  {Wrapped(execcmd(SetToSortSeq(W, <)), RedirsOf(s, i, j)) :
     W \in {W \in {WordsOf(s, i, j)} : Flat(s, i, j) /\ Cardinality(W) < MaxArgs}}
  \cup
  UNION {{Wrapped(c, RedirsOf(s, k + 1, j)) : c \in G["line", i + 1, k - 1]} :
           k \in {k \in i + 1 .. j : s[i] = "(" /\ s[k] = ")" /\ Flat(s, k + 1, j) /\ WordsOf(s, k + 1, j) = {}}}

PipeOf(G, s, i, j) == SimpleOf(G, s, i, j) \cup
  UNION {{pipecmd(l, r) : l \in SimpleOf(G, s, i, k - 1), r \in G["pipe", k + 1, j]} :
           k \in {k \in i .. j : s[k] = "|"}}

BackOf(G, s, i, j) == G["pipe", i, j] \cup
  (IF i <= j /\ s[j] = "&" THEN {backcmd(c) : c \in G["back", i, j - 1]} ELSE {})

LineOf(G, s, i, j) == G["back", i, j] \cup
  UNION {{listcmd(l, r) : l \in G["back", i, k - 1], r \in G["line", k + 1, j]} :
           k \in {k \in i .. j : s[k] = ";"}}

Grammar(s) ==
  LET G[n \in {"line", "back", "pipe"}, i \in 1 .. Len(s) + 1, j \in 0 .. Len(s)] ==
        CASE n = "line" -> LineOf(G, s, i, j)
          [] n = "back" -> BackOf(G, s, i, j)
          [] n = "pipe" -> PipeOf(G, s, i, j)
  IN  G["line", 1, Len(s)]

(* parsecmd(), sh.c:327-446: a line is rejected exactly if the grammar has no *)
(* command for it, and otherwise parsed as the one command it has.            *)
Parses == (\E q \in Jobs : procs[q].pc = "parse") =>
  Grammar(line) = {parsecmd(line)} \ {Panic.cmd}

CanMove(q) ==
  LET kids == {k \in Jobs : procs[k].pc # "unused" /\ procs[k].parent = q} IN
  \/ procs[q].pc \in {"parse", "run", "left", "right"}
  \/ procs[q].pc = "program" /\ (procs[q].todo = <<>> \/ Ready(q))
  \/ procs[q].pc = "wait" /\ \E k \in kids : procs[k].pc = "zombie"

(* runcmd() and main(), sh.c:57-172: while the shell waits someone can go on  *)
(* (no reader waits for an end of a pipe that a process forgot to close), the *)
(* prompt comes back only when nothing but what "&" started is left, unless a *)
(* fork() or pipe() failed, and a program gets descriptors 0, 1 and 2 only.   *)
PromptComes ==
  /\ procs[0].pc = "wait" => \E q \in DOMAIN procs : CanMove(q)
  /\ procs[0].pc = "prompt" /\ ~broken => \A q \in Jobs : procs[q].pc # "unused" => procs[q].bg
  /\ \A q \in Jobs : procs[q].pc = "program" => {d \in FDs : procs[q].fds[d] # Closed} = {0, 1, 2}

=============================================================================
