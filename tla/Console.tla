------------------------------ MODULE Console ------------------------------
(***************************************************************************)
(* Input of the console (console.c): the ring of typed characters with its *)
(* three indices, the editing keys, the clipboard keys that xv6-ASA adds,  *)
(* and a process that reads.                                               *)
(*                                                                         *)
(* A step is one key taken by consoleintr(), or what consoleread() does    *)
(* from the time it gets cons.lock until it sleeps or returns.             *)
(***************************************************************************)
EXTENDS Naturals, Sequences, FiniteSetsExt

CONSTANTS
  INPUT_BUF,
  WORD,       \* r, w and e are unsigned words: they count modulo WORD
  Chars,      \* characters: "newline", "eof" and ordinary ones
  Controls,   \* the control keys that are pressed
  MaxN        \* bound: the most bytes a reader asks for

ASSUME ConsoleAssumption ==
  /\ INPUT_BUF \in Nat \ {0}
  /\ WORD \in Nat /\ WORD > INPUT_BUF /\ WORD % INPUT_BUF = 0
  /\ MaxN \in Nat \ {0}

NUL == "NUL"                    \* C('@')
Ending == {"newline", "eof"}

VARIABLES
  buf, r, w, e,   \* struct input
  clipboard,
  pc,             \* the reader: idle, awake in consoleread(), asleep
  n, got          \* bytes it still wants, bytes it has

ring == <<buf, r, w, e>>
reader == <<pc, n, got>>
vars == <<buf, r, w, e, clipboard, pc, n, got>>

Index == 0 .. INPUT_BUF - 1

TypeOK ==
  /\ buf \in [Index -> Chars \cup {NUL}]
  /\ {r, w, e} \subseteq 0 .. WORD - 1
  /\ clipboard \in Seq(Chars) /\ Len(clipboard) <= INPUT_BUF + 1
  /\ pc \in {"idle", "read", "sleep"}
  /\ n \in 0 .. MaxN /\ got \in 0 .. MaxN

Init ==
  /\ buf = [i \in Index |-> NUL]
  /\ r = 0 /\ w = 0 /\ e = 0
  /\ clipboard = <<>>
  /\ pc = "idle" /\ n = 0 /\ got = 0

\* Arithmetic of unsigned words.
Plus(i, k) == (i + k) % WORD
Minus(i, k) == (i + WORD - k) % WORD

At(i) == buf[i % INPUT_BUF]

\* Mutant: the reader is not woken.
Wakeup_Not == UNCHANGED reader

\* wakeup(&input.r)
Wakeup == pc' = (IF pc = "sleep" THEN "read" ELSE pc) /\ UNCHANGED <<n, got>>

----------------------------------------------------------------------------
(* consoleintr()                                                            *)

HasRoom == Minus(e, r) < INPUT_BUF

\* A newline or ^D ends the line, and so does a character that fills the ring.
HandsOver(c, e1) == c \in Ending \/ e1 = Plus(r, INPUT_BUF)

Key(c) ==
  /\ HasRoom
  /\ buf' = [buf EXCEPT ![e % INPUT_BUF] = c]
  /\ e' = Plus(e, 1)
  /\ IF HandsOver(c, e')
     THEN w' = e' /\ Wakeup
     ELSE UNCHANGED <<w, reader>>
  /\ UNCHANGED <<r, clipboard>>

\* The k last characters of the line are erased.
Erased(k) ==
  [i \in Index |-> IF \E j \in 1 .. k : Minus(e, j) % INPUT_BUF = i THEN NUL
                   ELSE buf[i]]

Backspace ==
  /\ e # w
  /\ buf' = Erased(1)
  /\ e' = Minus(e, 1)
  /\ UNCHANGED <<r, w, clipboard, reader>>

\* How many characters kill_line() erases: back to w or to a newline.
\* Mutant: it goes back to r.
KillCount_ToRead ==
  LET len == Minus(e, r)
      stop == {k \in 0 .. len - 1 : At(Minus(e, k + 1)) = "newline"}
  IN  IF stop = {} THEN len ELSE Min(stop)

KillCount ==
  LET len == Minus(e, w)
      stop == {k \in 0 .. len - 1 : At(Minus(e, k + 1)) = "newline"}
  IN  IF stop = {} THEN len ELSE Min(stop)

\* ^U
KillLine ==
  /\ buf' = Erased(KillCount)
  /\ e' = Minus(e, KillCount)
  /\ UNCHANGED <<r, w, clipboard, reader>>

\* What copy_line() copies: the characters from the start of the ring to the
\* first NUL, less the first w of them.  Without a NUL in the ring it reads on
\* into the index r behind it, whose low byte is a character x unless r is zero.
Copied(x) ==
  LET nuls == {i \in Index : buf[i] = NUL}
      last == IF nuls = {} THEN INPUT_BUF ELSE Min(nuls)
      text == [i \in 1 .. last |-> buf[i - 1]]
                \o (IF nuls = {} /\ r # 0 THEN <<x>> ELSE <<>>)
  IN  SubSeq(text, w + 1, Len(text))

\* What paste_line() pastes: the clipboard up to its NUL; a clipboard without
\* one is read on into the memory behind it.
Pasting ==
  {clipboard} \cup (IF Len(clipboard) < INPUT_BUF THEN {}
                    ELSE {Append(clipboard, x) : x \in Chars})

\* paste_line(), onto a ring b with edit index i
Pasted(b, i, text) ==
  [j \in Index |->
     LET ks == {k \in DOMAIN text : Plus(i, k - 1) % INPUT_BUF = j}
     IN  IF ks = {} THEN b[j] ELSE text[Max(ks)]]

\* ^C, ^V, ^B and ^X
Copy ==
  /\ \E x \in Chars : clipboard' = Copied(x)
  /\ UNCHANGED <<ring, reader>>

Paste ==
  /\ \E text \in Pasting : buf' = Pasted(buf, e, text) /\ e' = Plus(e, Len(text))
  /\ UNCHANGED <<r, w, clipboard, reader>>

Replace ==
  LET e1 == Minus(e, KillCount)
  IN  /\ \E text \in Pasting : /\ buf' = Pasted(Erased(KillCount), e1, text)
                               /\ e' = Plus(e1, Len(text))
      /\ UNCHANGED <<r, w, clipboard, reader>>

Cut ==
  /\ \E x \in Chars : clipboard' = Copied(x)
  /\ buf' = Erased(KillCount)
  /\ e' = Minus(e, KillCount)
  /\ UNCHANGED <<r, w, reader>>

consoleintr ==
  \/ \E c \in Chars : Key(c)
  \/ "^H" \in Controls /\ Backspace
  \/ "^U" \in Controls /\ KillLine
  \/ "^C" \in Controls /\ Copy
  \/ "^V" \in Controls /\ Paste
  \/ "^B" \in Controls /\ Replace
  \/ "^X" \in Controls /\ Cut

----------------------------------------------------------------------------
(* consoleread()                                                            *)

ReadCall ==
  /\ pc = "idle"
  /\ n' \in 1 .. MaxN
  /\ got' = 0
  /\ pc' = "read"
  /\ UNCHANGED <<ring, clipboard>>

\* The reader takes characters until it has n, or the line ends, and returns;
\* or it has taken all there are, and sleeps.  A ^D is kept for the next call
\* if there were characters before it.
consoleread ==
  LET m == Min({n, Minus(w, r)})
      ends == {i \in 1 .. m : At(Plus(r, i - 1)) \in Ending}
      k == IF ends = {} THEN m ELSE Min(ends)
      eof == ends # {} /\ At(Plus(r, k - 1)) = "eof"
  IN  /\ pc = "read"
      /\ r' = Plus(r, IF eof /\ got + k > 1 THEN k - 1 ELSE k)
      /\ IF ends = {} /\ m < n
         THEN pc' = "sleep" /\ n' = n - m /\ got' = got + m
         ELSE pc' = "idle" /\ n' = 0 /\ got' = 0
      /\ UNCHANGED <<buf, w, e, clipboard>>

\* kill() wakes a sleeping reader, which returns -1.
ReadKilled ==
  /\ pc = "sleep"
  /\ pc' = "idle" /\ n' = 0 /\ got' = 0
  /\ UNCHANGED <<ring, clipboard>>

Next == consoleintr \/ ReadCall \/ consoleread \/ ReadKilled

Spec == Init /\ [][Next]_vars

----------------------------------------------------------------------------
(* Properties.                                                              *)

Line == [i \in 1 .. Minus(e, w) |-> At(Plus(w, i - 1))]
Input == [i \in 1 .. Minus(w, r) |-> At(Plus(r, i - 1))]

Lines == INSTANCE LineInput WITH
  Size <- INPUT_BUF, line <- Line, input <- Input, clip <- clipboard

\* paste_line() has not run past the end of the ring.
Fits == Minus(w, r) + Minus(e, w) <= INPUT_BUF

\* As long as what is pasted fits, the ring with its wrapping indices is a line
\* discipline: editing never touches what was handed over to readers, nothing
\* typed is lost or reordered, and readers take it from the front.
LineDiscipline == Lines!LineInit /\ [][Fits /\ Fits' => Lines!LineStep]_vars

\* A reader sleeps only while there is nothing for it to take, whatever keys
\* are pressed between its test and its sleep.  The indices stay in their range.
NoMissedInput == TypeOK /\ (pc = "sleep" => r = w)
=============================================================================
