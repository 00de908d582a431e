----------------------------- MODULE LineInput -----------------------------
(***************************************************************************)
(* What the console promises to a reader: characters are collected in a    *)
(* line that the user can still edit; a newline, an end-of-file or a full  *)
(* buffer hands the line over, and readers take what was handed over in    *)
(* order.                                                                  *)
(***************************************************************************)
EXTENDS Naturals, Sequences

CONSTANTS Chars, Size

VARIABLES
  line,     \* the line that is being edited
  input,    \* what readers may take
  clip      \* the clipboard

LineInit == line = <<>> /\ input = <<>>

LineKey ==
  \E ch \in Chars :
    /\ Len(input) + Len(line) < Size
    /\ \/ line' = Append(line, ch) /\ input' = input
       \/ line' = <<>> /\ input' = input \o Append(line, ch)

\* The end of the line is erased.
LineErase ==
  /\ input' = input
  /\ \E n \in 0 .. Len(line) : line' = SubSeq(line, 1, n)

\* The clipboard joins the line, or replaces its end.
LinePaste ==
  /\ input' = input
  /\ \E n \in 0 .. Len(line) : line' = SubSeq(line, 1, n) \o clip
  /\ Len(input) + Len(line') <= Size

LineRead ==
  /\ line' = line
  /\ \E n \in 0 .. Len(input) : input' = SubSeq(input, n + 1, Len(input))

LineStep == LineKey \/ LineErase \/ LinePaste \/ LineRead
=============================================================================
