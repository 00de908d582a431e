------------------------------- MODULE MCParts -------------------------------
(* Components that share no state with one another, checked side by side: in  *)
(* a behaviour one of them moves, the one PartsInit chooses, and the others   *)
(* rest.  Spinlock is extended and not instantiated, so that its assumption,  *)
(* on which proofs rest, is evaluated.                                        *)
EXTENDS Spinlock, Integers, Sequences

CONSTANTS
  Slots, InitSlot, NPages, Pg, PTab, KTabs, KernBase, Word, KernTop, DevSpace, Deltas, Programs,
  ArgLists, MaxArg,
  Procs, FirstProc, NOFile, NFile, PipeIds,
  Writers, Inodes, Root, OpenFiles, BSize, NDirect, NMeta, NBlocks, MaxOpBlocks, Image, Counts,
  MaxWrites,
  Units, NAlloc, HeapMax,
  Lines, MaxArgs, Jobs, ShPipes, MaxLines

VARIABLES
  moves,
  nfree, state, parent, kstack, vm, sz, esp, npipe, job, astray,
  ofile, ftable, popen, iref, live, at, mine, ff,
  fsd, dino, ilocked, file, wr, logged, nwrites, spec,
  ptr, size, freep, used, brk,
  line, nlines, procs, broken

memory == <<nfree, state, parent, kstack, vm, sz, esp, npipe, job, astray>>
files == <<ofile, ftable, popen, iref, live, at, mine, ff>>
blocks == <<fsd, dino, ilocked, file, wr, logged, nwrites, spec>>
heap == <<ptr, size, freep, used, brk>>
shell == <<line, nlines, procs, broken>>

M == INSTANCE Memory
F == INSTANCE Files
B == INSTANCE Blocks
H == INSTANCE Heap
C == INSTANCE Shell

PartsInit ==
  /\ moves \in {"spinlock", "memory", "files", "blocks", "heap", "shell"}
  /\ Init /\ M!Init /\ F!Init /\ B!Init /\ H!Init /\ C!Init

SpinlockMoves == moves = "spinlock" /\ Next /\ UNCHANGED <<moves, memory, files, blocks, heap, shell>>
MemoryMoves == moves = "memory" /\ M!Next /\ UNCHANGED <<moves, vars, files, blocks, heap, shell>>
FilesMove == moves = "files" /\ F!Next /\ UNCHANGED <<moves, vars, memory, blocks, heap, shell>>
BlocksMove == moves = "blocks" /\ B!Next /\ UNCHANGED <<moves, vars, memory, files, heap, shell>>
HeapMoves == moves = "heap" /\ H!Next /\ UNCHANGED <<moves, vars, memory, files, blocks, shell>>
ShellMoves == moves = "shell" /\ C!Next /\ UNCHANGED <<moves, vars, memory, files, blocks, heap>>

PartsNext == SpinlockMoves \/ MemoryMoves \/ FilesMove \/ BlocksMove \/ HeapMoves \/ ShellMoves

(* Bounds: sizes of sbrk() that move within a page, by a page, and over one.  *)
MCDeltas == {4, -1, -3}

Seg(va, memsz, kind) == [va |-> va, memsz |-> memsz, kind |-> kind]

(* A program, and files exec() gives up on: in the middle (a segment that is  *)
(* not aligned, is short, or has a wrong header), empty, too large; and one   *)
(* with nothing to load, whose image is its stack.                            *)
MCPrograms ==
  {<<Seg(0, 1, "load"), Seg(0, 0, "note")>>, <<Seg(0, 2, "load"), Seg(1, 2, "load")>>,
   <<Seg(0, 2, "short")>>, <<Seg(0, 4, "load"), Seg(0, 1, "header")>>,
   <<Seg(0, 0, "load")>>, <<Seg(0, 12, "load")>>, <<>>}

(* Arguments that fit, fill the stack page, reach into the guard page, over   *)
(* it into the program, and around to DEVSPACE and below it.                  *)
MCArgLists == {<<>>, <<1>>, <<2>>, <<1, 2>>, <<1, 5>>, <<2, 6>>}

(* mkfs: the entries of the root directory and a file of one unit.            *)
MCImage == << <<1, 101>>, <<1, 102>>, <<1, 103>>, <<2, 50>> >>

Tokens == {"a", "<", ">", "|", "&", ";", "(", ")"}

(* Every line of up to four tokens, and longer ones: pipes, lists and         *)
(* redirections in and after blocks, in the background and beside it.         *)
MCLines ==
  UNION {[1 .. n -> Tokens] : n \in 0 .. 4} \cup
  {<<"a", "|", "a", "|", "a">>, <<"a", "&", ";", "a", "|", "a">>, <<"(", "a", ";", "a", ")", "|", "a">>,
   <<"a", "|", "a", "+", "a">>, <<"a", "<", "a", "|", "(", "a", "|", "a", ")">>,
   <<"(", "a", "|", "a", ")", "&">>, <<"(", "a", "&", ")", "|", "a">>, <<"a", ">", "a", "a", "<", "a">>,
   <<"(", "a", "&", "&", ";", ")", ">", "a">>, <<"(", "a", ")", ">", "a", "a">>}

-----------------------------------------------------------------------------
(* The properties, as the modules state them; those of Spinlock have no need  *)
(* of it.                                                                     *)

(* Memory: each page is free or has one owner, on every error path.           *)
Conserved == moves = "memory" => M!Conserved

(* Memory: what argptr(), fetchint() and copyuvm() trust to p->sz is mapped.  *)
ArgsMapped == moves = "memory" => M!ArgsMapped

(* Memory: exec() commits only a complete image with its stack above a guard. *)
ExecStack == moves = "memory" => M!ExecStack

(* Files: f->ref counts descriptors and calls under way.                      *)
FileRefs == moves = "files" => F!FileRefs

(* Files: each pipe end and each inode reference is closed once.              *)
EndsClosedOnce == moves = "files" => F!EndsClosedOnce

(* Blocks: a block in use is in one place of one file.                        *)
EachBlockOnce == moves = "blocks" => B!EachBlockOnce

(* Blocks: a file reads as what was written to it.                            *)
ReadsBack == moves = "blocks" => B!ReadsBack

(* Blocks: a chunk of filewrite() stays within MAXOPBLOCKS.                   *)
OpFits == moves = "blocks" => B!OpFits

(* Heap: malloc() and free() tile the heap, with neighbours joined.           *)
HeapTiled == moves = "heap" => H!HeapTiled

(* Shell: the parser yields the one command the grammar has for a line.       *)
Parses == moves = "shell" => C!Parses

(* Shell: the prompt comes back, and not before the foreground is done.       *)
PromptComes == moves = "shell" => C!PromptComes

=============================================================================
