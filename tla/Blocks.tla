------------------------------- MODULE Blocks -------------------------------
(* What a file is made of: the free map, direct and indirect blocks (balloc,  *)
(* bfree, bmap, itrunc, readi and writei of fs.c), filewrite() above them     *)
(* (file.c) and the image mkfs.c starts from.                                 *)
(*                                                                            *)
(* A block holds BSize units; a unit is a piece of data, a directory entry or *)
(* a block number, so that an indirect block holds BSize numbers.  The inodes *)
(* and the free map are one block each (the free map of a disk of FSSIZE      *)
(* blocks is), the last ones before the data, as mkfs lays them out.          *)
EXTENDS Integers, Sequences, FiniteSets, SequencesExt

CONSTANTS
  Writers,        \* processes
  Inodes, Root,   \* the root directory and other inodes
  OpenFiles,      \* struct files
  BSize, NDirect, \* BSIZE and NDIRECT
  NMeta, NBlocks, \* first data block, FSSIZE
  MaxOpBlocks,    \* MAXOPBLOCKS
  Image,          \* what mkfs appends, in order: <<inode, unit>>
  Counts,         \* lengths of write() calls
  MaxWrites       \* bound: write() calls of a behaviour

VARIABLES
  fsd,     \* the blocks and inodes: used, data, ino
  dino,    \* the inodes on disk
  ilocked, \* inodes that are locked
  file,    \* struct file: inode (0 for none) and offset
  wr,      \* the write() of each process, NoWrite for none
  logged,  \* blocks the operation of each process has given to log_write()
  nwrites, \* calls so far, also what the next one writes
  spec     \* what each file should contain

vars == <<fsd, dino, ilocked, file, wr, logged, nwrites, spec>>

BitmapBlock == NMeta - 1
InodeBlock == NMeta - 2
Zero == [u \in 0 .. BSize - 1 |-> 0]
MaxUnits == (NDirect + BSize) * BSize
NoInode == [size |-> 0, addrs |-> [n \in 0 .. NDirect |-> 0]]
NoWrite == [f |-> 0, left |-> 0, n1 |-> 0, tot |-> -1, tag |-> 0]

(* Mutant: filewrite() counts the data blocks only.                          *)
Chunk_Whole == (MaxOpBlocks - 1) * BSize

(* filewrite(): as much as one operation of the log has room for.             *)
Chunk == ((MaxOpBlocks - 1 - 1 - 2) \div 2) * BSize

(* balloc(): the first free block, zeroed.  None free is a panic; WriteBlock  *)
(* stops before it.                                                           *)
FreeBlocks(d) == (0 .. NBlocks - 1) \ d.used

balloc(d) == CHOOSE b \in FreeBlocks(d) : \A c \in FreeBlocks(d) : b <= c

Zeroed(d, b) == [d EXCEPT !.used = @ \cup {b}, !.data[b] = Zero]

(* bmap(): the block of the file, made if there is none, with the blocks it   *)
(* has written.                                                               *)
Direct(d, i, n) ==
  IF d.ino[i].addrs[n] # 0 THEN [d |-> d, b |-> d.ino[i].addrs[n], log |-> {}]
  ELSE [d |-> [Zeroed(d, balloc(d)) EXCEPT !.ino[i].addrs[n] = balloc(d)],
        b |-> balloc(d), log |-> {BitmapBlock, balloc(d)}]

Indirect(r, n) ==
  IF r.d.data[r.b][n] # 0 THEN [r EXCEPT !.b = r.d.data[r.b][n]]
  ELSE [d |-> [Zeroed(r.d, balloc(r.d)) EXCEPT !.data[r.b][n] = balloc(r.d)],
        b |-> balloc(r.d), log |-> r.log \cup {BitmapBlock, balloc(r.d), r.b}]

bmap(d, i, bn) ==
  IF bn < NDirect THEN Direct(d, i, bn) ELSE Indirect(Direct(d, i, NDirect), bn - NDirect)

(* The blocks of a file: the data, and the indirect block with its own.       *)
BlocksOf(d, i) ==
  LET a == d.ino[i].addrs
      direct == [n \in 1 .. NDirect + 1 |-> a[n - 1]]
      indirect == IF a[NDirect] = 0 THEN <<>> ELSE [n \in 1 .. BSize |-> d.data[a[NDirect]][n - 1]]
  IN  SelectSeq(direct \o indirect, LAMBDA b : b # 0)

(* Mutant: the blocks behind the indirect one are not freed.                 *)
itrunc_DirectOnly(d, i) ==
  [d EXCEPT !.used = @ \ ToSet(SelectSeq([n \in 1 .. NDirect + 1 |-> d.ino[i].addrs[n - 1]], LAMBDA b : b # 0)),
            !.ino[i] = NoInode]

(* itrunc(): bfree() of all of them, and an empty inode, written by iupdate().*)
itrunc(d, i) == [d EXCEPT !.used = @ \ ToSet(BlocksOf(d, i)), !.ino[i] = NoInode]

(* readi(): what n units from off on are, cut at the end of the file; reading *)
(* makes no blocks where they are all there.                                  *)
readi(d, i, off, n) ==
  LET m == IF off + n > d.ino[i].size THEN d.ino[i].size - off ELSE n
      at(o) == LET r == bmap(d, i, o \div BSize) IN r.d.data[r.b][o % BSize]
  IN  IF off > d.ino[i].size THEN <<-1>> ELSE [k \in 1 .. m |-> at(off + k - 1)]

-----------------------------------------------------------------------------

(* iappend() of mkfs, one unit: it numbers blocks from nmeta on, which is     *)
(* what balloc() above finds.                                                 *)
iappend(d, u) ==
  LET off == d.ino[u[1]].size
      r == bmap(d, u[1], off \div BSize)
  IN  [r.d EXCEPT !.data[r.b][off % BSize] = u[2], !.ino[u[1]].size = off + 1]

mkfs ==
  LET empty == [used |-> 0 .. NMeta - 1, data |-> [b \in 0 .. NBlocks - 1 |-> Zero],
                ino |-> [i \in Inodes |-> NoInode]]
      d == FoldLeft(iappend, empty, Image)
  IN  [d EXCEPT !.ino[Root].size = (@ \div BSize + 1) * BSize]

Init ==
  /\ fsd = mkfs
  /\ dino = fsd.ino
  /\ ilocked = {}
  /\ file = [f \in OpenFiles |-> [ip |-> 0, off |-> 0]]
  /\ wr = [p \in Writers |-> NoWrite]
  /\ logged = [p \in Writers |-> {}]
  /\ nwrites = 0
  /\ spec = [i \in Inodes |-> readi(mkfs, i, 0, MaxUnits)]

(* A process opens a file, at offset 0, or closes one.  (Directories are      *)
(* changed by the calls of FileSys.)                                          *)
OpenClose(f) ==
  /\ \A p \in Writers : wr[p].f # f
  /\ \/ \E i \in Inodes \ {Root} : file[f].ip = 0 /\ file' = [file EXCEPT ![f] = [ip |-> i, off |-> 0]]
     \/ file[f].ip # 0 /\ file' = [file EXCEPT ![f] = [ip |-> 0, off |-> 0]]
  /\ UNCHANGED <<fsd, dino, ilocked, wr, logged, nwrites, spec>>

(* iput() of an inode without links or references.                            *)
Truncate(i) ==
  /\ i # Root /\ i \notin ilocked /\ fsd.ino[i].size > 0
  /\ \A f \in OpenFiles : file[f].ip # i
  /\ fsd' = itrunc(fsd, i)
  /\ dino' = [dino EXCEPT ![i] = fsd'.ino[i]]
  /\ spec' = [spec EXCEPT ![i] = <<>>]
  /\ UNCHANGED <<ilocked, file, wr, logged, nwrites>>

(* A process that shares the file moves the offset: fileread().               *)
fileread(f) == \E n \in Counts :
  /\ file[f].ip # 0 /\ file[f].ip \notin ilocked
  /\ file' = [file EXCEPT ![f].off = @ + Len(readi(fsd, file[f].ip, @, n))]
  /\ UNCHANGED <<fsd, dino, ilocked, wr, logged, nwrites, spec>>

(* filewrite() of n units; each call writes a value of its own.             *)
filewrite(p) == \E f \in OpenFiles, n \in Counts :
  /\ wr[p] = NoWrite /\ file[f].ip # 0 /\ nwrites < MaxWrites
  /\ nwrites' = nwrites + 1
  /\ wr' = [wr EXCEPT ![p] = [NoWrite EXCEPT !.f = f, !.left = n, !.tag = nwrites + 1]]
  /\ UNCHANGED <<fsd, dino, ilocked, file, logged, spec>>

Size(w) == IF w.left > Chunk THEN Chunk ELSE w.left

Fits(i, off, n) == off <= fsd.ino[i].size /\ off + n <= MaxUnits

(* begin_op(), ilock(), and the tests of writei(); -1 ends the call, with     *)
(* what the chunks before have written.                                       *)
WriteChunk(p) ==
  LET w == wr[p]
      i == file[w.f].ip
  IN
  /\ w # NoWrite /\ w.tot = -1 /\ i \notin ilocked
  /\ \/ /\ Fits(i, file[w.f].off, Size(w))
        /\ wr' = [wr EXCEPT ![p].n1 = Size(w), ![p].tot = 0]
        /\ ilocked' = ilocked \cup {i}
     \/ /\ ~Fits(i, file[w.f].off, Size(w))
        /\ wr' = [wr EXCEPT ![p] = NoWrite] /\ UNCHANGED ilocked
  /\ UNCHANGED <<fsd, dino, file, logged, nwrites, spec>>

(* Mutant: the end of the block is not where it is cut.                      *)
Part_Whole(off, left) == IF left < BSize THEN left ELSE BSize

(* How much of what is left of a write goes to the block of offset off.       *)
Part(off, left) == LET rest == BSize - (off % BSize) IN IF left < rest THEN left ELSE rest

(* One turn of the loop of writei().                                          *)
WriteBlock(p) ==
  LET w == wr[p]
      off == file[w.f].off + w.tot
      u0 == off % BSize
      m == Part(off, w.n1 - w.tot)
      r == bmap(fsd, file[w.f].ip, off \div BSize)
  IN
  /\ w.tot >= 0 /\ w.tot < w.n1 /\ Cardinality(FreeBlocks(fsd)) >= 2
  /\ fsd' = [r.d EXCEPT !.data[r.b] =
       [u \in 0 .. BSize - 1 |-> IF u \in u0 .. u0 + m - 1 THEN w.tag ELSE @[u]]]
  /\ wr' = [wr EXCEPT ![p].tot = @ + m]
  /\ logged' = [logged EXCEPT ![p] = @ \cup r.log \cup {r.b}]
  /\ UNCHANGED <<dino, ilocked, file, nwrites, spec>>

(* The file as it should be after units off .. off + n - 1 became v.          *)
Overwritten(s, off, n, v) ==
  [k \in 1 .. (IF off + n > Len(s) THEN off + n ELSE Len(s)) |->
     IF k \in off + 1 .. off + n THEN v ELSE s[k]]

(* The end of writei(): a file that grew gets its size and iupdate(); then    *)
(* iunlock(), end_op(), and on to the next chunk.                             *)
WriteDone(p) ==
  LET w == wr[p]
      i == file[w.f].ip
      end == file[w.f].off + w.n1
      grown == end > fsd.ino[i].size
  IN
  /\ w.tot = w.n1
  /\ fsd' = IF grown THEN [fsd EXCEPT !.ino[i].size = end] ELSE fsd
  /\ dino' = IF grown THEN [dino EXCEPT ![i] = fsd'.ino[i]] ELSE dino
  /\ logged' = [logged EXCEPT ![p] = {}]
  /\ file' = [file EXCEPT ![w.f].off = end]
  /\ ilocked' = ilocked \ {i}
  /\ spec' = [spec EXCEPT ![i] = Overwritten(@, file[w.f].off, w.n1, w.tag)]
  /\ wr' = [wr EXCEPT ![p] = IF w.left = w.n1 THEN NoWrite ELSE [@ EXCEPT !.left = @ - w.n1, !.tot = -1]]
  /\ UNCHANGED nwrites

Next ==
  \/ \E f \in OpenFiles : OpenClose(f) \/ fileread(f)
  \/ \E i \in Inodes : Truncate(i)
  \/ \E p \in Writers : filewrite(p) \/ WriteChunk(p) \/ WriteBlock(p) \/ WriteDone(p)

Spec == Init /\ [][Next]_vars

-----------------------------------------------------------------------------

(* balloc()/bfree()/itrunc(), fs.c:53-95 and 402-435: the free map marks the  *)
(* blocks before the data, and of the others exactly those in one place of    *)
(* one file, so no block has two owners, none is lost, and bfree() never      *)
(* panics; the inode on disk is that in memory whenever it is unlocked,       *)
(* although writei() writes it only when the file grows.                      *)
EachBlockOnce ==
  /\ \A i \in Inodes : Cardinality(ToSet(BlocksOf(fsd, i))) = Len(BlocksOf(fsd, i))
  /\ \A i, j \in Inodes : i # j => ToSet(BlocksOf(fsd, i)) \cap ToSet(BlocksOf(fsd, j)) = {}
  /\ fsd.used = 0 .. NMeta - 1 \cup UNION {ToSet(BlocksOf(fsd, i)) : i \in Inodes}
  /\ \A i \in Inodes \ ilocked : dino[i] = fsd.ino[i]

(* readi()/writei(), fs.c:450-511: an unlocked file reads, from everywhere    *)
(* and for every length, as what was written to it chunk by chunk, and        *)
(* reading it finds all its blocks (a read is not in an operation of the log, *)
(* so it must not make one).                                                  *)
ReadsBack == \A i \in Inodes \ ilocked :
  /\ \A off \in 0 .. Len(spec[i]) :
       readi(fsd, i, off, MaxUnits) = SubSeq(spec[i], off + 1, Len(spec[i]))
  /\ \A bn \in 0 .. NDirect + BSize - 1 : bn * BSize < fsd.ino[i].size => bmap(fsd, i, bn).d = fsd

(* filewrite(), file.c:127-133 ("write a few blocks at a time to avoid        *)
(* exceeding the maximum log transaction size"): data at any alignment, the   *)
(* indirect block, the free map and the inode stay within MAXOPBLOCKS.        *)
OpFits == \A p \in Writers : Cardinality(logged[p] \cup {InodeBlock}) <= MaxOpBlocks

=============================================================================
