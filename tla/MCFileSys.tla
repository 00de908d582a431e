----------------------------- MODULE MCFileSys -----------------------------
(* Instances of FileSys.                                                    *)
EXTENDS FileSys, TLC

Rel(e) == [abs |-> FALSE, elems |-> e]
MCLinkPaths == {Rel(<<"b">>), Rel(<<"a", "b">>)}
MCPaths == {Rel(<<"a">>), Rel(<<"a", "b">>), Rel(<<"a", "b", "..">>), [abs |-> TRUE, elems |-> <<>>]}

\* Small trees, as earlier calls leave them on the disk.
Inode(t, n, e) == [type |-> t, nlink |-> n, ents |-> e @@ NoEnts]
Dir(i, up, n, e) == Inode("dir", n, e @@ ("." :> i @@ ".." :> up))
File(n) == Inode("file", n, NoEnts)
Unused == Inode("free", 0, NoEnts)

MCTrees == {
  <<Dir(1, 1, 1, "a" :> 2 @@ "b" :> 2), File(2), Unused>>,       \* a file with two names
  <<Dir(1, 1, 2, "a" :> 2), Dir(2, 1, 1, "b" :> 3), File(1)>>,   \* a/b
  <<Dir(1, 1, 2, "a" :> 2), Dir(2, 1, 2, "b" :> 3), Dir(3, 2, 1, <<>>)>> } \* a/b, a directory

Symmetry == Permutations(Procs)
=============================================================================
