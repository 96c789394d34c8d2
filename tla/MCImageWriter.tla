--------------------------- MODULE MCImageWriter ---------------------------
(***************************************************************************)
(* Directory trees for TLC to lay out.  Sector sizes, record sizes and the *)
(* fixed locations are the real ones; the trees are chosen so that records *)
(* and identifiers meet, miss and cross sector boundaries.                 *)
(***************************************************************************)
EXTENDS ImageWriter, TLC

(* Names of one case, unless said otherwise.                               *)
D(rank, len) ==
  [dir |-> TRUE, rank |-> rank, upper |-> rank, len |-> len, sectors |-> 0]
F(rank, len, sectors) ==
  [dir |-> FALSE, rank |-> rank, upper |-> rank, len |-> len,
   sectors |-> sectors]

RootNode == Root :> D(0, 1)

(* n files of equal name length under directory d, listed in reverse order *)
(* of their names.                                                         *)
FlatFiles(d, n, len, sectors) ==
  [p \in {Append(d, i) : i \in 1 .. n} |->
     F(n + 1 - p[Len(p)], len, sectors)]

Empty == RootNode

(* All trees of a directory and a file in the root and up to one entry in  *)
(* the directory, listed and sorted either way.                            *)
Small ==
  {RootNode @@ (<<1>> :> D(r, 3)) @@ (<<2>> :> F(3 - r, 5, s)) @@ sub
     : r \in {1, 2}, s \in {0, 2},
       sub \in {<<1, 1>> :> F(1, 4, 1), <<1, 1>> :> D(1, 2), FlatFiles(<<1>>, 0, 1, 0)}}

(* Two levels of directories whose records and identifiers take two        *)
(* sectors, below a root that fits one.                                    *)
Deep ==
  RootNode @@ (<<1>> :> D(2, 8)) @@ (<<2>> :> D(1, 8)) @@ (<<3>> :> F(3, 9, 1))
    @@ FlatFiles(<<1>>, 17, 72, 1)
    @@ (<<2, 1>> :> D(2, 4)) @@ (<<2, 2>> :> F(1, 9, 3)) @@ (<<2, 1, 1>> :> F(1, 7, 2))

(* Two directories of the root with directories of their own, whose names  *)
(* interleave, and a third level below the second.                         *)
Branches ==
  RootNode @@ (<<1>> :> D(2, 3)) @@ (<<2>> :> D(1, 4))
    @@ (<<1, 1>> :> D(2, 5)) @@ (<<1, 2>> :> D(1, 6))
    @@ (<<2, 1>> :> D(1, 3)) @@ (<<2, 2>> :> F(2, 8, 1)) @@ (<<2, 3>> :> D(3, 7))
    @@ (<<2, 1, 1>> :> D(1, 3)) @@ (<<1, 1, 1>> :> D(2, 3)) @@ (<<1, 1, 2>> :> D(1, 2))

(* Directories B, a and b, whose names in upper case are out of order.     *)
MixedCase ==
  RootNode @@ (<<1>> :> [D(1, 1) EXCEPT !.upper = 2])
    @@ (<<2>> :> [D(2, 1) EXCEPT !.upper = 1])
    @@ (<<3>> :> [D(3, 1) EXCEPT !.upper = 2])
    @@ (<<1, 1>> :> D(2, 3)) @@ (<<1, 2>> :> D(1, 3)) @@ (<<2, 1>> :> D(1, 5))

(* A root whose identifiers take two blocks and whose records one sector.  *)
WideIds ==
  RootNode @@ FlatFiles(Root, 12, 70, 1) @@ (<<13>> :> D(13, 5))
    @@ FlatFiles(<<13>>, 1, 6, 1)

(* A root whose records take two sectors.                                  *)
WideRoot ==
  RootNode @@ FlatFiles(Root, 17, 72, 1) @@ (<<18>> :> D(18, 5))
    @@ FlatFiles(<<18>>, 1, 6, 1)

(* Identifiers that fill a sector exactly: in the root, below it, and half *)
(* way through a longer list.                                              *)
Exactly(d) ==
  FlatFiles(d, 10, 72, 1) @@ (Append(d, 11) :> F(11, 64, 1))
ExactRoot == RootNode @@ Exactly(Root)
ExactBelow == RootNode @@ (<<1>> :> D(1, 4)) @@ Exactly(<<1>>)
ExactHalfway ==
  RootNode @@ (<<1>> :> D(1, 4)) @@ Exactly(<<1>>) @@ (<<1, 12>> :> F(12, 5, 1))

(* A volume of 16n sectors before padding: one file of the right size.     *)
Aligned == {RootNode @@ FlatFiles(Root, 1, 6, s) : s \in 0 .. 15}

(* Two files of 2 GiB.                                                     *)
Huge == RootNode @@ FlatFiles(Root, 2, 6, 1048576)

(* More directories than a path table sector holds; a name of 78 bytes,    *)
(* whose record's length turns negative; names of 254, whose record's      *)
(* length is positive again.                                               *)
ManyDirectories ==
  RootNode @@ [p \in {<<i>> : i \in 1 .. 26} |-> D(p[1], 72)]
LongName == RootNode @@ FlatFiles(Root, 1, 78, 1)
LongerNames == RootNode @@ FlatFiles(Root, 17, 254, 1)

(* What an uninitialised pad_sectors may hold.                             *)
GarbagePads == {0, 5}

LayoutTrees ==
  {Empty, Deep, Branches, MixedCase, WideIds, WideRoot, ExactRoot,
   ExactBelow, ExactHalfway, Huge,
   ManyDirectories, LongName, LongerNames} \cup Small \cup Aligned

(* One kind of tree each, so that a run shows one cause.                   *)
WideRootTrees == {WideRoot} \cup Small
ExactFitTrees == {ExactBelow} \cup Small
=============================================================================
