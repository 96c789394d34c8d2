----------------------------- MODULE MCFileCopy -----------------------------
(***************************************************************************)
(* Source directories of a few entries for TLC, with sectors of 4 bytes.   *)
(***************************************************************************)
EXTENDS FileCopy, TLC

Dir == [kind |-> "directory", size |-> 4, data |-> 0, version |-> 0]
File(n) == [kind |-> "file", size |-> n, data |-> n, version |-> 0]
Link(n, target) == [kind |-> "link", size |-> n, data |-> target, version |-> 0]
Socket == [kind |-> "socket", size |-> 0, data |-> 0, version |-> 0]

(* Files that end inside, on and before a sector's end, two levels deep; a *)
(* file of the size where an int turns; a link; a socket; no directory.    *)
SomeDisks ==
  {(Root :> Dir) @@ (<<1>> :> File(5)) @@ (<<2>> :> Dir) @@ (<<2, 1>> :> File(8)),
   (Root :> Dir) @@ (<<1>> :> Dir) @@ (<<1, 1>> :> Dir) @@ (<<1, 1, 1>> :> File(3))
     @@ (<<1, 2>> :> File(0)),
   (Root :> Dir) @@ (<<2>> :> File(7)) @@ (<<1>> :> File(12)),
   (Root :> Dir) @@ (<<1>> :> File(13)),
   (Root :> Dir) @@ (<<1>> :> Link(3, 6)) @@ (<<2>> :> File(2)),
   (Root :> Dir) @@ (<<1>> :> File(1)) @@ (<<2>> :> Socket),
   [p \in {} |-> Dir]}

SomeGarbage == {-1, 6}
=============================================================================
