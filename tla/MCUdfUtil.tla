------------------------------ MODULE MCUdfUtil ------------------------------
(***************************************************************************)
(* Names and locations for TLC: odd and even lengths, bytes of either half *)
(* of the range, a name of the longest length a byte can give and one more.*)
(***************************************************************************)
EXTENDS UdfUtil

Alphabet == {46, 65, 200}

SomeNames ==
  UNION {[1 .. n -> Alphabet] : n \in 1 .. 2}
    \cup {[i \in 1 .. n |-> 47 + i] : n \in {9, 127, 128}}

(* Four different bytes, and a number of one byte.                         *)
SomeLocations == {7, 19088743}
=============================================================================
