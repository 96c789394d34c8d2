---------------------------- MODULE RecordPacking ----------------------------
(***************************************************************************)
(* What ISO 9660 promises a reader of a directory: the records lie one     *)
(* behind the other, each ends in the sector it begins in, and only the end*)
(* of a sector may be left unused.                                         *)
(***************************************************************************)
EXTENDS Integers, Sequences

CONSTANTS
  Sector,       \* bytes of a sector
  Lengths,      \* lengths a record may have
  Heading       \* bytes of "." and "..", which are always there

VARIABLE packed \* [start, len] of the records, in order

End(records) ==
  IF records = <<>>
    THEN Heading
    ELSE records[Len(records)].start + records[Len(records)].len

NextSector(byte) == Sector * (byte \div Sector + 1)

InOneSector(start, len) == start \div Sector = (start + len - 1) \div Sector

Init == packed = <<>>

Place ==
  \E len \in Lengths : \E start \in {End(packed), NextSector(End(packed))} :
    /\ InOneSector(start, len)
    /\ packed' = Append(packed, [start |-> start, len |-> len])

Spec == Init /\ [][Place]_packed
=============================================================================
