-------------------------- MODULE MCDirectoryRecords --------------------------
(***************************************************************************)
(* Directories for TLC to pack.  Records have their real sizes; a sector of*)
(* 256 bytes lets a few of them meet, miss and cross several boundaries.   *)
(***************************************************************************)
EXTENDS DirectoryRecords, SequencesExt

D(len) == [dir |-> TRUE, len |-> len]
F(len) == [dir |-> FALSE, len |-> len]

(* Records of 48, 64, 112 and 126 bytes.                                   *)
Entries == {D(1), F(14), F(62), F(77)}

MaxEntries == 5

AllListings == BoundedSeq(Entries, MaxEntries)
=============================================================================
