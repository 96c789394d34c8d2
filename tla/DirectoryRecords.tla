--------------------------- MODULE DirectoryRecords ---------------------------
(***************************************************************************)
(* The records of one directory (API.cpp): the loop that computes the      *)
(* directory's data length, the loops of fill_directory_record that add up *)
(* the buffer, and the loop that copies the records into it and pads them  *)
(* at sector boundaries.                                                   *)
(*                                                                         *)
(* The three computations are apart from one another and meet in the image:*)
(* a reader follows the length, the sectors written are the buffer's, the  *)
(* records are where the copy put them.  The length is computed at three   *)
(* places with the same loop (the directory's own ".", its children's "..",*)
(* its record in its parent), and without padding for the root.            *)
(***************************************************************************)
EXTENDS Integers, Sequences

CONSTANTS
  Sector,       \* 2048 in the code
  Listings      \* the directories: sequences of entries in readdir's order

(* fill_directory_record: even-sized name, ";1" behind a file's name.      *)
RecLen(e) == 48 + e.len - (e.len % 2) + (IF e.dir THEN 0 ELSE 2)

(* Entries whose record's length fits dir_rec_len, a signed char.          *)
LongestRecord == 127
Entry == {e \in [dir : BOOLEAN, len : Nat \ {0}] : RecLen(e) <= LongestRecord}

NavRecords == 2 * 48    \* "." and ".."

ASSUME RecordsAssumption ==
  /\ Sector \in Nat
  /\ Sector > NavRecords + LongestRecord
  /\ Listings \subseteq Seq(Entry)

VARIABLES
  listing,         \* the directory's entries
  is_root,
  step,
  index,           \* entries the current loop has passed
  dir_len, section,
  sized,           \* the offset the length loop gives each entry
  file_buf,        \* files of the root, kept back behind its directories
  dir_rec,         \* records in the order they are written
  filled,          \* needed_memory after each record of dir_rec
  needed_memory,
  needed_sectors,
  offset, prev_sec,
  starts           \* the offset each record was copied to

measuring == <<dir_len, section, sized>>
filling == <<file_buf, dir_rec, filled, needed_sectors>>
copying == <<offset, prev_sec, starts>>
vars == <<listing, is_root, step, index, measuring, filling, needed_memory,
          copying>>

Count == Len(listing)

Init ==
  /\ listing \in Listings
  /\ is_root \in BOOLEAN
  /\ step = "measure"
  /\ index = 0
  /\ dir_len = NavRecords /\ section = 1 /\ sized = <<>>
  /\ file_buf = <<>> /\ dir_rec = <<>> /\ filled = <<>> /\ needed_sectors = 0
  /\ needed_memory = NavRecords
  /\ offset = NavRecords /\ prev_sec = 0 /\ starts = <<>>

-----------------------------------------------------------------------------
(* The data length.                                                        *)

(* root_len: the sum of the records.                                       *)
MeasureRoot ==
  /\ step = "measure" /\ is_root
  /\ index < Count
  /\ dir_len' = dir_len + RecLen(listing[index + 1])
  /\ sized' = Append(sized, dir_len)
  /\ index' = index + 1
  /\ UNCHANGED <<listing, is_root, step, section, filling, needed_memory,
                 copying>>

(* Fault: no padding below the root either.                                *)
MeasureUnpadded ==
  /\ step = "measure" /\ ~is_root
  /\ index < Count
  /\ dir_len' = dir_len + RecLen(listing[index + 1])
  /\ sized' = Append(sized, dir_len)
  /\ index' = index + 1
  /\ UNCHANGED <<listing, is_root, step, section, filling, needed_memory,
                 copying>>

(* Below the root a record that would cross the end of the current section *)
(* is counted from the next sector.                                        *)
Measure ==
  /\ step = "measure" /\ ~is_root
  /\ index < Count
  /\ LET next_len == RecLen(listing[index + 1])
         crosses == dir_len + next_len > Sector * section
         at == IF crosses THEN dir_len + (Sector - (dir_len % Sector))
                          ELSE dir_len
     IN  /\ sized' = Append(sized, at)
         /\ dir_len' = at + next_len
         /\ section' = IF crosses THEN section + 1 ELSE section
  /\ index' = index + 1
  /\ UNCHANGED <<listing, is_root, step, filling, needed_memory, copying>>

Measured ==
  /\ step = "measure" /\ step' = "fill"
  /\ index = Count /\ index' = 0
  /\ UNCHANGED <<listing, is_root, measuring, filling, needed_memory, copying>>

-----------------------------------------------------------------------------
(* The records and the size of their buffer.                               *)
FillDirectoryRecord(e) ==
  /\ dir_rec' = Append(dir_rec, e)
  /\ needed_memory' = needed_memory + RecLen(e)
  /\ filled' = Append(filled, needed_memory')

(* Fault: the index is advanced by the record and again by the loop.       *)
FillEntryTwice ==
  /\ step = "fill"
  /\ index < Count
  /\ FillDirectoryRecord(listing[index + 1])
  /\ index' = index + 2
  /\ UNCHANGED <<listing, is_root, step, measuring, file_buf, needed_sectors,
                 copying>>

(* The root's files wait until its directories are filled.                 *)
FillEntry ==
  /\ step = "fill"
  /\ index < Count
  /\ LET e == listing[index + 1]
     IN  IF is_root /\ ~e.dir
           THEN /\ file_buf' = Append(file_buf, e)
                /\ UNCHANGED <<dir_rec, needed_memory, filled>>
           ELSE FillDirectoryRecord(e) /\ UNCHANGED file_buf
  /\ index' = index + 1
  /\ UNCHANGED <<listing, is_root, step, measuring, needed_sectors, copying>>

(* Fault: files are taken back before the listing has ended only.          *)
FillFileEarly ==
  /\ step = "fill"
  /\ index < Count
  /\ file_buf # <<>>
  /\ FillDirectoryRecord(Head(file_buf))
  /\ file_buf' = Tail(file_buf)
  /\ UNCHANGED <<listing, is_root, step, index, measuring, needed_sectors,
                 copying>>

FillFile ==
  /\ step = "fill"
  /\ index = Count
  /\ file_buf # <<>>
  /\ FillDirectoryRecord(Head(file_buf))
  /\ file_buf' = Tail(file_buf)
  /\ UNCHANGED <<listing, is_root, step, index, measuring, needed_sectors,
                 copying>>

SectorsOf(bytes) == (bytes + Sector - 1) \div Sector

(* Fault: the last, partial sector is not counted.                         *)
AllocateFloor ==
  /\ step = "fill" /\ step' = "write"
  /\ index = Count /\ index' = 0
  /\ file_buf = <<>>
  /\ needed_sectors' = needed_memory \div Sector
  /\ UNCHANGED <<listing, is_root, measuring, file_buf, dir_rec, filled,
                 needed_memory, copying>>

(* The buffer is sized from the records alone, before any padding.         *)
Allocate ==
  /\ step = "fill" /\ step' = "write"
  /\ index = Count /\ index' = 0
  /\ file_buf = <<>>
  /\ needed_sectors' = SectorsOf(needed_memory)
  /\ UNCHANGED <<listing, is_root, measuring, file_buf, dir_rec, filled,
                 needed_memory, copying>>

-----------------------------------------------------------------------------
(* The copy into the buffer.                                               *)

(* Fault: a sector is left out at each boundary.                           *)
NextEndsInSkipping(after) ==
  IF index + 1 = Count
    THEN prev_sec
    ELSE ((after + RecLen(dir_rec[index + 2])) \div Sector) * 2

(* The sector the next record, if any, would end in.                       *)
NextEndsIn(after) ==
  IF index + 1 = Count
    THEN prev_sec
    ELSE (after + RecLen(dir_rec[index + 2])) \div Sector

(* After each record: when the next one would reach the end of the sector, *)
(* the rest of the sector is padded.                                       *)
CopyRecord ==
  /\ step = "write"
  /\ index < Count
  /\ starts' = Append(starts, offset)
  /\ LET after == offset + RecLen(dir_rec[index + 1])
         sec == NextEndsIn(after)
     IN  IF sec > prev_sec
           THEN /\ prev_sec' = sec
                /\ offset' = Sector * sec
                /\ needed_memory' = needed_memory + (Sector * sec - after)
           ELSE /\ offset' = after
                /\ UNCHANGED <<prev_sec, needed_memory>>
  /\ index' = index + 1
  /\ UNCHANGED <<listing, is_root, step, measuring, filling>>

(* The buffer's sectors are written.                                       *)
WriteBuffer ==
  /\ step = "write" /\ step' = "done"
  /\ index = Count
  /\ UNCHANGED <<listing, is_root, index, measuring, filling, needed_memory,
                 copying>>

Next ==
  \/ MeasureRoot
  \/ Measure
  \/ Measured
  \/ FillEntry
  \/ FillFile
  \/ Allocate
  \/ CopyRecord
  \/ WriteBuffer

Spec == Init /\ [][Next]_vars /\ WF_vars(Next)

-----------------------------------------------------------------------------
(* The variables hold what their C++ types and the loops allow.            *)
TypeOK ==
  /\ listing \in Listings
  /\ is_root \in BOOLEAN
  /\ step \in {"measure", "fill", "write", "done"}
  /\ index \in 0 .. Count
  /\ dir_len \in Nat /\ section \in Nat
  /\ needed_memory \in Nat /\ needed_sectors \in Nat
  /\ offset \in Nat /\ prev_sec \in Nat
  /\ sized \in Seq(Nat) /\ starts \in Seq(Nat) /\ filled \in Seq(Nat)
  /\ dir_rec \in Seq(Entry) /\ file_buf \in Seq(Entry)

Ends(i) == starts[i] + RecLen(dir_rec[i])

(* Every record is inside the buffer that was sized before padding, when   *)
(* the records alone leave room in it for the longest padding at each      *)
(* boundary; else they are copied past its end (API.cpp, line 705).        *)
RoomForPadding ==
  filled # <<>> =>
    LET sectors == SectorsOf(filled[Count])
    IN  filled[Count] + LongestRecord * (sectors - 1) < Sector * sectors

RecordsInBuffer ==
  step \in {"write", "done"} /\ RoomForPadding =>
    \A i \in 1 .. Len(starts) : Ends(i) <= Sector * needed_sectors

(* The lengths end some record exactly on a sector boundary.               *)
ExactFit ==
  \E i \in 1 .. Len(sized) : (sized[i] + RecLen(listing[i])) % Sector = 0

(* Below the root the length loop and the copy agree on the place of every *)
(* record and on the end, unless a record fits exactly.                    *)
LengthsAgreeBelowRoot ==
  step = "done" /\ ~is_root /\ ~ExactFit => sized = starts /\ dir_len = offset

(* The data length in ".", ".." and the parent's record ends where the last*)
(* record does: below the root unless a record fits a sector exactly, in   *)
(* the root, whose length is not padded, when one sector is enough.        *)
LengthsAgree ==
  /\ LengthsAgreeBelowRoot
  /\ step = "done" /\ is_root /\ dir_len < Sector => dir_len = offset

(* Even then a reader that trusts the length misses no record, as long as  *)
(* it is not the last one that fits exactly.                               *)
LengthCovers ==
  step = "done" /\ ~is_root /\ dir_len % Sector # 0 => dir_len >= offset

(* The records copied so far, for a reader.                                *)
Records ==
  [i \in 1 .. Len(starts) |-> [start |-> starts[i], len |-> RecLen(dir_rec[i])]]

(* The records are packed as ISO 9660 says: none crosses a sector boundary,*)
(* though the copy only looks one record ahead and nobody checks the first,*)
(* and no byte is left unused but at a sector's end.                       *)
Packing == INSTANCE RecordPacking WITH
  Lengths <- 48 .. LongestRecord,
  Heading <- NavRecords,
  packed <- Records

IsPacked == Packing!Spec

(* The loops come to an end.                                               *)
RecordsWritten == <>(step = "done")
=============================================================================
