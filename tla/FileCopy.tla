------------------------------ MODULE FileCopy ------------------------------
(***************************************************************************)
(* The copy of the files into the image (write_file_tree of API.cpp,       *)
(* SectorManager::write_file, set_file_buffer), after the enumeration and  *)
(* together with it: sizes are those of the lstat, bytes those of the file *)
(* when it is read, the buffer's size a global the client may set at any   *)
(* time.                                                                   *)
(*                                                                         *)
(* A byte of a file is <<path, version, position>>.  Sizes are scaled: a   *)
(* sector is Sector bytes, an int holds up to IntMax.                      *)
(***************************************************************************)
EXTENDS EnumFiles, Functions

CONSTANTS
  Sector,
  IntMax,         \* 2^31 - 1
  BufferSizes     \* what the client gives to set_file_buffer

ASSUME CopyAssumption ==
  /\ Sector \in Nat \ {0}
  /\ IntMax \in Nat /\ (IntMax + 1) % Sector = 0
  /\ BufferSizes \subseteq Nat

VARIABLES
  buffer_size,     \* ::buffer_size
  raised,          \* it was raised since read_buf was allocated
  buffer,          \* read_buf
  files,           \* sm.get_files()
  at,              \* how many of them are copied
  in_file,         \* the open file: its path, bytes to read, bytes read
  chunk,           \* write_file's parameter buffer_size
  write_left,
  overrun,         \* bytes were read past the end of read_buf
  out,             \* the bytes written behind the last file entry
  current_sector   \*   and the sectors counted for them

settings == <<buffer_size, raised>>
copyVars == <<buffer, files, at, in_file, chunk, write_left, overrun, out,
              current_sector>>
vars == <<source, step, enumVars, settings, copyVars>>

Zero == <<"zero">>
Stale == <<"stale">>     \* what new char[] leaves in the buffer
NoFile == [path |-> Root, bytes |-> <<>>, read |-> 0]

Init ==
  /\ EnumInit
  /\ buffer_size \in BufferSizes /\ raised = FALSE
  /\ buffer = <<>>
  /\ files = <<>> /\ at = 0
  /\ in_file = NoFile
  /\ chunk = 0 /\ write_left = 0
  /\ overrun = FALSE
  /\ out = <<>> /\ current_sector = 0

-----------------------------------------------------------------------------
(* Sizes in sectors.                                                       *)

(* C's remainder has the sign of the dividend.                             *)
Rem(n) == IF n >= 0 THEN n % Sector ELSE -((-n) % Sector)

(* The bytes behind a file of size n.                                      *)
Padding(n) == IF Rem(n) = 0 THEN 0 ELSE Sector - Rem(n)

Width == 2 * (IntMax + 1)
ToInt(n) == ((n + IntMax + 1) % Width) - IntMax - 1
ToUnsigned(n) == n % Width

(* Three computations of one number: the planner's, the file entry's       *)
(* log_blocks_rec (GetSectorsSpace, in an int), write_file's (ceil).       *)
PlannedSectors(n) == (n + Padding(n)) \div Sector

SectorsSpaceFloor(n) == ToUnsigned(ToInt(n) \div Sector)

SectorsSpace(n) == ToUnsigned(ToInt(n + Padding(n)) \div Sector)

Ceil(n) == -((-n) \div Sector)

-----------------------------------------------------------------------------
(* By depth, then by the names along the path (as the planner sorts them). *)
Ahead(p, q) ==
  \/ Len(p) < Len(q)
  \/ /\ Len(p) = Len(q)
     /\ \E k \in 1 .. Len(p) :
          p[k] < q[k] /\ \A j \in 1 .. k - 1 : p[j] = q[j]

ListedFiles == {p \in DOMAIN listed : ~listed[p].directory}

Plan ==
  /\ step = "plan" /\ step' = "allocate"
  /\ files' \in {order \in [1 .. Cardinality(ListedFiles) -> ListedFiles] :
                  \A i, j \in DOMAIN order : i < j => Ahead(order[i], order[j])}
  /\ UNCHANGED <<source, enumVars, settings, buffer, at, in_file, chunk,
                 write_left, overrun, out, current_sector>>

Allocate ==
  /\ step = "allocate" /\ step' = "file"
  /\ buffer' = [i \in 1 .. buffer_size |-> Stale]
  /\ raised' = FALSE
  /\ UNCHANGED <<source, enumVars, buffer_size, files, at, in_file, chunk,
                 write_left, overrun, out, current_sector>>

Bytes(d, p) == [i \in 1 .. d[p].data |-> <<p, d[p].version, i>>]
Size(i) == listed[files[i]].size

(* Fault: the size of the file is passed for that of the buffer.           *)
OpenFileWhole ==
  /\ step = "file" /\ step' = "chunk"
  /\ at + 1 \in DOMAIN files
  /\ LET p == files[at + 1]
     IN  /\ p \in DOMAIN disk
         /\ in_file' = [path |-> p, bytes |-> Bytes(disk, p), read |-> 0]
  /\ chunk' = Size(at + 1)
  /\ write_left' = Size(at + 1)
  /\ current_sector' = current_sector + Ceil(Size(at + 1))
  /\ UNCHANGED <<source, enumVars, settings, buffer, files, at, overrun, out>>

(* fopen, and the call of write_file.                                      *)
OpenFile ==
  /\ step = "file" /\ step' = "chunk"
  /\ at + 1 \in DOMAIN files
  /\ LET p == files[at + 1]
     IN  /\ p \in DOMAIN disk
         /\ in_file' = [path |-> p, bytes |-> Bytes(disk, p), read |-> 0]
  /\ chunk' = buffer_size
  /\ write_left' = Size(at + 1)
  /\ current_sector' = current_sector + Ceil(Size(at + 1))
  /\ UNCHANGED <<source, enumVars, settings, buffer, files, at, overrun, out>>

(* fread or fclose of NULL.                                                *)
FileMissing ==
  /\ step = "file" /\ step' = "terminated"
  /\ at + 1 \in DOMAIN files /\ files[at + 1] \notin DOMAIN disk
  /\ UNCHANGED <<source, enumVars, settings, copyVars>>

WriteSize == IF chunk > write_left THEN write_left ELSE chunk

(* What fread leaves in read_buf: the next bytes of the file, as many as   *)
(* there are, over what was there.                                         *)
ReadInto(size) ==
  [i \in 1 .. (IF size > Len(buffer) THEN size ELSE Len(buffer)) |->
     IF i <= size /\ in_file.read + i <= Len(in_file.bytes)
       THEN in_file.bytes[in_file.read + i]
       ELSE IF i <= Len(buffer) THEN buffer[i] ELSE Stale]

Left == IF in_file.read < Len(in_file.bytes)
          THEN Len(in_file.bytes) - in_file.read ELSE 0

(* Fault: the file is read from its start in every turn.                   *)
CopyFromStart ==
  /\ step = "chunk"
  /\ write_left > 0
  /\ buffer' = ReadInto(WriteSize)
  /\ overrun' = (overrun \/ WriteSize > Len(buffer))
  /\ out' = out \o SubSeq(buffer', 1, WriteSize)
  /\ write_left' = write_left - WriteSize
  /\ UNCHANGED <<source, step, enumVars, settings, files, at, in_file, chunk,
                 current_sector>>

(* Fault: the loop waits for the bytes it was promised.                    *)
CopyWhatWasRead ==
  /\ step = "chunk"
  /\ write_left > 0
  /\ LET got == IF WriteSize < Left THEN WriteSize ELSE Left
     IN  /\ in_file' = [in_file EXCEPT !.read = @ + got]
         /\ buffer' = ReadInto(WriteSize)
         /\ out' = out \o SubSeq(buffer', 1, got)
         /\ write_left' = write_left - got
  /\ overrun' = (overrun \/ WriteSize > Len(buffer))
  /\ UNCHANGED <<source, step, enumVars, settings, files, at, chunk,
                 current_sector>>

(* One turn of the loop; a chunk of no bytes changes nothing.              *)
CopyChunk ==
  /\ step = "chunk"
  /\ write_left > 0
  /\ in_file' = [in_file EXCEPT
                   !.read = @ + (IF WriteSize < Left THEN WriteSize ELSE Left)]
  /\ buffer' = ReadInto(WriteSize)
  /\ overrun' = (overrun \/ WriteSize > Len(buffer))
  /\ out' = out \o SubSeq(buffer', 1, WriteSize)
  /\ write_left' = write_left - WriteSize
  /\ UNCHANGED <<source, step, enumVars, settings, files, at, chunk,
                 current_sector>>

(* The heap behind read_buf was written to.                                *)
OverrunEnds ==
  /\ step \in {"chunk", "file"} /\ step' = "terminated"
  /\ overrun
  /\ UNCHANGED <<source, enumVars, settings, copyVars>>

(* Fault: the position in the list is advanced by the file and the loop.   *)
PadFileTwice ==
  /\ step = "chunk" /\ step' = "file"
  /\ write_left <= 0
  /\ out' = out \o [i \in 1 .. Padding(Size(at + 1)) |-> Zero]
  /\ in_file' = NoFile
  /\ at' = at + 2
  /\ UNCHANGED <<source, enumVars, settings, buffer, files, chunk, write_left,
                 overrun, current_sector>>

PadFile ==
  /\ step = "chunk" /\ step' = "file"
  /\ write_left <= 0
  /\ out' = out \o [i \in 1 .. Padding(Size(at + 1)) |-> Zero]
  /\ in_file' = NoFile
  /\ at' = at + 1
  /\ UNCHANGED <<source, enumVars, settings, buffer, files, chunk, write_left,
                 overrun, current_sector>>

FilesCopied ==
  /\ step = "file" /\ step' = "done"
  /\ at = Len(files)
  /\ buffer' = <<>>
  /\ UNCHANGED <<source, enumVars, settings, files, at, in_file, chunk,
                 write_left, overrun, out, current_sector>>

Pack ==
  \/ Enumerate /\ UNCHANGED <<settings, copyVars>>
  \/ Plan
  \/ Allocate
  \/ OpenFile
  \/ FileMissing
  \/ CopyChunk
  \/ OverrunEnds
  \/ PadFile
  \/ FilesCopied

-----------------------------------------------------------------------------
(* The client's thread: set_file_buffer takes no lock.                     *)
SetFileBuffer ==
  \E size \in BufferSizes :
    /\ buffer_size' = size
    /\ raised' = (raised \/ size > Len(buffer))
    /\ UNCHANGED <<source, step, enumVars, copyVars>>

(* An open file that is removed can still be read; one that is rewritten   *)
(* is read as it is now.                                                   *)
ChangeSource ==
  \/ /\ \E p \in DOMAIN disk : Remove(p)
     /\ UNCHANGED <<step, enumVars, settings, copyVars>>
  \/ /\ \E p \in DOMAIN disk, size \in Sizes :
          /\ Rewrite(p, size)
          /\ in_file' = IF p = in_file.path
                          THEN [in_file EXCEPT !.bytes = Bytes(disk', p)]
                          ELSE in_file
     /\ UNCHANGED <<step, enumVars, settings, buffer, files, at, chunk,
                    write_left, overrun, out, current_sector>>

Next ==
  \/ Pack
  \/ SetFileBuffer
  \/ ChangeSource

(* The worker thread is scheduled; nobody has to call or change anything.  *)
Spec == Init /\ [][Next]_vars /\ WF_vars(Pack)

-----------------------------------------------------------------------------
Steps == {"enum", "failed", "opendir", "readdir", "lstat", "plan", "allocate",
          "file", "chunk", "done", "terminated"}

(* The variables hold what their C++ types and the control flow allow.     *)
TypeOK ==
  /\ step \in Steps
  /\ buffer_size \in BufferSizes /\ chunk \in BufferSizes \cup {0}
  /\ step \in {"readdir", "lstat"} => open_dirs # <<>>
  /\ step \notin Enumerating => open_dirs = <<>>
  /\ \A p \in DOMAIN listed :
       /\ listed[p].size \in Int
       /\ Parent(p) = Root \/ listed[Parent(p)].directory
  /\ at \in 0 .. Len(files)
  /\ in_file.read \in Nat /\ current_sector \in Int

(* Sizes the three computations agree on: none from a failed lstat, none   *)
(* that is beyond an int in whole sectors.                                 *)
SizesInRange ==
  \A i \in DOMAIN files :
    Size(i) \in Nat /\ Size(i) + Padding(Size(i)) <= IntMax

SectorsUpTo(k) ==
  SumFunction([i \in 1 .. k |-> PlannedSectors(Size(i))])

(* After each file the image has grown by exactly the sectors the planner  *)
(* and the file entry gave it and current_sector counts, whatever became of*)
(* the file since it was listed, and whatever the buffer's size.           *)
SectorsAgree ==
  SizesInRange /\ ~overrun =>
    /\ step = "file" => /\ Len(out) = Sector * SectorsUpTo(at)
                        /\ current_sector = SectorsUpTo(at)
    /\ \A i \in DOMAIN files : SectorsSpace(Size(i)) = PlannedSectors(Size(i))

(* A file nobody changed is in the image byte for byte, from the sector it *)
(* was given and with zeros behind it, in whatever chunks it was copied and*)
(* whatever the buffer held before: what other files did does not matter.  *)
UntouchedCopied ==
  step = "file" /\ SizesInRange /\ ~overrun =>
    \A i \in 1 .. at :
      LET p == files[i]
          start == Sector * SectorsUpTo(i - 1)
      IN  p \in DOMAIN disk /\ Untouched(p) /\ disk[p].kind = "file" =>
            SubSeq(out, start + 1, Sector * SectorsUpTo(i))
              = Bytes(disk, p) \o [k \in 1 .. Padding(Size(i)) |-> Zero]

(* Nothing is read past the end of read_buf unless set_file_buffer raised  *)
(* the size while the files were copied (API.cpp, lines 1089 and 1093).    *)
OverrunOnlyIfRaised == overrun => raised

(* The copy comes to an end unless the client sets a size of 0: a chunk of *)
(* no bytes never advances write_file's loop.                              *)
CopyEnds ==
  [](buffer_size > 0) => <>(step \in {"failed", "done", "terminated"})
=============================================================================
