---------------------------- MODULE ImageWriter ----------------------------
(***************************************************************************)
(* write_sectors (API.cpp): the image, written front to back after the plan*)
(* of SectorManager.                                                       *)
(*                                                                         *)
(* The image is the set of extents written so far, and the set of pointers *)
(* written in them: a pointer says that the extent `to` of node `target`   *)
(* starts at absolute sector `sector` (a block of the UDF partition counts *)
(* from part_start_loc).  A region of write_sectors is one action, each    *)
(* iteration of its loops over directories, entries and files another.     *)
(***************************************************************************)
EXTENDS SectorManager, PathTable

VARIABLES
  extents,          \* [what, node, start, len, tag] of every region written
  pointers,         \* [from, to, target, sector]
  current_sector,
  cur_spec_lba,     \* the ushort that numbers the tags of the partition
  fi_root,          \* the reused parent descriptor: its icb, its tag location
                    \*   and the icb its checksum was taken over
  entry,            \* entries of the current directory already described
  needed_memory,    \* bytes and sectors of the current directory's
  needed_sectors,   \*   file identifiers
  ident_sizes,      \* dir_file_ident_size_map
  identifiers,      \* [dir, node, tag, offset] of every file identifier
  log_block_num     \* the next directory's block, for its file entry

image == <<extents, pointers, current_sector>>
fidVars == <<fi_root, entry, needed_memory, needed_sectors, ident_sizes,
             identifiers>>
writerVars == <<image, cur_spec_lba, fidVars, log_block_num>>
plan == <<tree, order, locations, cursors, sizes>>
vars == <<plannerVars, writerVars>>

NoTag == -1
LbaMod == 65536

Init ==
  /\ PlannerInit
  /\ extents = {}
  /\ pointers = {}
  /\ current_sector = 0
  /\ cur_spec_lba = 0
  /\ fi_root = [icb |-> 0, tag |-> 0, summed |-> 0]
  /\ entry = 0
  /\ needed_memory = 0
  /\ needed_sectors = 0
  /\ ident_sizes = [d \in Directories(tree) |-> 0]
  /\ identifiers = {}
  /\ log_block_num = 0

-----------------------------------------------------------------------------
(* Sector-by-sector output.                                                *)

(* The extents of a list of <<what, sectors>>, one behind the other.       *)
Lay(list) ==
  {[what |-> list[i][1], node |-> Root, len |-> list[i][2], tag |-> NoTag,
    start |-> current_sector
                + SumFunction([j \in 1 .. (i - 1) |-> list[j][2]])]
     : i \in DOMAIN list}

Write(what, node, len, tag) ==
  /\ extents' = extents \cup {[what |-> what, node |-> node, len |-> len,
                               tag |-> tag, start |-> current_sector]}
  /\ current_sector' = current_sector + len

WriteAll(list) ==
  /\ extents' = extents \cup Lay(list)
  /\ current_sector' =
       current_sector + SumFunction([j \in DOMAIN list |-> list[j][2]])

Points(from, to, target, sector) ==
  [from |-> from, to |-> to, target |-> target, sector |-> sector]

InPartition(block) == partition_start_sector + block

GoOn(from, to) ==
  /\ step = from
  /\ step' = to

-----------------------------------------------------------------------------
(* Sectors 0 to 31: system area, ISO descriptors, UDF recognition sequence.*)
WriteSystemArea ==
  /\ GoOn("header", "volume_descriptors")
  /\ WriteAll(<<<<"reserved", 16>>, <<"iso_pvd", 1>>, <<"terminator", 1>>,
                <<"bea", 1>>, <<"nsr", 1>>, <<"tea", 1>>, <<"reserved", 11>>>>)
  /\ pointers' = pointers \cup
       {Points("iso_pvd", "records", Root, DirRecordsStart),
        Points("iso_pvd", "path_table_L", Root, 257),
        Points("iso_pvd", "path_table_opt_L", Root, 258),
        Points("iso_pvd", "path_table_M", Root, 259),
        Points("iso_pvd", "path_table_opt_M", Root, 260)}
  /\ UNCHANGED <<plan, at, cur_spec_lba, fidVars, log_block_num>>

(* The UDF volume descriptor sequence, once as main, once as reserve.      *)
WriteVolumeDescriptors ==
  /\ step = "volume_descriptors"
  /\ WriteAll(<<<<IF at = 0 THEN "main_vds" ELSE "reserve_vds", 0>>,
                <<"pvd", 1>>, <<"iuv", 1>>, <<"pd", 1>>, <<"lvd", 1>>,
                <<"usd", 1>>, <<"td", 1>>, <<"reserved", 10>>>>)
  /\ pointers' = pointers \cup
       {Points("pd", "fsd", Root, partition_start_sector),
        Points("lvd", "lvid", Root, 64)}
  /\ IF at = 0
       THEN at' = 1 /\ step' = step
       ELSE at' = 0 /\ step' = "integrity"
  /\ UNCHANGED <<plan, cur_spec_lba, fidVars, log_block_num>>

(* Fault: one reserved sector short of the anchor.                         *)
WriteIntegrityShort ==
  /\ GoOn("integrity", "anchor")
  /\ WriteAll(<<<<"lvid", 1>>, <<"td", 1>>, <<"reserved", 189>>>>)
  /\ UNCHANGED <<plan, at, pointers, cur_spec_lba, fidVars, log_block_num>>

WriteIntegrity ==
  /\ GoOn("integrity", "anchor")
  /\ WriteAll(<<<<"lvid", 1>>, <<"td", 1>>, <<"reserved", 190>>>>)
  /\ UNCHANGED <<plan, at, pointers, cur_spec_lba, fidVars, log_block_num>>

WriteAnchor ==
  /\ GoOn("anchor", "path_tables")
  /\ Write("anchor", Root, 1, NoTag)
  /\ pointers' = pointers \cup {Points("anchor", "main_vds", Root, 32),
                                Points("anchor", "reserve_vds", Root, 48)}
  /\ UNCHANGED <<plan, at, cur_spec_lba, fidVars, log_block_num>>

Table == FilledPathTable(tree, DirRecordsStart, global_sector)

(* A path table that does not fit one sector makes write_sector throw, and *)
(* nothing catches.                                                        *)
WritePathTables ==
  /\ PathTableSize(tree) <= Sector
  /\ GoOn("path_tables", "directory")
  /\ WriteAll(<<<<"path_table_L", 1>>, <<"path_table_opt_L", 1>>,
                <<"path_table_M", 1>>, <<"path_table_opt_M", 1>>>>)
  /\ LET table == Table
     IN  pointers' = pointers \cup
           {Points("path_table", "records", table[i].node, table[i].sector)
              : i \in DOMAIN table}
  /\ UNCHANGED <<plan, at, cur_spec_lba, fidVars, log_block_num>>

ThrowPathTable ==
  /\ PathTableSize(tree) > Sector
  /\ GoOn("path_tables", "terminated")
  /\ UNCHANGED <<plan, at, image, cur_spec_lba, fidVars, log_block_num>>

-----------------------------------------------------------------------------
(* The root, then the directories in the planner's order.                  *)
AllDirectories == <<Root>> \o Kept(order, Directories(tree), Len(order))
AllFiles == Kept(order, PlainFiles(tree), Len(order))

RecordsLocation(d) == IF d = Root THEN DirRecordsStart ELSE global_sector[d]

(* dir_rec_len and file_ident_len are signed chars.                        *)
SignedChar(n) == ((n + 128) % 256) - 128
DirRecLen(p) == SignedChar(RecordLen(tree, p))
FileIdentLen(p) == SignedChar(tree[p].len + IF tree[p].dir THEN 0 ELSE 2)

(* A negative length turns the strncpy of the name, or the memset behind   *)
(* it, into one of nearly 2^64 bytes; 33 bytes of the record come first.   *)
Overruns(p) == FileIdentLen(p) < 0 \/ DirRecLen(p) - 33 - FileIdentLen(p) < 0

WrittenRecordBytes(d) ==
  96 + SumFunction([p \in Children(tree, d) |-> DirRecLen(p)])

WriteDirectory ==
  /\ step = "directory"
  /\ LET d == AllDirectories[at + 1]
     IN  /\ \A p \in Children(tree, d) : ~Overruns(p)
         /\ Write("records", d, SectorsOf(WrittenRecordBytes(d)), NoTag)
         /\ pointers' = pointers \cup
              {Points(".", "records", d, RecordsLocation(d)),
               Points("..", "records", IF d = Root THEN Root ELSE Parent(d),
                      IF d = Root THEN DirRecordsStart
                                  ELSE RecordsLocation(Parent(d)))}
              \cup {Points("record", IF tree[p].dir THEN "records" ELSE "data",
                           p, global_sector[p]) : p \in Children(tree, d)}
  /\ IF at + 1 < Len(AllDirectories)
       THEN at' = at + 1 /\ step' = step
       ELSE at' = 0 /\ step' = "file_set"
  /\ UNCHANGED <<plan, cur_spec_lba, fidVars, log_block_num>>

OverrunRecord ==
  /\ GoOn("directory", "terminated")
  /\ \E p \in Children(tree, AllDirectories[at + 1]) : Overruns(p)
  /\ UNCHANGED <<plan, at, image, cur_spec_lba, fidVars, log_block_num>>

-----------------------------------------------------------------------------
(* The UDF partition: block 0 is the file set descriptor, 1 its terminator.*)
WriteFileSet ==
  /\ GoOn("file_set", "identifiers")
  /\ WriteAll(<<<<"fsd", 1>>, <<"td", 1>>>>)
  /\ pointers' = pointers \cup
       {Points("fsd", "fe", Root, InPartition(2 + FileIdentifiersAmount(tree)))}
  /\ cur_spec_lba' = 2
  /\ fi_root' = [fi_root EXCEPT !.icb = 2 + FileIdentifiersAmount(tree)]
  /\ UNCHANGED <<plan, at, entry, needed_memory, needed_sectors, ident_sizes,
                 identifiers, log_block_num>>

(* The head of the loop over directories: the tag location and the checksum*)
(* are brought up to date, then the icb.                                   *)
StartIdentifiers ==
  /\ GoOn("identifiers", "entries")
  /\ LET d == AllDirectories[at + 1]
     IN  fi_root' = [icb |-> IF d = Root THEN fi_root.icb ELSE lba[d],
                     tag |-> cur_spec_lba, summed |-> fi_root.icb]
  /\ entry' = 0
  /\ needed_memory' = FidBase
  /\ needed_sectors' = 1
  /\ UNCHANGED <<plan, at, image, cur_spec_lba, ident_sizes, identifiers,
                 log_block_num>>

Listing(t, d) ==
  [i \in 1 .. Cardinality(Children(t, d)) |-> Append(d, i)]

(* In the root directories come first; elsewhere the order is readdir's.   *)
IdentifierOrder(t, d) ==
  IF d = Root
    THEN Kept(Listing(t, d), Directories(t), Len(Listing(t, d)))
           \o Kept(Listing(t, d), PlainFiles(t), Len(Listing(t, d)))
    ELSE Listing(t, d)

Overflowing(memory, sectors) ==
  SectorsOf(memory) > sectors \/ memory \div Sector = sectors

(* Fault: a further sector of identifiers does not advance the tags.       *)
AddIdentifierUntagged ==
  /\ step = "entries"
  /\ LET d == AllDirectories[at + 1]
         p == IdentifierOrder(tree, d)[entry + 1]
         memory == needed_memory + FidLen(tree, p)
     IN  /\ entry < Len(Listing(tree, d))
         /\ needed_memory' = memory
         /\ needed_sectors' = IF Overflowing(memory, needed_sectors)
                                THEN needed_sectors + 1 ELSE needed_sectors
         /\ identifiers' = identifiers \cup
              {[dir |-> d, node |-> p, tag |-> cur_spec_lba,
                offset |-> needed_memory]}
         /\ pointers' = pointers \cup
              {Points("fid", "fe", p, InPartition(lba[p]))}
  /\ entry' = entry + 1
  /\ UNCHANGED <<plan, step, at, extents, current_sector, cur_spec_lba, fi_root,
                 ident_sizes, log_block_num>>

AddIdentifier ==
  /\ step = "entries"
  /\ LET d == AllDirectories[at + 1]
         p == IdentifierOrder(tree, d)[entry + 1]
         memory == needed_memory + FidLen(tree, p)
     IN  /\ entry < Len(Listing(tree, d))
         /\ needed_memory' = memory
         /\ IF Overflowing(memory, needed_sectors)
              THEN /\ cur_spec_lba' = (cur_spec_lba + 1) % LbaMod
                   /\ needed_sectors' = needed_sectors + 1
              ELSE UNCHANGED <<cur_spec_lba, needed_sectors>>
         /\ identifiers' = identifiers \cup
              {[dir |-> d, node |-> p, tag |-> cur_spec_lba,
                offset |-> needed_memory]}
         /\ pointers' = pointers \cup
              {Points("fid", "fe", p, InPartition(lba[p]))}
  /\ entry' = entry + 1
  /\ UNCHANGED <<plan, step, at, extents, current_sector, fi_root, ident_sizes,
                 log_block_num>>

FlushIdentifiers ==
  /\ step = "entries"
  /\ LET d == AllDirectories[at + 1]
     IN  /\ entry = Len(Listing(tree, d))
         /\ Write("fids", d, needed_sectors, fi_root.tag)
         /\ pointers' = pointers \cup
              {Points("parent_fid", "fe", d, InPartition(fi_root.icb))}
         /\ ident_sizes' = [ident_sizes EXCEPT ![d] = needed_memory]
  /\ cur_spec_lba' = (cur_spec_lba + 1) % LbaMod
  /\ IF at + 1 < Len(AllDirectories)
       THEN at' = at + 1 /\ step' = "identifiers"
       ELSE at' = 0 /\ step' = "root_entry"
  /\ UNCHANGED <<plan, fi_root, entry, needed_memory, needed_sectors,
                 identifiers, log_block_num>>

-----------------------------------------------------------------------------
(* One file entry per sector: the root, the directories, the files.        *)
WriteEntry(p, block, what) ==
  /\ Write("fe", p, 1, cur_spec_lba)
  /\ pointers' = pointers \cup {Points("fe", what, p, InPartition(block))}
  /\ cur_spec_lba' = (cur_spec_lba + 1) % LbaMod

WriteRootEntry ==
  /\ GoOn("root_entry", "directory_entries")
  /\ WriteEntry(Root, 2, "fids")
  /\ log_block_num' = 3
  /\ at' = 1
  /\ UNCHANGED <<plan, fidVars>>

(* Fault: every directory's identifiers are taken to fit one block.        *)
WriteDirectoryEntryInOne ==
  /\ step = "directory_entries"
  /\ at < Len(AllDirectories)
  /\ WriteEntry(AllDirectories[at + 1], log_block_num, "fids")
  /\ log_block_num' = log_block_num + 1
  /\ at' = at + 1
  /\ UNCHANGED <<plan, step, fidVars>>

WriteDirectoryEntry ==
  /\ step = "directory_entries"
  /\ at < Len(AllDirectories)
  /\ LET d == AllDirectories[at + 1]
     IN  /\ WriteEntry(d, log_block_num, "fids")
         /\ log_block_num' = log_block_num + SectorsOf(ident_sizes[d])
  /\ at' = at + 1
  /\ UNCHANGED <<plan, step, fidVars>>

DirectoryEntriesDone ==
  /\ GoOn("directory_entries", "file_entries")
  /\ at = Len(AllDirectories)
  /\ at' = 0
  /\ UNCHANGED <<plan, writerVars>>

WriteFileEntry ==
  /\ step = "file_entries"
  /\ at < Len(AllFiles)
  /\ WriteEntry(AllFiles[at + 1], local_sector[AllFiles[at + 1]], "data")
  /\ at' = at + 1
  /\ UNCHANGED <<plan, step, fidVars, log_block_num>>

FileEntriesDone ==
  /\ GoOn("file_entries", "data")
  /\ at = Len(AllFiles)
  /\ at' = 0
  /\ UNCHANGED <<plan, writerVars>>

(* write_file_tree, SectorManager::write_file.                             *)
WriteFileData ==
  /\ step = "data"
  /\ at < Len(AllFiles)
  /\ LET p == AllFiles[at + 1]
     IN  Write("data", p, tree[p].sectors, NoTag)
  /\ at' = at + 1
  /\ UNCHANGED <<plan, step, pointers, cur_spec_lba, fidVars, log_block_num>>

WritePads ==
  /\ GoOn("data", "end")
  /\ at = Len(AllFiles)
  /\ at' = 0
  /\ Write("pad", Root, pad_sectors, NoTag)
  /\ UNCHANGED <<plan, pointers, cur_spec_lba, fidVars, log_block_num>>

WriteEndOfSession ==
  /\ GoOn("end", "done")
  /\ Write("end_of_session", Root, 1, total_sectors - 1)
  /\ pointers' = pointers \cup {Points("end_of_session", "main_vds", Root, 32),
                                Points("end_of_session", "reserve_vds", Root, 48)}
  /\ UNCHANGED <<plan, at, cur_spec_lba, fidVars, log_block_num>>

-----------------------------------------------------------------------------
WriteSectors ==
  \/ WriteSystemArea
  \/ WriteVolumeDescriptors
  \/ WriteIntegrity
  \/ WriteAnchor
  \/ WritePathTables
  \/ ThrowPathTable
  \/ WriteDirectory
  \/ OverrunRecord
  \/ WriteFileSet
  \/ StartIdentifiers
  \/ AddIdentifier
  \/ FlushIdentifiers
  \/ WriteRootEntry
  \/ WriteDirectoryEntry
  \/ DirectoryEntriesDone
  \/ WriteFileEntry
  \/ FileEntriesDone
  \/ WriteFileData
  \/ WritePads
  \/ WriteEndOfSession

Next == (Plan /\ UNCHANGED writerVars) \/ WriteSectors

(* One thread runs the constructor and write_sectors to their end.         *)
Spec == Init /\ [][Next]_vars /\ WF_vars(Next)

Written == step = "done"

-----------------------------------------------------------------------------
(* Which trees the fixed assumptions of the layout hold for.               *)

(* Every record's length fits its signed char.                             *)
NamesFit == \A p \in Entries(tree) : RecordLen(tree, p) <= 127

(* The root's records take one sector, as `262` in the planner assumes.    *)
RootFits == NamesFit /\ RecordSectors(tree, Root) = 1

(* The root's file identifiers take one block, as `3` in the directories'  *)
(* file entries assumes.                                                   *)
RootIdsFit == FidSectors(tree, Root) = 1

(* No directory's identifiers end exactly on a sector boundary, where the  *)
(* writer takes a sector more than planned.                                *)
NoExactFit ==
  NamesFit /\ \A d \in Directories(tree) : FidBytes(tree, d) % Sector # 0

(* The volume is not a multiple of 16 sectors before padding, and its files*)
(* are less than 2^32 bytes.                                               *)
PadAssigned == (data_sector + FilesSize(tree, SectorsMod) + 1) % 16 # 0
NoWrap ==
  SumFunction([p \in PlainFiles(tree) |-> tree[p].sectors]) < SectorsMod

-----------------------------------------------------------------------------
(* The variables hold what their C++ types and the code's control flow     *)
(* allow.                                                                  *)
TypeOK ==
  /\ tree \in Trees
  /\ order \in Seq(Entries(tree))
  /\ at \in Nat
  /\ global_sector \in [Entries(tree) -> Nat]
  /\ local_sector \in [Entries(tree) -> Nat]
  /\ lba \in [Entries(tree) -> Nat]
  /\ {next_sector, next_local, next_lba, data_sector, partition_start_sector,
      total_sectors, pad_sectors, current_sector, entry, needed_memory,
      needed_sectors, log_block_num} \subseteq Nat
  /\ cur_spec_lba \in 0 .. LbaMod - 1
  /\ ident_sizes \in [Directories(tree) -> Nat]
  /\ \A e \in extents : e.start \in Nat /\ e.len \in Nat
  /\ \A q \in pointers : q.sector \in Nat /\ q.target \in DOMAIN tree

Resolves(q) ==
  \E e \in extents : e.what = q.to /\ e.node = q.target /\ e.start = q.sector

(* The fixed part of the image is where the standards and the hard-coded   *)
(* locations of write_sectors say: descriptor sequences, integrity         *)
(* sequence, anchor at 256, the four path tables, the root's records, and, *)
(* when record lengths do not wrap, the partition where the planner put it.*)
HeaderPlaced ==
  Written =>
    /\ \A q \in pointers :
         q.from \in {"iso_pvd", "lvd", "anchor", "end_of_session"} => Resolves(q)
    /\ \E e \in extents : e.what = "iso_pvd" /\ e.start = 16
    /\ \E e \in extents : e.what = "anchor" /\ e.start = 256
    /\ NamesFit =>
         \E e \in extents : e.what = "fsd" /\ e.start = partition_start_sector

(* Every directory is where the path tables, its parent's record and its   *)
(* "." and ".." say, when the root's records take one sector               *)
(* (_fill_file_sectors against the directory loop of write_sectors).       *)
DirectoriesPlaced ==
  Written /\ RootFits =>
    \A q \in pointers : q.to = "records" => Resolves(q)

(* Every file's data is where its ISO record and its UDF file entry say,   *)
(* when no directory's identifiers fill their sectors exactly.             *)
FileDataPlaced ==
  Written /\ NoExactFit =>
    \A q \in pointers : q.to = "data" => Resolves(q)

(* Every file identifier, and the file set, leads to the file entry it is  *)
(* meant for, under the same condition.                                    *)
EntriesPlaced ==
  Written /\ NoExactFit =>
    \A q \in pointers : q.to = "fe" => Resolves(q)

(* Every directory's file entry leads to its identifiers, when in addition *)
(* the root's take one block.                                              *)
IdentifiersPlaced ==
  Written /\ NoExactFit /\ RootIdsFit =>
    \A q \in pointers : q.to = "fids" => Resolves(q)

(* The image is as long as its descriptors claim and a multiple of 16      *)
(* sectors, so that the end-of-session descriptor is its last sector.      *)
VolumeSizeHolds ==
  Written /\ NoExactFit /\ PadAssigned /\ NoWrap =>
    total_sectors = current_sector /\ total_sectors % 16 = 0

FileSetStart == (CHOOSE e \in extents : e.what = "fsd").start

(* Every tag location of the partition is the block the descriptor is in,  *)
(* counted from the file set descriptor, whatever the directories' sizes   *)
(* (the increments of cur_spec_lba against those of current_sector).       *)
TagsPlaced ==
  /\ \A e \in extents :
       e.what \in {"fe", "fids"} => e.tag = (e.start - FileSetStart) % LbaMod
  /\ Written =>
       \A i \in identifiers : \E e \in extents :
         /\ e.what = "fids" /\ e.node = i.dir
         /\ i.tag = (e.start - FileSetStart + (i.offset \div Sector)) % LbaMod

PlanSteps == {"size", "sort", "place_dirs", "place_files"}

(* ISO and UDF agree on every file: once planned, its absolute sector is   *)
(* its block in the partition counted from the partition's start, which the*)
(* planner computes apart from it (SectorManager.cpp, lines 40, 63, 68).   *)
IsoUdfAgree ==
  step \notin PlanSteps =>
    \A p \in PlainFiles(tree) :
      global_sector[p] = partition_start_sector + local_sector[p]

(* The path table leads to every directory: each is listed once, its parent*)
(* number is its parent's entry, and the entries take the bytes the primary*)
(* descriptor claims (fill_path_table, API.cpp, lines 1236 to 1257, against*)
(* get_path_table_size).                                                   *)
PathTableLeads ==
  step = "path_tables" =>
    LET table == Table
    IN  /\ Len(table) = Cardinality(Directories(tree))
        /\ \A d \in Directories(tree) : \E i \in DOMAIN table :
             /\ table[i].node = d
             /\ table[i].parent \in DOMAIN table
             /\ table[table[i].parent].node = IF d = Root THEN Root ELSE Parent(d)
        /\ SumFunction([i \in DOMAIN table |-> table[i].len])
             = PathTableSize(tree)

(* Upper-casing leaves the names of sibling directories in their order.    *)
CaseKept(t) ==
  \A d \in SubDirectories(t), e \in SubDirectories(t) :
    Parent(d) = Parent(e) /\ t[d].rank < t[e].rank => t[d].upper < t[e].upper

(* Its order is the one of the planner, which sorts apart (line 1217 of    *)
(* API.cpp against SectorManager.cpp, line 186): parent numbers never      *)
(* decrease, the directories of one parent are in the order of the names   *)
(* they have in the source directory, and their records follow each other  *)
(* in the table's order.  The names written, which line 1162 turns into    *)
(* upper case after the sort, are in order only where that keeps their     *)
(* order: B and a, say, come out as B, A.                                  *)
PathTableOrdered ==
  step = "path_tables" =>
    LET table == Table
    IN  \A i \in 2 .. Len(table), j \in 2 .. Len(table) : i < j =>
          /\ table[i].parent <= table[j].parent
          /\ table[i].parent = table[j].parent =>
               /\ tree[table[i].node].rank < tree[table[j].node].rank
               /\ CaseKept(tree) => table[i].name < table[j].name
          /\ table[i].sector < table[j].sector

(* The constructor and write_sectors come to an end.                       *)
PackTerminates == <>(step \in {"done", "terminated"})

-----------------------------------------------------------------------------
(* The same claims without their conditions: what the comments of the code *)
(* state, and the code does not keep.                                      *)

(* SectorManager.h: global_sector counts "from the top of the disc".       *)
AllDirectoriesPlaced ==
  Written => \A q \in pointers : q.to = "records" => Resolves(q)

(* SectorManager.cpp: data_sector is offset "by however many header sectors*)
(* will be needed for files and directories".                              *)
AllFileDataPlaced ==
  Written => \A q \in pointers : q.to = "data" => Resolves(q)

(* SectorManager.cpp: "the amount of sectors needs to be a multiple of     *)
(* 0x10(16)".                                                              *)
VolumeIsMultipleOf16 == Written => current_sector % 16 = 0

(* API.cpp, the loop over directories: "Update root's lba and its          *)
(* checksum": a parent descriptor is written with a checksum over its icb. *)
ParentChecksum == step = "entries" => fi_root.summed = fi_root.icb
=============================================================================
