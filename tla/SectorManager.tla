--------------------------- MODULE SectorManager ---------------------------
(***************************************************************************)
(* The layout planner: the constructor of SectorManager, which sizes the   *)
(* volume and assigns every directory and file its sectors before a byte is*)
(* written (SectorManager.cpp).                                            *)
(*                                                                         *)
(* The two loops of the constructor are one action per iteration, so that  *)
(* what they establish is an invariant of the loop and not a sum.          *)
(***************************************************************************)
EXTENDS FileTree

CONSTANTS
  Trees,        \* the directory trees a behaviour may start from
  SectorsMod,   \* 2^32 bytes in sectors: where get_files_size wraps
  Garbage       \* values an uninitialised pad_sectors may have

ASSUME PlannerAssumption ==
  /\ \A t \in Trees : IsTree(t)
  /\ SectorsMod \in Nat \ {0}
  /\ Garbage \subseteq Nat

VARIABLES
  tree,              \* the FileTree given to the constructor
  step,              \* where write_sectors is, the constructor included
  order,             \* file_sectors: the nodes, sorted
  at,                \* how many nodes of `order` the current loop has passed
  global_sector,     \* FileLocation of each node
  local_sector,
  lba,
  next_sector,       \* the loop variables directory_record_sector / data_sec,
  next_local,        \*   file_local_sector,
  next_lba,          \*   and dir_lba / data_lba
  data_sector,
  partition_start_sector,
  total_sectors,
  pad_sectors

locations == <<global_sector, local_sector, lba>>
cursors == <<next_sector, next_local, next_lba>>
sizes == <<data_sector, partition_start_sector, total_sectors, pad_sectors>>
plannerVars == <<tree, step, order, at, locations, cursors, sizes>>

DirRecordsStart == 261

PlannerInit ==
  /\ tree \in Trees
  /\ step = "size"
  /\ order = <<>>
  /\ at = 0
  /\ global_sector = [p \in Entries(tree) |-> 0]
  /\ local_sector = [p \in Entries(tree) |-> 0]
  /\ lba = [p \in Entries(tree) |-> 0]
  /\ next_sector = 0
  /\ next_local = 0
  /\ next_lba = 0
  /\ data_sector = DirRecordsStart
  /\ partition_start_sector = 0
  /\ total_sectors = 0
  /\ pad_sectors = 0

-----------------------------------------------------------------------------
(* Fault: the root's own file entry is not counted.                        *)
HeadWithoutRoot(t) == 1 + 1 + FileIdentifiersAmount(t) + DirAmount(t) + FileAmount(t)

(* file set descriptor, terminator, file identifiers, one file entry per   *)
(* directory (root included) and per file.                                 *)
PartitionHead(t) == 1 + 1 + FileIdentifiersAmount(t) + (DirAmount(t) + 1) + FileAmount(t)

(* Faults: the pad subtracted the wrong way round; the end-of-session      *)
(* sector not counted.                                                     *)
SizeVolumeNegated ==
  /\ step = "size"
  /\ step' = "sort"
  /\ partition_start_sector' = DirRecordsStart + DirectoryRecordsAmount(tree)
  /\ data_sector' = partition_start_sector' + PartitionHead(tree)
  /\ LET total == data_sector' + FilesSize(tree, SectorsMod) + 1
     IN  total_sectors' = total /\ pad_sectors' = (total % 16) - 16
  /\ UNCHANGED <<tree, order, at, locations, cursors>>

SizeVolumeShort ==
  /\ step = "size"
  /\ step' = "sort"
  /\ partition_start_sector' = DirRecordsStart + DirectoryRecordsAmount(tree)
  /\ data_sector' = partition_start_sector' + PartitionHead(tree)
  /\ LET total == data_sector' + FilesSize(tree, SectorsMod)
     IN  /\ total_sectors' = total + (16 - (total % 16))
         /\ pad_sectors' = 16 - (total % 16)
  /\ UNCHANGED <<tree, order, at, locations, cursors>>

(* total_sectors is rounded up to a multiple of 16; pad_sectors is only    *)
(* assigned when there is something to round.                              *)
SizeVolume ==
  /\ step = "size"
  /\ step' = "sort"
  /\ partition_start_sector' = DirRecordsStart + DirectoryRecordsAmount(tree)
  /\ data_sector' = partition_start_sector' + PartitionHead(tree)
  /\ LET total == data_sector' + FilesSize(tree, SectorsMod) + 1
     IN  IF total % 16 = 0
           THEN total_sectors' = total /\ pad_sectors' \in Garbage
           ELSE /\ total_sectors' = total + (16 - (total % 16))
                /\ pad_sectors' = 16 - (total % 16)
  /\ UNCHANGED <<tree, order, at, locations, cursors>>

(* _fill_file_sectors up to its last loop.                                 *)
SortNodes ==
  /\ step = "sort"
  /\ step' = "place_dirs"
  /\ order' = Sorted(tree)
  /\ at' = 0
  /\ next_sector' = DirRecordsStart + 1   \* the root's records: one sector
  /\ next_lba' = 3 + FileIdentifiersAmount(tree)
  /\ UNCHANGED <<tree, locations, next_local, sizes>>

Node == order[at + 1]

(* Fault: every directory's records are taken to fit one sector.           *)
PlaceDirectoryInOne ==
  /\ step = "place_dirs"
  /\ at < Len(order)
  /\ tree[Node].dir
  /\ global_sector' = [global_sector EXCEPT ![Node] = next_sector]
  /\ lba' = [lba EXCEPT ![Node] = next_lba]
  /\ next_sector' = next_sector + 1
  /\ next_lba' = next_lba + 1
  /\ at' = at + 1
  /\ UNCHANGED <<tree, step, order, local_sector, next_local, sizes>>

PlaceDirectory ==
  /\ step = "place_dirs"
  /\ at < Len(order)
  /\ tree[Node].dir
  /\ global_sector' = [global_sector EXCEPT ![Node] = next_sector]
  /\ lba' = [lba EXCEPT ![Node] = next_lba]
  /\ next_sector' = next_sector + RecordSectors(tree, Node)
  /\ next_lba' = next_lba + 1
  /\ at' = at + 1
  /\ UNCHANGED <<tree, step, order, local_sector, next_local, sizes>>

(* Fault: `continue` before the increment.                                 *)
StayAtFile ==
  /\ step = "place_dirs"
  /\ at < Len(order)
  /\ ~tree[Node].dir
  /\ UNCHANGED plannerVars

SkipFile ==
  /\ step = "place_dirs"
  /\ at < Len(order)
  /\ ~tree[Node].dir
  /\ at' = at + 1
  /\ UNCHANGED <<tree, step, order, locations, cursors, sizes>>

(* Fault: the files' entries start right behind the subdirectories'.       *)
StartFilesEarly ==
  /\ step = "place_dirs"
  /\ at = Len(order)
  /\ step' = "place_files"
  /\ at' = 0
  /\ next_sector' = data_sector
  /\ next_local' = data_sector - DirRecordsStart - DirectoryRecordsAmount(tree)
  /\ next_lba' = 2 + FileIdentifiersAmount(tree) + DirAmount(tree)
  /\ UNCHANGED <<tree, order, locations, sizes>>

StartFiles ==
  /\ step = "place_dirs"
  /\ at = Len(order)
  /\ step' = "place_files"
  /\ at' = 0
  /\ next_sector' = data_sector
  /\ next_local' = data_sector - DirRecordsStart - DirectoryRecordsAmount(tree)
  /\ next_lba' = 2 + FileIdentifiersAmount(tree) + (DirAmount(tree) + 1)
  /\ UNCHANGED <<tree, order, locations, sizes>>

(* Fault: the block in the partition does not follow the sector.           *)
PlaceFileGlobally ==
  /\ step = "place_files"
  /\ at < Len(order)
  /\ ~tree[Node].dir
  /\ global_sector' = [global_sector EXCEPT ![Node] = next_sector]
  /\ local_sector' = [local_sector EXCEPT ![Node] = next_local]
  /\ lba' = [lba EXCEPT ![Node] = next_lba]
  /\ next_sector' = next_sector + tree[Node].sectors
  /\ next_local' = next_local + 1
  /\ next_lba' = next_lba + 1
  /\ at' = at + 1
  /\ UNCHANGED <<tree, step, order, sizes>>

PlaceFile ==
  /\ step = "place_files"
  /\ at < Len(order)
  /\ ~tree[Node].dir
  /\ global_sector' = [global_sector EXCEPT ![Node] = next_sector]
  /\ local_sector' = [local_sector EXCEPT ![Node] = next_local]
  /\ lba' = [lba EXCEPT ![Node] = next_lba]
  /\ next_sector' = next_sector + tree[Node].sectors
  /\ next_local' = next_local + tree[Node].sectors
  /\ next_lba' = next_lba + 1
  /\ at' = at + 1
  /\ UNCHANGED <<tree, step, order, sizes>>

SkipDirectory ==
  /\ step = "place_files"
  /\ at < Len(order)
  /\ tree[Node].dir
  /\ at' = at + 1
  /\ UNCHANGED <<tree, step, order, locations, cursors, sizes>>

Planned ==
  /\ step = "place_files"
  /\ at = Len(order)
  /\ step' = "header"
  /\ at' = 0
  /\ UNCHANGED <<tree, order, locations, cursors, sizes>>

Plan ==
  \/ SizeVolume
  \/ SortNodes
  \/ PlaceDirectory
  \/ SkipFile
  \/ StartFiles
  \/ PlaceFile
  \/ SkipDirectory
  \/ Planned
=============================================================================
