------------------------- MODULE ImageWriter_proofs -------------------------
(***************************************************************************)
(* What write_sectors leaves in the image, for every directory tree,       *)
(* against the plan of SectorManager.                                      *)
(*                                                                         *)
(* PlanInv: ISO and UDF name the same sector for every file.  The planner  *)
(* keeps two counters while it walks its list, one from the top of the disc*)
(* and one from the start of the partition; they agree because they start  *)
(* the partition's start apart, and the list holds every file              *)
(* (SortedIsOrder).                                                        *)
(*                                                                         *)
(* PlacesInv: every directory's records, every file's data and every file  *)
(* entry is planned where the sizes of those before it in the list add up  *)
(* to.                                                                     *)
(*                                                                         *)
(* WriterInv: the writer reaches each place when it comes to write what    *)
(* belongs there (PositionInv), so that it is there (HeaderInv, RecordsInv,*)
(* PartitionInv), where the pointers say (PointersInv), with the tag that  *)
(* counts it (TagInv).                                                     *)
(***************************************************************************)
EXTENDS ImageWriter, FileTree_proofs

Agrees(p) == global_sector[p] = partition_start_sector + local_sector[p]

Numbers ==
  /\ partition_start_sector \in Int /\ data_sector \in Int
  /\ next_sector \in Int /\ next_local \in Int

Locations ==
  /\ DOMAIN global_sector = Entries(tree)
  /\ DOMAIN local_sector = Entries(tree)

Ordered == step \notin {"size", "sort"} => order = Sorted(tree)

PartitionStarts ==
  step # "size" =>
    partition_start_sector = DirRecordsStart + DirectoryRecordsAmount(tree)

Walking == step \in {"place_dirs", "place_files"} => at \in 0 .. Len(order)

CursorsAgree ==
  step = "place_files" =>
    /\ next_sector = partition_start_sector + next_local
    /\ \A i \in 1 .. at : ~tree[order[i]].dir => Agrees(order[i])

PlanInv ==
  /\ tree \in Trees
  /\ Numbers
  /\ Locations
  /\ Ordered
  /\ PartitionStarts
  /\ Walking
  /\ CursorsAgree
  /\ IsoUdfAgree

(* What a step of write_sectors leaves alone.                              *)
LEMMA WriterKeepsPlan ==
  ASSUME WriteSectors
  PROVE  plan' = plan /\ step \notin PlanSteps /\ step' \notin PlanSteps
<1>1. ASSUME WriteSystemArea \/ WriteIntegrity \/ WriteAnchor
             \/ WritePathTables \/ ThrowPathTable
      PROVE  plan' = plan /\ step \notin PlanSteps /\ step' \notin PlanSteps
  BY <1>1 DEF WriteSystemArea, WriteIntegrity, WriteAnchor, WritePathTables,
              ThrowPathTable, GoOn, PlanSteps
<1>2. ASSUME WriteVolumeDescriptors \/ WriteDirectory \/ OverrunRecord
             \/ WriteFileSet \/ StartIdentifiers \/ AddIdentifier
             \/ FlushIdentifiers
      PROVE  plan' = plan /\ step \notin PlanSteps /\ step' \notin PlanSteps
  BY <1>2 DEF WriteVolumeDescriptors, WriteDirectory, OverrunRecord,
              WriteFileSet, StartIdentifiers, AddIdentifier, FlushIdentifiers,
              GoOn, PlanSteps
<1>3. ASSUME WriteRootEntry \/ WriteDirectoryEntry \/ DirectoryEntriesDone
             \/ WriteFileEntry \/ FileEntriesDone \/ WriteFileData
             \/ WritePads \/ WriteEndOfSession
      PROVE  plan' = plan /\ step \notin PlanSteps /\ step' \notin PlanSteps
  BY <1>3 DEF WriteRootEntry, WriteDirectoryEntry, DirectoryEntriesDone,
              WriteFileEntry, FileEntriesDone, WriteFileData, WritePads,
              WriteEndOfSession, GoOn, PlanSteps
<1> QED  BY <1>1, <1>2, <1>3 DEF WriteSectors

(* The invariant holds before the plan is begun,                           *)
LEMMA PlanInvInit == Init => PlanInv
BY PlannerAssumption
   DEF Init, PlannerInit, PlanInv, Numbers, Locations, Ordered,
       PartitionStarts, Walking, CursorsAgree, IsoUdfAgree, PlanSteps,
       DirRecordsStart

(* The invariant's parts, with the tree's sizes.                           *)
LEMMA PlanFacts ==
  ASSUME PlanInv
  PROVE  /\ tree \in Trees /\ IsTree(tree)
         /\ DirectoryRecordsAmount(tree) \in Nat
         /\ PartitionHead(tree) \in Nat
         /\ partition_start_sector \in Int /\ data_sector \in Int
         /\ next_sector \in Int /\ next_local \in Int
         /\ DOMAIN global_sector = Entries(tree)
         /\ DOMAIN local_sector = Entries(tree)
<1>1. tree \in Trees /\ IsTree(tree)
  BY PlannerAssumption DEF PlanInv
<1>2. PartitionHead(tree) \in Nat
  BY <1>1, TreeSizes DEF PartitionHead
<1> QED  BY <1>1, <1>2, TreeSizes DEF PlanInv, Numbers, Locations

(* While a loop runs, the list is the sorted one and the loop is in it.    *)
LEMMA LoopFacts ==
  ASSUME PlanInv, step \in {"place_dirs", "place_files"}
  PROVE  /\ order = Sorted(tree)
         /\ order \in Seq(Entries(tree)) /\ Len(order) \in Nat
         /\ at \in Nat /\ at <= Len(order)
         /\ partition_start_sector
              = DirRecordsStart + DirectoryRecordsAmount(tree)
<1>1. order = Sorted(tree)
  BY DEF PlanInv, Ordered
<1>2. order \in Seq(Entries(tree))
  BY <1>1, PlanFacts, SortedIsOrder
<1>3. at \in 0 .. Len(order)
  BY DEF PlanInv, Walking
<1>4. partition_start_sector = DirRecordsStart + DirectoryRecordsAmount(tree)
  BY DEF PlanInv, PartitionStarts
<1>5. Len(order) \in Nat
  BY <1>2
<1>6. at \in Nat /\ at <= Len(order)
  BY <1>3, <1>5
<1> QED  BY <1>1, <1>2, <1>4, <1>5, <1>6

(* The node a loop is at is an entry of the tree.                          *)
LEMMA NodeIsEntry ==
  ASSUME PlanInv, step \in {"place_dirs", "place_files"}, at < Len(order)
  PROVE  /\ Node \in Entries(tree)
         /\ at + 1 \in 0 .. Len(order)
         /\ tree[Node].sectors \in Nat
<1>1. /\ order \in Seq(Entries(tree)) /\ Len(order) \in Nat
      /\ at \in Nat /\ at <= Len(order)
  BY LoopFacts
<1>2. at + 1 \in 1 .. Len(order)
  BY <1>1
<1>3. Node \in Entries(tree)
  BY <1>1, <1>2 DEF Node
<1>4. tree[Node] \in Attributes
  BY <1>3, PlanFacts DEF IsTree, Entries
<1> QED  BY <1>2, <1>3, <1>4 DEF Attributes

(* and every step of the planner and the writer keeps it.                  *)
LEMMA PlanInvStep == PlanInv /\ [Next]_vars => PlanInv'
<1> SUFFICES ASSUME PlanInv, [Next]_vars
             PROVE  PlanInv'
  OBVIOUS
<1>1. CASE SizeVolume
  <2>1. tree' = tree /\ step' = "sort" /\ UNCHANGED <<locations, cursors>>
    BY <1>1 DEF SizeVolume
  <2>2. /\ partition_start_sector' = DirRecordsStart + DirectoryRecordsAmount(tree)
        /\ data_sector' = partition_start_sector' + PartitionHead(tree)
    BY <1>1 DEF SizeVolume
  <2>3. Numbers'
    BY <2>1, <2>2, PlanFacts DEF Numbers, cursors, DirRecordsStart
  <2>4. Locations'
    BY <2>1, PlanFacts DEF Locations, locations
  <2>5. Ordered' /\ Walking' /\ CursorsAgree' /\ IsoUdfAgree'
    BY <2>1 DEF Ordered, Walking, CursorsAgree, IsoUdfAgree, PlanSteps
  <2>6. PartitionStarts'
    BY <2>1, <2>2 DEF PartitionStarts
  <2> QED  BY <2>1, <2>3, <2>4, <2>5, <2>6, PlanFacts DEF PlanInv
<1>2. CASE SortNodes
  <2>1. /\ step = "sort" /\ step' = "place_dirs" /\ tree' = tree
        /\ order' = Sorted(tree) /\ at' = 0
        /\ next_sector' = DirRecordsStart + 1
        /\ UNCHANGED <<locations, next_local, sizes>>
    BY <1>2 DEF SortNodes
  <2>2. Numbers'
    BY <2>1, PlanFacts DEF Numbers, sizes, DirRecordsStart
  <2>3. Locations'
    BY <2>1, PlanFacts DEF Locations, locations
  <2>4. Ordered' /\ CursorsAgree' /\ IsoUdfAgree'
    BY <2>1 DEF Ordered, CursorsAgree, IsoUdfAgree, PlanSteps
  <2>5. Walking'
    <3>1. Len(Sorted(tree)) \in Nat
      BY PlanFacts, SortedIsOrder
    <3>2. 0 \in 0 .. Len(Sorted(tree))
      BY <3>1
    <3> QED  BY <2>1, <3>2 DEF Walking
  <2>6. PartitionStarts'
    BY <2>1 DEF PlanInv, PartitionStarts, sizes
  <2> QED  BY <2>1, <2>2, <2>3, <2>4, <2>5, <2>6, PlanFacts DEF PlanInv
<1>3. CASE PlaceDirectory
  <2>1. /\ step = "place_dirs" /\ step' = step /\ tree' = tree
        /\ order' = order /\ at < Len(order) /\ at' = at + 1
        /\ global_sector' = [global_sector EXCEPT ![Node] = next_sector]
        /\ next_sector' = next_sector + RecordSectors(tree, Node)
        /\ UNCHANGED <<local_sector, next_local, sizes>>
    BY <1>3 DEF PlaceDirectory
  <2>2. RecordSectors(tree, Node) \in Nat
    BY PlanFacts, DirectorySizes
  <2>3. Numbers'
    BY <2>1, <2>2, PlanFacts DEF Numbers, sizes
  <2>4. Locations'
    BY <2>1, PlanFacts DEF Locations
  <2>5. Ordered' /\ CursorsAgree' /\ IsoUdfAgree'
    BY <2>1, LoopFacts DEF Ordered, CursorsAgree, IsoUdfAgree, PlanSteps
  <2>6. Walking'
    BY <2>1, NodeIsEntry DEF Walking
  <2>7. PartitionStarts'
    BY <2>1, LoopFacts DEF PartitionStarts, sizes
  <2> QED  BY <2>1, <2>3, <2>4, <2>5, <2>6, <2>7, PlanFacts DEF PlanInv
<1>4. CASE SkipFile
  <2>1. /\ step = "place_dirs" /\ step' = step /\ tree' = tree
        /\ order' = order /\ at < Len(order) /\ at' = at + 1
        /\ UNCHANGED <<locations, cursors, sizes>>
    BY <1>4 DEF SkipFile
  <2>2. Numbers' /\ Locations'
    BY <2>1, PlanFacts DEF Numbers, Locations, locations, cursors, sizes
  <2>3. Ordered' /\ CursorsAgree' /\ IsoUdfAgree'
    BY <2>1, LoopFacts DEF Ordered, CursorsAgree, IsoUdfAgree, PlanSteps
  <2>4. Walking'
    BY <2>1, NodeIsEntry DEF Walking
  <2>5. PartitionStarts'
    BY <2>1, LoopFacts DEF PartitionStarts, sizes
  <2> QED  BY <2>1, <2>2, <2>3, <2>4, <2>5, PlanFacts DEF PlanInv
<1>5. CASE StartFiles
  <2>1. /\ step = "place_dirs" /\ step' = "place_files" /\ tree' = tree
        /\ order' = order /\ at' = 0
        /\ next_sector' = data_sector
        /\ next_local'
             = data_sector - DirRecordsStart - DirectoryRecordsAmount(tree)
        /\ UNCHANGED <<locations, sizes>>
    BY <1>5 DEF StartFiles
  <2>2. Numbers'
    BY <2>1, PlanFacts DEF Numbers, sizes, DirRecordsStart
  <2>3. Locations'
    BY <2>1, PlanFacts DEF Locations, locations
  <2>4. Ordered' /\ IsoUdfAgree'
    BY <2>1, LoopFacts DEF Ordered, IsoUdfAgree, PlanSteps
  <2>5. Walking'
    <3>1. 0 \in 0 .. Len(order)
      BY <2>1, LoopFacts
    <3> QED  BY <2>1, <3>1 DEF Walking
  <2>6. PartitionStarts'
    BY <2>1, LoopFacts DEF PartitionStarts, sizes
  <2>7. next_sector' = partition_start_sector' + next_local'
    BY <2>1, LoopFacts, PlanFacts DEF sizes, DirRecordsStart
  <2>8. CursorsAgree'
    <3>1. \A i \in 1 .. at' : FALSE
      BY <2>1
    <3> QED  BY <2>7, <3>1 DEF CursorsAgree
  <2> QED  BY <2>1, <2>2, <2>3, <2>4, <2>5, <2>6, <2>8, PlanFacts DEF PlanInv
<1>6. CASE PlaceFile
  <2>1. /\ step = "place_files" /\ step' = step /\ tree' = tree
        /\ order' = order /\ at < Len(order) /\ at' = at + 1
        /\ global_sector' = [global_sector EXCEPT ![Node] = next_sector]
        /\ local_sector' = [local_sector EXCEPT ![Node] = next_local]
        /\ next_sector' = next_sector + tree[Node].sectors
        /\ next_local' = next_local + tree[Node].sectors
        /\ UNCHANGED sizes
    BY <1>6 DEF PlaceFile
  <2>2. Node \in Entries(tree) /\ tree[Node].sectors \in Nat
    BY <2>1, NodeIsEntry
  <2>3. /\ next_sector = partition_start_sector + next_local
        /\ \A i \in 1 .. at : ~tree[order[i]].dir => Agrees(order[i])
    BY <2>1 DEF PlanInv, CursorsAgree
  <2>4. Numbers'
    <3>1. /\ partition_start_sector' = partition_start_sector
          /\ data_sector' = data_sector
      BY <2>1 DEF sizes
    <3>2. /\ partition_start_sector \in Int /\ data_sector \in Int
          /\ next_sector \in Int /\ next_local \in Int
      BY PlanFacts
    <3>3. next_sector' \in Int /\ next_local' \in Int
      BY <2>1, <2>2, <3>2
    <3> QED  BY <3>1, <3>2, <3>3 DEF Numbers
  <2>5. Locations'
    BY <2>1, PlanFacts DEF Locations
  <2>6. Ordered' /\ IsoUdfAgree'
    BY <2>1, LoopFacts DEF Ordered, IsoUdfAgree, PlanSteps
  <2>7. Walking'
    BY <2>1, NodeIsEntry DEF Walking
  <2>8. PartitionStarts'
    BY <2>1, LoopFacts DEF PartitionStarts, sizes
  <2>9. CursorsAgree'
    <3>1. next_sector' = partition_start_sector' + next_local'
      <4>1. /\ partition_start_sector \in Int
            /\ next_sector \in Int /\ next_local \in Int
        BY PlanFacts
      <4>2. next_sector = partition_start_sector + next_local
        BY <2>3
      <4>3. partition_start_sector' = partition_start_sector
        BY <2>1 DEF sizes
      <4> QED  BY <2>1, <2>2, <4>1, <4>2, <4>3
    <3>2. partition_start_sector' = partition_start_sector
      BY <2>1 DEF sizes
    <3>3. global_sector'[Node] = next_sector /\ local_sector'[Node] = next_local
      BY <2>1, <2>2, PlanFacts
    <3>4. ASSUME NEW i \in 1 .. at + 1, ~tree[order[i]].dir
          PROVE  global_sector'[order[i]]
                   = partition_start_sector + local_sector'[order[i]]
      <4>1. CASE order[i] = Node
        BY <2>3, <3>3, <4>1
      <4>2. CASE order[i] # Node
        <5>1. at \in Nat
          BY <2>1, LoopFacts
        <5>2. i \in 1 .. at
          BY <4>2, <5>1 DEF Node
        <5>3. order[i] \in Entries(tree)
          <6>1. i \in 1 .. Len(order)
            BY <2>1, <5>1, <5>2, LoopFacts
          <6> QED  BY <2>1, <6>1, LoopFacts
        <5>4. Agrees(order[i])
          BY <2>3, <3>4, <5>2
        <5> QED  BY <2>1, <4>2, <5>3, <5>4, PlanFacts DEF Agrees
      <4> QED  BY <4>1, <4>2
    <3> QED  BY <2>1, <3>1, <3>2, <3>4 DEF CursorsAgree, Agrees
  <2> QED  BY <2>1, <2>4, <2>5, <2>6, <2>7, <2>8, <2>9, PlanFacts DEF PlanInv
<1>7. CASE SkipDirectory
  <2>1. /\ step = "place_files" /\ step' = step /\ tree' = tree
        /\ order' = order /\ at < Len(order) /\ at' = at + 1
        /\ tree[Node].dir
        /\ UNCHANGED <<locations, cursors, sizes>>
    BY <1>7 DEF SkipDirectory
  <2>2. Numbers' /\ Locations'
    BY <2>1, PlanFacts DEF Numbers, Locations, locations, cursors, sizes
  <2>3. Ordered' /\ IsoUdfAgree'
    BY <2>1, LoopFacts DEF Ordered, IsoUdfAgree, PlanSteps
  <2>4. Walking'
    BY <2>1, NodeIsEntry DEF Walking
  <2>5. PartitionStarts'
    BY <2>1, LoopFacts DEF PartitionStarts, sizes
  <2>6. CursorsAgree'
    <3>1. at \in Nat
      BY <2>1, LoopFacts
    <3>2. \A i \in 1 .. at + 1 : i \in 1 .. at \/ order[i] = Node
      BY <3>1 DEF Node
    <3>3. /\ next_sector = partition_start_sector + next_local
          /\ \A i \in 1 .. at : ~tree[order[i]].dir => Agrees(order[i])
      BY <2>1 DEF PlanInv, CursorsAgree
    <3>4. \A i \in 1 .. at + 1 : ~tree[order[i]].dir => Agrees(order[i])
      BY <2>1, <3>2, <3>3
    <3> QED
      BY <2>1, <3>3, <3>4
         DEF CursorsAgree, Agrees, locations, cursors, sizes
  <2> QED  BY <2>1, <2>2, <2>3, <2>4, <2>5, <2>6, PlanFacts DEF PlanInv
<1>8. CASE Planned
  <2>1. /\ step = "place_files" /\ step' = "header" /\ tree' = tree
        /\ order' = order /\ at = Len(order)
        /\ UNCHANGED <<locations, cursors, sizes>>
    BY <1>8 DEF Planned
  <2>2. ASSUME NEW p \in PlainFiles(tree)
        PROVE  Agrees(p)
    <3>1. p \in Entries(tree) /\ ~tree[p].dir
      BY <2>2, PlanFacts DEF PlainFiles, Directories, Entries, IsTree
    <3>2. /\ order[Place(tree, p) + 1] = p
          /\ Len(order) = Cardinality(Entries(tree))
      BY <2>1, <3>1, LoopFacts, PlanFacts, SortedIsOrder
    <3>3. Place(tree, p) + 1 \in 1 .. at
      BY <2>1, <3>1, <3>2, PlanFacts, PlaceBounds
    <3>4. \A i \in 1 .. at : ~tree[order[i]].dir => Agrees(order[i])
      BY <2>1 DEF PlanInv, CursorsAgree
    <3> QED  BY <3>1, <3>2, <3>3, <3>4
  <2>3. Numbers' /\ Locations'
    BY <2>1, PlanFacts DEF Numbers, Locations, locations, cursors, sizes
  <2>4. Ordered' /\ Walking' /\ CursorsAgree'
    BY <2>1, LoopFacts DEF Ordered, Walking, CursorsAgree
  <2>5. PartitionStarts'
    BY <2>1, LoopFacts DEF PartitionStarts, sizes
  <2>6. IsoUdfAgree'
    BY <2>1, <2>2 DEF IsoUdfAgree, Agrees, locations, sizes
  <2> QED  BY <2>1, <2>3, <2>4, <2>5, <2>6, PlanFacts DEF PlanInv
<1>9. CASE WriteSectors
  <2>1. /\ tree' = tree /\ order' = order
        /\ UNCHANGED <<locations, cursors, sizes>>
        /\ step \notin PlanSteps /\ step' \notin PlanSteps
    BY <1>9, WriterKeepsPlan DEF plan
  <2>2. Numbers' /\ Locations'
    BY <2>1, PlanFacts DEF Numbers, Locations, locations, cursors, sizes
  <2>3. Ordered' /\ Walking' /\ CursorsAgree'
    BY <2>1 DEF PlanInv, Ordered, Walking, CursorsAgree, PlanSteps
  <2>4. PartitionStarts'
    BY <2>1 DEF PlanInv, PartitionStarts, PlanSteps, sizes
  <2>5. IsoUdfAgree'
    BY <2>1 DEF PlanInv, IsoUdfAgree, locations, sizes
  <2> QED  BY <2>1, <2>2, <2>3, <2>4, <2>5, PlanFacts DEF PlanInv
<1>10. CASE UNCHANGED vars
  <2>1. /\ tree' = tree /\ order' = order /\ step' = step /\ at' = at
        /\ UNCHANGED <<locations, cursors, sizes>>
    BY <1>10 DEF vars, plannerVars
  <2>2. Numbers' /\ Locations'
    BY <2>1, PlanFacts DEF Numbers, Locations, locations, cursors, sizes
  <2>3. Ordered' /\ Walking'
    BY <2>1 DEF PlanInv, Ordered, Walking
  <2>4. PartitionStarts'
    BY <2>1 DEF PlanInv, PartitionStarts, sizes
  <2>5. CursorsAgree' /\ IsoUdfAgree'
    BY <2>1 DEF PlanInv, CursorsAgree, IsoUdfAgree, Agrees, locations,
                cursors, sizes
  <2> QED  BY <2>1, <2>2, <2>3, <2>4, <2>5, PlanFacts DEF PlanInv
<1> QED
  BY <1>1, <1>2, <1>3, <1>4, <1>5, <1>6, <1>7, <1>8, <1>9, <1>10
     DEF Next, Plan

(* Planner: for every tree, once the plan is made, the sector of each      *)
(* file's ISO record is the block of its UDF file entry.                   *)
THEOREM IsoAndUdfAgree == Spec => []IsoUdfAgree
<1>1. PlanInv => IsoUdfAgree
  BY DEF PlanInv
<1> QED  BY <1>1, PlanInvInit, PlanInvStep, PTL DEF Spec
-----------------------------------------------------------------------------
(* Where the plan puts everything: the k-th subdirectory's records and file*)
(* entry, the k-th file's data and file entry.                             *)
DirectoryPlanned(k) ==
  LET d == DirOrder(tree)[k + 1]
  IN  /\ global_sector[d] = DirRecordsStart + 1
                              + (RecordsTo(tree, k) - RecordSectors(tree, Root))
      /\ lba[d] = 3 + FileIdentifiersAmount(tree) + (k - 1)

FilePlanned(k) ==
  LET p == FileOrder(tree)[k]
  IN  /\ global_sector[p] = data_sector + DataTo(tree, k - 1)
      /\ lba[p] = 2 + FileIdentifiersAmount(tree) + (DirAmount(tree) + 1) + (k - 1)

(* How many of the two the loops have passed.                              *)
DirectoriesPassed == Len(Kept(order, Directories(tree), at))
FilesPassed == Len(Kept(order, PlainFiles(tree), at))

PlacingDirectories ==
  step = "place_dirs" =>
    /\ next_sector = DirRecordsStart + 1
         + (RecordsTo(tree, DirectoriesPassed + 1) - RecordSectors(tree, Root))
    /\ next_lba = 3 + FileIdentifiersAmount(tree) + DirectoriesPassed
    /\ \A k \in 1 .. DirectoriesPassed : DirectoryPlanned(k)

DirectoriesPlanned ==
  step \notin {"size", "sort", "place_dirs"} =>
    \A k \in 1 .. DirAmount(tree) : DirectoryPlanned(k)

PlacingFiles ==
  step = "place_files" =>
    /\ next_sector = data_sector + DataTo(tree, FilesPassed)
    /\ next_lba = 2 + FileIdentifiersAmount(tree) + (DirAmount(tree) + 1)
                    + FilesPassed
    /\ \A k \in 1 .. FilesPassed : FilePlanned(k)

FilesPlanned ==
  step \notin PlanSteps => \A k \in 1 .. FileAmount(tree) : FilePlanned(k)

VolumeSized ==
  step # "size" =>
    /\ data_sector = partition_start_sector + PartitionHead(tree)
    /\ LET total == data_sector + FilesSize(tree, SectorsMod) + 1
       IN  IF total % 16 = 0
             THEN total_sectors = total /\ pad_sectors \in Garbage
             ELSE /\ total_sectors = total + (16 - (total % 16))
                  /\ pad_sectors = 16 - (total % 16)

PlanTypes ==
  /\ global_sector \in [Entries(tree) -> Nat]
  /\ local_sector \in [Entries(tree) -> Nat]
  /\ lba \in [Entries(tree) -> Nat]
  /\ next_sector \in Nat /\ next_local \in Nat /\ next_lba \in Nat
  /\ data_sector \in Nat /\ partition_start_sector \in Nat
  /\ total_sectors \in Nat /\ pad_sectors \in Nat

PlacesInv ==
  /\ PlacingDirectories
  /\ DirectoriesPlanned
  /\ PlacingFiles
  /\ FilesPlanned
  /\ VolumeSized
  /\ PlanTypes

(* Before the plan nothing is claimed,                                     *)
LEMMA PlacesInvInit == Init => PlacesInv
<1> SUFFICES ASSUME Init PROVE PlacesInv
  OBVIOUS
<1>1. step = "size"
  BY DEF Init, PlannerInit
<1>2. PlanTypes
  BY DEF Init, PlannerInit, PlanTypes, DirRecordsStart
<1>3. /\ PlacingDirectories /\ DirectoriesPlanned /\ PlacingFiles
      /\ FilesPlanned /\ VolumeSized
  BY <1>1 DEF PlacingDirectories, DirectoriesPlanned, PlacingFiles,
              FilesPlanned, VolumeSized, PlanSteps
<1> QED  BY <1>2, <1>3 DEF PlacesInv

(* a step that keeps the plan's variables keeps what it claims.            *)
LEMMA PlacesStay ==
  ASSUME PlacesInv, plan' = plan,
         \/ step' = step /\ at' = at
         \/ step \notin PlanSteps /\ step' \notin PlanSteps
  PROVE  PlacesInv'
<1>1. /\ tree' = tree /\ order' = order /\ global_sector' = global_sector
      /\ local_sector' = local_sector /\ lba' = lba
      /\ next_sector' = next_sector /\ next_local' = next_local
      /\ next_lba' = next_lba /\ data_sector' = data_sector
      /\ partition_start_sector' = partition_start_sector
      /\ total_sectors' = total_sectors /\ pad_sectors' = pad_sectors
  BY DEF plan, locations, cursors, sizes
<1>2. \A k : DirectoryPlanned(k) <=> DirectoryPlanned(k)'
  BY <1>1 DEF DirectoryPlanned
<1>3. \A k : FilePlanned(k) <=> FilePlanned(k)'
  BY <1>1 DEF FilePlanned
<1>4. PlanTypes'
  BY <1>1 DEF PlacesInv, PlanTypes, PlanSteps
<1>5. VolumeSized'
  BY <1>1 DEF PlacesInv, VolumeSized, PlanSteps
<1>6. DirectoriesPlanned' /\ FilesPlanned'
  BY <1>1, <1>2, <1>3 DEF PlacesInv, DirectoriesPlanned, FilesPlanned, PlanSteps
<1>7. PlacingDirectories' /\ PlacingFiles'
  <2>1. CASE step' = step /\ at' = at
    <3>1. DirectoriesPassed' = DirectoriesPassed /\ FilesPassed' = FilesPassed
      BY <1>1, <2>1 DEF DirectoriesPassed, FilesPassed
    <3> QED
      BY <1>1, <1>2, <1>3, <2>1, <3>1
         DEF PlacesInv, PlacingDirectories, PlacingFiles
  <2>2. CASE step' \notin PlanSteps
    BY <2>2 DEF PlacingDirectories, PlacingFiles, PlanSteps
  <2> QED  BY <2>1, <2>2
<1> QED  BY <1>4, <1>5, <1>6, <1>7 DEF PlacesInv
(* A loop that passes a directory passes the next in the directories'      *)
(* order,                                                                  *)
LEMMA PassDirectory ==
  ASSUME PlanInv, step \in {"place_dirs", "place_files"}, at < Len(order)
  PROVE  /\ DirectoriesPassed \in Nat
         /\ tree[Node].dir =>
              /\ Len(Kept(order, Directories(tree), at + 1))
                   = DirectoriesPassed + 1
              /\ DirectoriesPassed + 1 <= DirAmount(tree)
              /\ DirOrder(tree)[DirectoriesPassed + 2] = Node
         /\ ~tree[Node].dir =>
              Len(Kept(order, Directories(tree), at + 1)) = DirectoriesPassed
<1> DEFINE D == Directories(tree)
           k == Len(Kept(order, D, at))
           m == Len(Kept(order, D, at + 1))
           K == Kept(order, D, Len(order))
<1>1. order = Sorted(tree) /\ order \in Seq(Entries(tree)) /\ at \in Nat
  BY LoopFacts
<1>2. /\ k \in Nat
      /\ order[at + 1] \in D => /\ m = k + 1 /\ k + 1 <= Len(K)
                                /\ K[k + 1] = order[at + 1]
      /\ order[at + 1] \notin D => m = k
  <2> HIDE DEF D
  <2> QED  BY ONLY <1>1, at < Len(order), KeptNext
<1>3. K = InOrder(tree, Directories(tree))
  BY <1>1 DEF InOrder
<1>4. Node \in D <=> tree[Node].dir
  BY NodeIsEntry DEF Directories, Entries
<1>5. IsTree(tree) /\ DirAmount(tree) \in Nat
  BY PlanFacts, TreeSizes
<1>6. /\ Len(K) = DirAmount(tree)
      /\ \A i \in 1 .. DirAmount(tree) : DirOrder(tree)[i + 1] = K[i]
  <2>1. /\ Len(InOrder(tree, Directories(tree))) = DirAmount(tree)
        /\ \A i \in 1 .. DirAmount(tree) :
             DirOrder(tree)[i + 1] = InOrder(tree, Directories(tree))[i]
    BY ONLY <1>5, DirectoriesInOrder
  <2> HIDE DEF K
  <2> QED  BY <1>3, <2>1
<1> HIDE DEF k, m, K, D
<1>7. tree[Node].dir =>
        m = k + 1 /\ k + 1 <= DirAmount(tree) /\ DirOrder(tree)[k + 2] = Node
  <2> HAVE tree[Node].dir
  <2>1. m = k + 1 /\ k + 1 <= DirAmount(tree) /\ K[k + 1] = Node
    BY <1>2, <1>4, <1>6 DEF Node
  <2>2. k + 1 \in 1 .. DirAmount(tree) /\ (k + 1) + 1 = k + 2
    BY <1>2, <1>5, <2>1
  <2> QED  BY <1>6, <2>1, <2>2
<1>8. ~tree[Node].dir => m = k
  BY <1>2, <1>4 DEF Node
<1> QED  BY <1>2, <1>7, <1>8 DEF DirectoriesPassed, k, m, D

(* one that passes a file the next in the files'.                          *)
LEMMA PassFile ==
  ASSUME PlanInv, step \in {"place_dirs", "place_files"}, at < Len(order)
  PROVE  /\ FilesPassed \in Nat
         /\ ~tree[Node].dir =>
              /\ Len(Kept(order, PlainFiles(tree), at + 1)) = FilesPassed + 1
              /\ FilesPassed + 1 <= FileAmount(tree)
              /\ FileOrder(tree)[FilesPassed + 1] = Node
              /\ Node \in PlainFiles(tree)
         /\ tree[Node].dir =>
              Len(Kept(order, PlainFiles(tree), at + 1)) = FilesPassed
<1> DEFINE D == PlainFiles(tree)
           k == Len(Kept(order, D, at))
           m == Len(Kept(order, D, at + 1))
           K == Kept(order, D, Len(order))
<1>1. order = Sorted(tree) /\ order \in Seq(Entries(tree)) /\ at \in Nat
  BY LoopFacts
<1>2. /\ k \in Nat
      /\ order[at + 1] \in D => /\ m = k + 1 /\ k + 1 <= Len(K)
                                /\ K[k + 1] = order[at + 1]
      /\ order[at + 1] \notin D => m = k
  <2> HIDE DEF D
  <2> QED  BY ONLY <1>1, at < Len(order), KeptNext
<1>3. K = FileOrder(tree)
  BY <1>1 DEF InOrder, FileOrder
<1>4. Node \in D <=> ~tree[Node].dir
  BY NodeIsEntry DEF PlainFiles, Directories, Entries
<1>5. IsTree(tree)
  BY PlanFacts
<1>6. Len(K) = FileAmount(tree)
  BY ONLY <1>3, <1>5, FilesInOrder
<1> HIDE DEF k, m, K, D
<1>7. ~tree[Node].dir =>
        /\ m = k + 1 /\ k + 1 <= FileAmount(tree)
        /\ FileOrder(tree)[k + 1] = Node /\ Node \in D
  BY <1>2, <1>3, <1>4, <1>6 DEF Node
<1>8. tree[Node].dir => m = k
  BY <1>2, <1>4 DEF Node
<1> QED  BY <1>2, <1>7, <1>8 DEF FilesPassed, k, m, D

(* They begin with none and end with all.                                  *)
LEMMA PassedAll ==
  ASSUME IsTree(tree), order = Sorted(tree)
  PROVE  /\ Len(Kept(order, Directories(tree), 0)) = 0
         /\ Len(Kept(order, PlainFiles(tree), 0)) = 0
         /\ Len(Kept(order, Directories(tree), Len(order))) = DirAmount(tree)
         /\ Len(Kept(order, PlainFiles(tree), Len(order))) = FileAmount(tree)
         /\ AllDirectories = DirOrder(tree)
         /\ AllFiles = FileOrder(tree)
<1>1. order \in Seq(Entries(tree))
  BY SortedIsOrder
<1>2. /\ Kept(order, Directories(tree), 0) = <<>>
      /\ Kept(order, PlainFiles(tree), 0) = <<>>
  BY ONLY <1>1, KeptStart
<1>3. /\ Kept(order, Directories(tree), Len(order))
           = InOrder(tree, Directories(tree))
      /\ Kept(order, PlainFiles(tree), Len(order)) = FileOrder(tree)
  BY DEF InOrder, FileOrder
<1>4. /\ Len(InOrder(tree, Directories(tree))) = DirAmount(tree)
      /\ Len(FileOrder(tree)) = FileAmount(tree)
  BY DirectoriesInOrder, FilesInOrder
<1>5. AllDirectories = DirOrder(tree) /\ AllFiles = FileOrder(tree)
  BY <1>3 DEF AllDirectories, AllFiles, DirOrder
<1> QED  BY <1>2, <1>3, <1>4, <1>5

(* The root is first, so that the first directory's records are its own.   *)
LEMMA RootFirst ==
  ASSUME NEW t, IsTree(t)
  PROVE  /\ RecordsTo(t, 1) = RecordSectors(t, Root)
         /\ IdsTo(t, 1) = FidSectors(t, Root)
<1>1. 0 \in Nat /\ 0 <= DirAmount(t) /\ 0 + 1 = 1
  BY TreeSizes
<1>2. /\ RecordsTo(t, 0 + 1) = RecordsTo(t, 0) + RecordSectors(t, DirOrder(t)[0 + 1])
      /\ RecordSectors(t, DirOrder(t)[0 + 1]) \in Nat
  BY <1>1, RecordsAlong
<1>3. /\ IdsTo(t, 0 + 1) = IdsTo(t, 0) + FidSectors(t, DirOrder(t)[0 + 1])
      /\ FidSectors(t, DirOrder(t)[0 + 1]) \in Nat
  BY <1>1, IdsAlong
<1>4. RecordsTo(t, 0) = 0 /\ IdsTo(t, 0) = 0
  BY PartsMakeTheWhole
<1>5. DirOrder(t)[1] = Root
  BY DirectoriesInOrder
<1> QED  BY <1>1, <1>2, <1>3, <1>4, <1>5
(* A node that is not placed anew stays where it was planned.              *)
LEMMA DirectoryStays ==
  ASSUME NEW k, DirectoryPlanned(k), tree' = tree,
         global_sector'[DirOrder(tree)[k + 1]]
           = global_sector[DirOrder(tree)[k + 1]],
         lba'[DirOrder(tree)[k + 1]] = lba[DirOrder(tree)[k + 1]]
  PROVE  DirectoryPlanned(k)'
BY DEF DirectoryPlanned

(* The same of a file.                                                     *)
LEMMA FileStays ==
  ASSUME NEW k, FilePlanned(k), tree' = tree, data_sector' = data_sector,
         global_sector'[FileOrder(tree)[k]] = global_sector[FileOrder(tree)[k]],
         lba'[FileOrder(tree)[k]] = lba[FileOrder(tree)[k]]
  PROVE  FilePlanned(k)'
BY DEF FilePlanned

(* The volume's sizes are numbers.                                         *)
LEMMA SizesAreNat ==
  ASSUME PlanInv
  PROVE  /\ DirectoryRecordsAmount(tree) \in Nat
         /\ FileIdentifiersAmount(tree) \in Nat
         /\ DirAmount(tree) \in Nat /\ FileAmount(tree) \in Nat
         /\ PartitionHead(tree) \in Nat
         /\ FilesSize(tree, SectorsMod) \in Nat
         /\ \A g \in Garbage : g \in Nat
<1>1. IsTree(tree) /\ PartitionHead(tree) \in Nat
  BY PlanFacts
<1> DEFINE F == PlainFiles(tree)
           f == [p \in F |-> tree[p].sectors]
<1>2. IsFiniteSet(F) /\ f \in [F -> Nat]
  <2>1. F \subseteq DOMAIN tree
    BY DEF PlainFiles
  <2>2. IsFiniteSet(F)
    BY <1>1, <2>1, FS_Subset DEF IsTree
  <2>3. f \in [F -> Nat]
    BY <1>1, <2>1 DEF IsTree, Attributes
  <2> QED  BY <2>2, <2>3
<1>3. SumFunction(f) \in Nat
  <2> HIDE DEF f, F
  <2> QED  BY <1>2, SumIsNat
<1>4. FilesSize(tree, SectorsMod) \in Nat
  <2>1. FilesSize(tree, SectorsMod) = SumFunction(f) % SectorsMod
    BY DEF FilesSize
  <2> HIDE DEF f
  <2> QED  BY <1>3, <2>1, PlannerAssumption
<1> QED  BY <1>1, <1>4, TreeSizes, PlannerAssumption

(* What an invariant of the plan says while a loop runs.                   *)
LEMMA PlacesFacts ==
  ASSUME PlacesInv
  PROVE  /\ global_sector \in [Entries(tree) -> Nat]
         /\ local_sector \in [Entries(tree) -> Nat]
         /\ lba \in [Entries(tree) -> Nat]
         /\ next_sector \in Nat /\ next_local \in Nat /\ next_lba \in Nat
         /\ data_sector \in Nat /\ partition_start_sector \in Nat
         /\ total_sectors \in Nat /\ pad_sectors \in Nat
BY DEF PlacesInv, PlanTypes

(* Each step of the planner keeps what its places claim.  The volume's     *)
(* sizes are those of the constructor's first lines;                       *)
LEMMA SizeVolumePlaces == PlanInv /\ PlacesInv /\ SizeVolume => PlacesInv'
<1> SUFFICES ASSUME PlanInv, PlacesInv, SizeVolume PROVE PlacesInv'
  OBVIOUS
<1>1. /\ tree' = tree /\ step' = "sort"
      /\ global_sector' = global_sector /\ local_sector' = local_sector
      /\ lba' = lba /\ next_sector' = next_sector /\ next_local' = next_local
      /\ next_lba' = next_lba
      /\ partition_start_sector' = DirRecordsStart + DirectoryRecordsAmount(tree)
      /\ data_sector' = partition_start_sector' + PartitionHead(tree)
  BY DEF SizeVolume, locations, cursors
<1> DEFINE total == data_sector' + FilesSize(tree, SectorsMod) + 1
<1>2. IF total % 16 = 0
        THEN total_sectors' = total /\ pad_sectors' \in Garbage
        ELSE /\ total_sectors' = total + (16 - (total % 16))
             /\ pad_sectors' = 16 - (total % 16)
  BY DEF SizeVolume
<1>3. partition_start_sector' \in Nat /\ data_sector' \in Nat /\ total \in Nat
  BY <1>1, SizesAreNat DEF DirRecordsStart
<1>4. total_sectors' \in Nat /\ pad_sectors' \in Nat
  <2> HIDE DEF total
  <2>1. total % 16 \in 0 .. 15
    BY <1>3
  <2> QED  BY <1>2, <1>3, <2>1, SizesAreNat
<1>5. PlanTypes'
  BY <1>1, <1>3, <1>4, PlacesFacts DEF PlanTypes
<1>6. VolumeSized'
  BY <1>1, <1>2 DEF VolumeSized
<1>7. /\ PlacingDirectories' /\ DirectoriesPlanned' /\ PlacingFiles'
      /\ FilesPlanned'
  BY <1>1 DEF PlacingDirectories, DirectoriesPlanned, PlacingFiles,
              FilesPlanned, PlanSteps
<1> QED  BY <1>5, <1>6, <1>7 DEF PlacesInv

(* the list starts with no directory passed;                               *)
LEMMA SortNodesPlaces == PlanInv /\ PlacesInv /\ SortNodes => PlacesInv'
<1> SUFFICES ASSUME PlanInv, PlacesInv, SortNodes PROVE PlacesInv'
  OBVIOUS
<1>1. /\ tree' = tree /\ step = "sort" /\ step' = "place_dirs" /\ at' = 0
      /\ order' = Sorted(tree)
      /\ global_sector' = global_sector /\ local_sector' = local_sector
      /\ lba' = lba /\ next_local' = next_local
      /\ data_sector' = data_sector
      /\ partition_start_sector' = partition_start_sector
      /\ total_sectors' = total_sectors /\ pad_sectors' = pad_sectors
      /\ next_sector' = DirRecordsStart + 1
      /\ next_lba' = 3 + FileIdentifiersAmount(tree)
  BY DEF SortNodes, locations, sizes
<1>2. PlanTypes'
  BY <1>1, PlacesFacts, SizesAreNat DEF PlanTypes, DirRecordsStart
<1>3. VolumeSized'
  BY <1>1 DEF PlacesInv, VolumeSized
<1>4. DirectoriesPassed' = 0
  <2>1. IsTree(tree) /\ Sorted(tree) \in Seq(Entries(tree))
    BY PlanFacts, SortedIsOrder
  <2>2. Kept(Sorted(tree), Directories(tree), 0) = <<>>
    BY ONLY <2>1, KeptStart
  <2> QED  BY <1>1, <2>2 DEF DirectoriesPassed
<1>5. PlacingDirectories'
  <2>1. /\ RecordsTo(tree, 1) = RecordSectors(tree, Root)
        /\ RecordSectors(tree, Root) \in Nat
    BY PlanFacts, RootFirst, DirectorySizes
  <2>2. next_sector' = DirRecordsStart + 1
          + (RecordsTo(tree, 0 + 1) - RecordSectors(tree, Root))
    BY <1>1, <2>1 DEF DirRecordsStart
  <2>3. next_lba' = 3 + FileIdentifiersAmount(tree) + 0
    BY <1>1, SizesAreNat
  <2>4. \A k \in 1 .. 0 : FALSE
    OBVIOUS
  <2> QED  BY <1>1, <1>4, <2>2, <2>3, <2>4 DEF PlacingDirectories
<1>6. DirectoriesPlanned' /\ PlacingFiles' /\ FilesPlanned'
  BY <1>1 DEF DirectoriesPlanned, PlacingFiles, FilesPlanned, PlanSteps
<1> QED  BY <1>2, <1>3, <1>5, <1>6 DEF PlacesInv

(* a directory is placed behind those before it;                           *)
LEMMA PlaceDirectoryPlaces ==
  PlanInv /\ PlacesInv /\ PlaceDirectory => PlacesInv'
<1> SUFFICES ASSUME PlanInv, PlacesInv, PlaceDirectory PROVE PlacesInv'
  OBVIOUS
<1>1. /\ step = "place_dirs" /\ step' = step /\ tree' = tree
      /\ order' = order /\ at < Len(order) /\ at' = at + 1
      /\ tree[Node].dir
      /\ global_sector' = [global_sector EXCEPT ![Node] = next_sector]
      /\ lba' = [lba EXCEPT ![Node] = next_lba]
      /\ local_sector' = local_sector /\ next_local' = next_local
      /\ next_sector' = next_sector + RecordSectors(tree, Node)
      /\ next_lba' = next_lba + 1
      /\ data_sector' = data_sector
      /\ partition_start_sector' = partition_start_sector
      /\ total_sectors' = total_sectors /\ pad_sectors' = pad_sectors
  BY DEF PlaceDirectory, sizes
<1>2. IsTree(tree) /\ Node \in Entries(tree) /\ RecordSectors(tree, Node) \in Nat
  BY <1>1, NodeIsEntry, PlanFacts, DirectorySizes
<1>3. PlanTypes'
  <2>1. global_sector' \in [Entries(tree) -> Nat] /\ lba' \in [Entries(tree) -> Nat]
    BY <1>1, <1>2, PlacesFacts
  <2>2. next_sector' \in Nat /\ next_lba' \in Nat
    BY <1>1, <1>2, PlacesFacts, SMTT(30)
  <2> QED  BY <1>1, <2>1, <2>2, PlacesFacts DEF PlanTypes
<1>4. VolumeSized'
  BY <1>1 DEF PlacesInv, VolumeSized
<1> DEFINE n == DirectoriesPassed
           L == DirOrder(tree)
           R == RecordSectors(tree, Root)
<1>5. /\ n \in Nat /\ n + 1 <= DirAmount(tree) /\ L[n + 2] = Node
      /\ DirectoriesPassed' = n + 1
  <2>1. /\ n \in Nat /\ n + 1 <= DirAmount(tree) /\ L[n + 2] = Node
        /\ Len(Kept(order, Directories(tree), at + 1)) = n + 1
    BY <1>1, PassDirectory
  <2> QED  BY <1>1, <2>1 DEF DirectoriesPassed
<1>6. /\ next_sector = DirRecordsStart + 1 + (RecordsTo(tree, n + 1) - R)
      /\ next_lba = 3 + FileIdentifiersAmount(tree) + n
      /\ \A k \in 1 .. n : DirectoryPlanned(k)
  BY <1>1 DEF PlacesInv, PlacingDirectories
<1> HIDE DEF n, L, R
<1>7. DirAmount(tree) \in Nat /\ FileIdentifiersAmount(tree) \in Nat /\ R \in Nat
  BY <1>2, SizesAreNat, DirectorySizes DEF R
<1>8. /\ RecordsTo(tree, n + 1) \in Nat
      /\ RecordsTo(tree, (n + 1) + 1)
           = RecordsTo(tree, n + 1) + RecordSectors(tree, Node)
  <2>1. n + 1 \in Nat /\ n + 1 <= DirAmount(tree) /\ (n + 1) + 1 = n + 2
    BY <1>5
  <2>2. /\ RecordsTo(tree, n + 1) \in Nat
        /\ RecordsTo(tree, (n + 1) + 1)
             = RecordsTo(tree, n + 1) + RecordSectors(tree, L[(n + 1) + 1])
    <3> DEFINE m == n + 1
    <3>1. m \in Nat /\ m <= DirAmount(tree)
      BY <2>1
    <3> HIDE DEF m
    <3>2. /\ RecordsTo(tree, m) \in Nat
          /\ RecordsTo(tree, m + 1)
               = RecordsTo(tree, m) + RecordSectors(tree, DirOrder(tree)[m + 1])
      BY ONLY <1>2, <3>1, RecordsAlong
    <3> QED  BY <3>2 DEF m, L
  <2> QED  BY <1>5, <2>1, <2>2
<1>9. /\ next_sector' = DirRecordsStart + 1 + (RecordsTo(tree, (n + 1) + 1) - R)
      /\ next_lba' = 3 + FileIdentifiersAmount(tree) + (n + 1)
  <2> DEFINE here == RecordsTo(tree, n + 1)
             there == RecordsTo(tree, (n + 1) + 1)
             own == RecordSectors(tree, Node)
             ids == FileIdentifiersAmount(tree)
  <2>1. /\ here \in Nat /\ own \in Nat /\ there = here + own
        /\ R \in Nat /\ ids \in Nat /\ n \in Nat
    BY <1>2, <1>5, <1>7, <1>8
  <2>2. /\ next_sector' = (DirRecordsStart + 1 + (here - R)) + own
        /\ next_lba' = (3 + ids + n) + 1
    BY <1>1, <1>6
  <2> HIDE DEF here, there, own, ids
  <2>3. /\ next_sector' = DirRecordsStart + 1 + (there - R)
        /\ next_lba' = 3 + ids + (n + 1)
    BY <2>1, <2>2 DEF DirRecordsStart
  <2> QED  BY <2>3 DEF there, ids
<1>10. ASSUME NEW k \in 1 .. n + 1
       PROVE  DirectoryPlanned(k)'
  <2>1. CASE k = n + 1
    <3>1. k + 1 = n + 2 /\ k - 1 = n
      BY <1>5, <2>1
    <3>2. L[k + 1] = Node
      BY <1>5, <3>1
    <3>3. /\ global_sector'[Node] = next_sector /\ lba'[Node] = next_lba
      BY <1>1, <1>2, PlacesFacts
    <3> QED
      BY <1>1, <1>6, <2>1, <3>1, <3>2, <3>3 DEF DirectoryPlanned, L, R
  <2>2. CASE k # n + 1
    <3>1. k \in 1 .. n
      BY <1>5, <2>2
    <3>2. L[k + 1] # Node
      <4>1. /\ k + 1 \in 1 .. DirAmount(tree) + 1
            /\ n + 2 \in 1 .. DirAmount(tree) + 1 /\ k + 1 # n + 2
        BY <1>5, <1>7, <3>1
      <4>2. \A i, j \in 1 .. DirAmount(tree) + 1 : L[i] = L[j] => i = j
        BY <1>2, DirectoriesInOrder DEF L
      <4> QED  BY <1>5, <4>1, <4>2
    <3>3. k \in 1 .. DirAmount(tree)
      BY <1>5, <1>7, <3>1
    <3>4. L[k + 1] \in Entries(tree)
      BY <1>2, <3>3, DirectoriesInOrder DEF L, Directories, Entries
    <3>5. /\ global_sector'[L[k + 1]] = global_sector[L[k + 1]]
          /\ lba'[L[k + 1]] = lba[L[k + 1]]
      BY <1>1, <3>2, <3>4, PlacesFacts
    <3> QED  BY <1>1, <1>6, <3>1, <3>5, DirectoryStays DEF L
  <2> QED  BY <2>1, <2>2
<1>11. PlacingDirectories'
  BY <1>1, <1>5, <1>9, <1>10 DEF PlacingDirectories, R
<1>12. DirectoriesPlanned' /\ PlacingFiles' /\ FilesPlanned'
  BY <1>1 DEF DirectoriesPlanned, PlacingFiles, FilesPlanned, PlanSteps
<1> QED  BY <1>3, <1>4, <1>11, <1>12 DEF PlacesInv
(* a file is passed over;                                                  *)
LEMMA SkipFilePlaces == PlanInv /\ PlacesInv /\ SkipFile => PlacesInv'
<1> SUFFICES ASSUME PlanInv, PlacesInv, SkipFile PROVE PlacesInv'
  OBVIOUS
<1>1. /\ step = "place_dirs" /\ step' = step /\ tree' = tree
      /\ order' = order /\ at < Len(order) /\ at' = at + 1
      /\ ~tree[Node].dir
      /\ UNCHANGED <<locations, cursors, sizes>>
  BY DEF SkipFile
<1>2. /\ global_sector' = global_sector /\ local_sector' = local_sector
      /\ lba' = lba /\ next_sector' = next_sector /\ next_local' = next_local
      /\ next_lba' = next_lba /\ data_sector' = data_sector
      /\ partition_start_sector' = partition_start_sector
      /\ total_sectors' = total_sectors /\ pad_sectors' = pad_sectors
  BY <1>1 DEF locations, cursors, sizes
<1>3. PlanTypes' /\ VolumeSized'
  BY <1>1, <1>2 DEF PlacesInv, VolumeSized, PlanTypes
<1>4. DirectoriesPassed' = DirectoriesPassed
  BY <1>1, PassDirectory DEF DirectoriesPassed
<1>5. \A k : DirectoryPlanned(k) => DirectoryPlanned(k)'
  BY <1>1, <1>2, DirectoryStays
<1>6. PlacingDirectories'
  BY <1>1, <1>2, <1>4, <1>5 DEF PlacesInv, PlacingDirectories
<1>7. DirectoriesPlanned' /\ PlacingFiles' /\ FilesPlanned'
  BY <1>1 DEF DirectoriesPlanned, PlacingFiles, FilesPlanned, PlanSteps
<1> QED  BY <1>3, <1>6, <1>7 DEF PlacesInv

(* the second loop starts with all directories placed and no file;         *)
LEMMA StartFilesPlaces == PlanInv /\ PlacesInv /\ StartFiles => PlacesInv'
<1> SUFFICES ASSUME PlanInv, PlacesInv, StartFiles PROVE PlacesInv'
  OBVIOUS
<1>1. /\ step = "place_dirs" /\ at = Len(order) /\ step' = "place_files"
      /\ tree' = tree /\ order' = order /\ at' = 0
      /\ next_sector' = data_sector
      /\ next_local' = data_sector - DirRecordsStart - DirectoryRecordsAmount(tree)
      /\ next_lba' = 2 + FileIdentifiersAmount(tree) + (DirAmount(tree) + 1)
      /\ UNCHANGED <<locations, sizes>>
  BY DEF StartFiles
<1>2. /\ global_sector' = global_sector /\ local_sector' = local_sector
      /\ lba' = lba /\ data_sector' = data_sector
      /\ partition_start_sector' = partition_start_sector
      /\ total_sectors' = total_sectors /\ pad_sectors' = pad_sectors
  BY <1>1 DEF locations, sizes
<1>3. VolumeSized'
  BY <1>1, <1>2 DEF PlacesInv, VolumeSized
<1>4. IsTree(tree) /\ order = Sorted(tree)
  BY <1>1, LoopFacts, PlanFacts
<1>5. /\ Len(Kept(order, Directories(tree), Len(order))) = DirAmount(tree)
      /\ Len(Kept(order, PlainFiles(tree), 0)) = 0
  BY <1>4, PassedAll
<1>6. DirectoriesPassed = DirAmount(tree) /\ FilesPassed' = 0
  BY <1>1, <1>5 DEF DirectoriesPassed, FilesPassed
<1>7. \A k : DirectoryPlanned(k) => DirectoryPlanned(k)'
  BY <1>1, <1>2, DirectoryStays
<1>8. DirectoriesPlanned'
  BY <1>1, <1>6, <1>7 DEF PlacesInv, PlacingDirectories, DirectoriesPlanned
<1>9. PlacingFiles'
  <2>1. DataTo(tree, 0) = 0
    BY <1>4, PartsMakeTheWhole
  <2>0. tree' = tree
    BY <1>1
  <2>2. \A k \in 1 .. 0 : FALSE
    OBVIOUS
  <2>3. next_sector' = data_sector' + 0
    BY <1>1, <1>2, PlacesFacts
  <2>4. next_lba' = 2 + FileIdentifiersAmount(tree) + (DirAmount(tree) + 1) + 0
    <3>1. FileIdentifiersAmount(tree) \in Nat /\ DirAmount(tree) \in Nat
      BY SizesAreNat
    <3>2. next_lba' = 2 + FileIdentifiersAmount(tree) + (DirAmount(tree) + 1)
      BY <1>1
    <3> QED  BY ONLY <3>1, <3>2
  <2>5. /\ next_sector' = data_sector' + DataTo(tree', FilesPassed')
        /\ next_lba' = 2 + FileIdentifiersAmount(tree')
                        + (DirAmount(tree') + 1) + FilesPassed'
        /\ \A k \in 1 .. FilesPassed' : FALSE
    BY ONLY <1>6, <2>0, <2>1, <2>2, <2>3, <2>4, Zenon
  <2> QED  BY ONLY <2>5, Zenon DEF PlacingFiles
<1>10. PlanTypes'
  <2>1. next_sector' \in Nat /\ next_lba' \in Nat
    <3>1. /\ data_sector \in Nat /\ FileIdentifiersAmount(tree) \in Nat
          /\ DirAmount(tree) \in Nat
      BY PlacesFacts, SizesAreNat
    <3>2. /\ next_sector' = data_sector
          /\ next_lba' = 2 + FileIdentifiersAmount(tree) + (DirAmount(tree) + 1)
      BY <1>1
    <3> QED  BY ONLY <3>1, <3>2
  <2>2. next_local' \in Nat
    <3>1. data_sector = DirRecordsStart + DirectoryRecordsAmount(tree)
                          + PartitionHead(tree)
      BY <1>1, LoopFacts DEF PlacesInv, VolumeSized
    <3>2. next_local' = PartitionHead(tree)
      <4> DEFINE records == DirectoryRecordsAmount(tree)
                 head == PartitionHead(tree)
      <4>1. records \in Nat /\ head \in Nat
        BY SizesAreNat
      <4>2. /\ data_sector = 261 + records + head
            /\ next_local' = data_sector - 261 - records
        BY <1>1, <3>1 DEF DirRecordsStart
      <4> HIDE DEF records, head
      <4>3. next_local' = head
        BY ONLY <4>1, <4>2
      <4> QED  BY <4>3 DEF head
    <3> QED  BY <3>2, SizesAreNat
  <2> QED  BY <1>1, <1>2, <2>1, <2>2, PlacesFacts DEF PlanTypes
<1>11. PlacingDirectories' /\ FilesPlanned'
  BY <1>1 DEF PlacingDirectories, FilesPlanned, PlanSteps
<1> QED  BY <1>3, <1>8, <1>9, <1>10, <1>11 DEF PlacesInv

(* a file is placed behind those before it;                                *)
LEMMA PlaceFilePlaces == PlanInv /\ PlacesInv /\ PlaceFile => PlacesInv'
<1> SUFFICES ASSUME PlanInv, PlacesInv, PlaceFile PROVE PlacesInv'
  OBVIOUS
<1>1. /\ step = "place_files" /\ step' = step /\ tree' = tree
      /\ order' = order /\ at < Len(order) /\ at' = at + 1
      /\ ~tree[Node].dir
      /\ global_sector' = [global_sector EXCEPT ![Node] = next_sector]
      /\ local_sector' = [local_sector EXCEPT ![Node] = next_local]
      /\ lba' = [lba EXCEPT ![Node] = next_lba]
      /\ next_sector' = next_sector + tree[Node].sectors
      /\ next_local' = next_local + tree[Node].sectors
      /\ next_lba' = next_lba + 1
      /\ data_sector' = data_sector
      /\ partition_start_sector' = partition_start_sector
      /\ total_sectors' = total_sectors /\ pad_sectors' = pad_sectors
  BY DEF PlaceFile, sizes
<1>2. IsTree(tree) /\ Node \in Entries(tree) /\ tree[Node].sectors \in Nat
  BY <1>1, NodeIsEntry, PlanFacts
<1>3. PlanTypes'
  <2>1. global_sector' \in [Entries(tree) -> Nat] /\ lba' \in [Entries(tree) -> Nat]
    <3>1. next_sector \in Nat /\ next_lba \in Nat
      BY PlacesFacts
    <3> QED  BY <1>1, <1>2, <3>1, PlacesFacts
  <2>2. local_sector' \in [Entries(tree) -> Nat]
    <3>1. next_local \in Nat
      BY PlacesFacts
    <3> QED  BY <1>1, <1>2, <3>1, PlacesFacts
  <2>3. next_sector' \in Nat /\ next_lba' \in Nat /\ next_local' \in Nat
    <3>1. /\ next_sector \in Nat /\ next_lba \in Nat /\ next_local \in Nat
          /\ tree[Node].sectors \in Nat
      BY <1>2, PlacesFacts
    <3>2. /\ next_sector' = next_sector + tree[Node].sectors
          /\ next_local' = next_local + tree[Node].sectors
          /\ next_lba' = next_lba + 1
      BY <1>1
    <3> QED  BY ONLY <3>1, <3>2
  <2> QED  BY <1>1, <2>1, <2>2, <2>3, PlacesFacts DEF PlanTypes
<1>4. VolumeSized'
  BY <1>1 DEF PlacesInv, VolumeSized
<1> DEFINE n == FilesPassed
           L == FileOrder(tree)
<1>5. /\ n \in Nat /\ n + 1 <= FileAmount(tree) /\ L[n + 1] = Node
      /\ FilesPassed' = n + 1 /\ Node \in PlainFiles(tree)
  <2>1. /\ n \in Nat /\ n + 1 <= FileAmount(tree) /\ L[n + 1] = Node
        /\ Len(Kept(order, PlainFiles(tree), at + 1)) = n + 1
        /\ Node \in PlainFiles(tree)
    BY <1>1, PassFile
  <2> QED  BY <1>1, <2>1 DEF FilesPassed
<1>6. /\ next_sector = data_sector + DataTo(tree, n)
      /\ next_lba = 2 + FileIdentifiersAmount(tree) + (DirAmount(tree) + 1) + n
      /\ \A k \in 1 .. n : FilePlanned(k)
  BY <1>1 DEF PlacesInv, PlacingFiles
<1> HIDE DEF n, L
<1>7. /\ DirAmount(tree) \in Nat /\ FileIdentifiersAmount(tree) \in Nat
      /\ FileAmount(tree) \in Nat
  BY SizesAreNat
<1>8. /\ DataTo(tree, n) \in Nat
      /\ DataTo(tree, n + 1) = DataTo(tree, n) + tree[Node].sectors
  <2>1. n \in Nat /\ n < FileAmount(tree)
    BY <1>5, <1>7
  <2>2. /\ DataTo(tree, n) \in Nat
        /\ DataTo(tree, n + 1)
             = DataTo(tree, n) + tree[FileOrder(tree)[n + 1]].sectors
    BY ONLY <1>2, <2>1, DataAlong
  <2> QED  BY <1>5, <2>2 DEF L
<1>9. /\ next_sector' = data_sector' + DataTo(tree, n + 1)
      /\ next_lba' = 2 + FileIdentifiersAmount(tree) + (DirAmount(tree) + 1)
                       + (n + 1)
  <2> DEFINE here == DataTo(tree, n)
             there == DataTo(tree, n + 1)
             own == tree[Node].sectors
             ids == FileIdentifiersAmount(tree)
             dirs == DirAmount(tree)
  <2>1. /\ here \in Nat /\ own \in Nat /\ there = here + own
        /\ ids \in Nat /\ n \in Nat /\ dirs \in Nat /\ data_sector \in Nat
    BY <1>2, <1>5, <1>7, <1>8, PlacesFacts
  <2>2. /\ next_sector' = (data_sector + here) + own
        /\ next_lba' = (2 + ids + (dirs + 1) + n) + 1
    BY <1>1, <1>6
  <2> HIDE DEF here, there, own, ids, dirs
  <2>3. /\ next_sector' = data_sector + there
        /\ next_lba' = 2 + ids + (dirs + 1) + (n + 1)
    BY <2>1, <2>2
  <2> QED  BY <1>1, <2>3 DEF there, ids, dirs
<1>10. ASSUME NEW k \in 1 .. n + 1
       PROVE  FilePlanned(k)'
  <2>1. CASE k = n + 1
    <3>1. k - 1 = n /\ L[k] = Node
      BY <1>5, <2>1
    <3>2. /\ global_sector'[Node] = next_sector /\ lba'[Node] = next_lba
      BY <1>1, <1>2, PlacesFacts
    <3> QED
      BY <1>1, <1>6, <2>1, <3>1, <3>2 DEF FilePlanned, L
  <2>2. CASE k # n + 1
    <3>1. k \in 1 .. n
      BY <1>5, <2>2
    <3>2. k \in 1 .. FileAmount(tree) /\ n + 1 \in 1 .. FileAmount(tree)
      BY <1>5, <1>7, <3>1
    <3>3. L[k] # Node
      <4>1. \A i, j \in 1 .. FileAmount(tree) : L[i] = L[j] => i = j
        BY <1>2, FilesInOrder DEF L
      <4> QED  BY <1>5, <2>2, <3>2, <4>1
    <3>4. L[k] \in Entries(tree)
      <4>1. L \in Seq(PlainFiles(tree)) /\ Len(L) = FileAmount(tree)
        BY <1>2, FilesInOrder DEF L
      <4>2. L[k] \in PlainFiles(tree)
        BY <3>2, <4>1
      <4> QED  BY <1>2, <4>2 DEF PlainFiles, Directories, Entries, IsTree
    <3>5. /\ global_sector'[L[k]] = global_sector[L[k]]
          /\ lba'[L[k]] = lba[L[k]]
      BY <1>1, <3>3, <3>4, PlacesFacts
    <3> QED  BY <1>1, <1>6, <3>1, <3>5, FileStays DEF L
  <2> QED  BY <2>1, <2>2
<1>11. PlacingFiles'
  BY <1>1, <1>5, <1>9, <1>10 DEF PlacingFiles
<1>12. DirectoriesPlanned'
  <2> SUFFICES ASSUME NEW k \in 1 .. DirAmount(tree)
               PROVE  DirectoryPlanned(k)'
    BY <1>1 DEF DirectoriesPlanned
  <2>1. DirectoryPlanned(k)
    BY <1>1 DEF PlacesInv, DirectoriesPlanned
  <2>2. DirOrder(tree)[k + 1] \in Directories(tree) \ {Root}
    BY <1>2, DirectoriesInOrder
  <2>3. /\ DirOrder(tree)[k + 1] # Node
        /\ DirOrder(tree)[k + 1] \in Entries(tree)
    BY <1>5, <2>2 DEF PlainFiles, Directories, Entries
  <2> QED  BY <1>1, <2>1, <2>3, DirectoryStays, PlacesFacts
<1>13. PlacingDirectories' /\ FilesPlanned'
  BY <1>1 DEF PlacingDirectories, FilesPlanned, PlanSteps
<1> QED  BY <1>3, <1>4, <1>11, <1>12, <1>13 DEF PlacesInv

(* a directory is passed over;                                             *)
LEMMA SkipDirectoryPlaces == PlanInv /\ PlacesInv /\ SkipDirectory => PlacesInv'
<1> SUFFICES ASSUME PlanInv, PlacesInv, SkipDirectory PROVE PlacesInv'
  OBVIOUS
<1>1. /\ step = "place_files" /\ step' = step /\ tree' = tree
      /\ order' = order /\ at < Len(order) /\ at' = at + 1
      /\ tree[Node].dir
      /\ UNCHANGED <<locations, cursors, sizes>>
  BY DEF SkipDirectory
<1>2. /\ global_sector' = global_sector /\ local_sector' = local_sector
      /\ lba' = lba /\ next_sector' = next_sector /\ next_local' = next_local
      /\ next_lba' = next_lba /\ data_sector' = data_sector
      /\ partition_start_sector' = partition_start_sector
      /\ total_sectors' = total_sectors /\ pad_sectors' = pad_sectors
  BY <1>1 DEF locations, cursors, sizes
<1>3. PlanTypes' /\ VolumeSized'
  BY <1>1, <1>2 DEF PlacesInv, VolumeSized, PlanTypes
<1>4. FilesPassed' = FilesPassed
  BY <1>1, PassFile DEF FilesPassed
<1>5. \A k : /\ DirectoryPlanned(k) => DirectoryPlanned(k)'
             /\ FilePlanned(k) => FilePlanned(k)'
  BY <1>1, <1>2, DirectoryStays, FileStays
<1>6. PlacingFiles'
  BY <1>1, <1>2, <1>4, <1>5 DEF PlacesInv, PlacingFiles
<1>7. DirectoriesPlanned'
  BY <1>1, <1>5 DEF PlacesInv, DirectoriesPlanned
<1>8. PlacingDirectories' /\ FilesPlanned'
  BY <1>1 DEF PlacingDirectories, FilesPlanned, PlanSteps
<1> QED  BY <1>3, <1>6, <1>7, <1>8 DEF PlacesInv

(* and when the second loop ends all files are placed.                     *)
LEMMA PlannedPlaces == PlanInv /\ PlacesInv /\ Planned => PlacesInv'
<1> SUFFICES ASSUME PlanInv, PlacesInv, Planned PROVE PlacesInv'
  OBVIOUS
<1>1. /\ step = "place_files" /\ step' = "header" /\ tree' = tree
      /\ order' = order /\ at = Len(order)
      /\ UNCHANGED <<locations, cursors, sizes>>
  BY DEF Planned
<1>2. /\ global_sector' = global_sector /\ local_sector' = local_sector
      /\ lba' = lba /\ next_sector' = next_sector /\ next_local' = next_local
      /\ next_lba' = next_lba /\ data_sector' = data_sector
      /\ partition_start_sector' = partition_start_sector
      /\ total_sectors' = total_sectors /\ pad_sectors' = pad_sectors
  BY <1>1 DEF locations, cursors, sizes
<1>3. PlanTypes' /\ VolumeSized'
  BY <1>1, <1>2 DEF PlacesInv, VolumeSized, PlanTypes
<1>4. FilesPassed = FileAmount(tree)
  BY <1>1, LoopFacts, PlanFacts, PassedAll DEF FilesPassed
<1>5. \A k : /\ DirectoryPlanned(k) => DirectoryPlanned(k)'
             /\ FilePlanned(k) => FilePlanned(k)'
  BY <1>1, <1>2, DirectoryStays, FileStays
<1>6. FilesPlanned'
  BY <1>1, <1>4, <1>5 DEF PlacesInv, PlacingFiles, FilesPlanned
<1>7. DirectoriesPlanned'
  BY <1>1, <1>5 DEF PlacesInv, DirectoriesPlanned
<1>8. PlacingDirectories' /\ PlacingFiles'
  BY <1>1 DEF PlacingDirectories, PlacingFiles
<1> QED  BY <1>3, <1>6, <1>7, <1>8 DEF PlacesInv

(* Every step of the planner keeps what is planned.                        *)
LEMMA PlacesInvStep == PlanInv /\ PlacesInv /\ [Next]_vars => PlacesInv'
<1> SUFFICES ASSUME PlanInv, PlacesInv, [Next]_vars PROVE PlacesInv'
  OBVIOUS
<1>1. CASE WriteSectors
  <2>1. plan' = plan /\ step \notin PlanSteps /\ step' \notin PlanSteps
    BY <1>1, WriterKeepsPlan
  <2> QED  BY <2>1, PlacesStay
<1>2. CASE UNCHANGED vars
  <2>1. plan' = plan /\ step' = step /\ at' = at
    BY <1>2 DEF vars, plannerVars, plan
  <2> QED  BY <2>1, PlacesStay
<1>3. CASE Plan
  BY <1>3, SizeVolumePlaces, SortNodesPlaces, PlaceDirectoryPlaces,
     SkipFilePlaces, StartFilesPlaces, PlaceFilePlaces, SkipDirectoryPlaces,
     PlannedPlaces DEF Plan
<1> QED  BY <1>1, <1>2, <1>3 DEF Next
-----------------------------------------------------------------------------
(* A directory's entries, in the order readdir lists them,                 *)
LEMMA ListingFacts ==
  ASSUME NEW t, IsTree(t), NEW d \in Directories(t)
  PROVE  /\ Listing(t, d) \in Seq(Children(t, d))
         /\ Len(Listing(t, d)) = Cardinality(Children(t, d))
         /\ Cardinality(Children(t, d)) \in Nat
         /\ \A i, j \in 1 .. Len(Listing(t, d)) :
              Listing(t, d)[i] = Listing(t, d)[j] => i = j
         /\ \A p \in Children(t, d) :
              \E i \in 1 .. Len(Listing(t, d)) : Listing(t, d)[i] = p
<1> DEFINE C == Children(t, d)
           n == Cardinality(C)
           L == Listing(t, d)
<1>1. n \in Nat
  BY ChildrenFinite, FS_CardinalityType
<1>2. /\ \A i \in 1 .. n : Append(d, i) \in C
      /\ \A p \in C : p[Len(p)] \in 1 .. n /\ p = Append(d, p[Len(p)])
  BY ChildrenNumbered
<1>3. L = [i \in 1 .. n |-> Append(d, i)]
  BY DEF Listing
<1>4. d \in Seq(Nat \ {0})
  BY DEF Directories, IsTree
<1> HIDE DEF C, n, L
<1>5. L \in Seq(C) /\ Len(L) = n /\ \A i \in 1 .. n : L[i] = Append(d, i)
  <2>1. L \in [1 .. n -> C]
    BY <1>2, <1>3
  <2> QED  BY <1>1, <1>3, <2>1
<1>6. ASSUME NEW i \in 1 .. n, NEW j \in 1 .. n, L[i] = L[j]
      PROVE  i = j
  <2>1. Append(d, i) = Append(d, j)
    BY <1>5, <1>6
  <2>2. i \in Nat \ {0} /\ j \in Nat \ {0}
    BY <1>1
  <2>3. /\ Append(d, i)[Len(d) + 1] = i /\ Append(d, j)[Len(d) + 1] = j
    BY <1>4, <2>2
  <2> QED  BY <2>1, <2>3
<1>7. \A p \in C : \E i \in 1 .. n : L[i] = p
  <2> TAKE p \in C
  <2>1. p[Len(p)] \in 1 .. n /\ p = Append(d, p[Len(p)])
    BY <1>2
  <2> QED  BY ONLY <1>5, <2>1
<1>8. \A i, j \in 1 .. Len(L) : L[i] = L[j] => i = j
  BY <1>5, <1>6
<1> QED  BY ONLY <1>1, <1>5, <1>7, <1>8 DEF C, n, L

(* and in the order they are written: all of them, once each.              *)
LEMMA IdentifiersInOrder ==
  ASSUME NEW t, IsTree(t), NEW d \in Directories(t)
  PROVE  /\ IdentifierOrder(t, d) \in Seq(Children(t, d))
         /\ Len(IdentifierOrder(t, d)) = Len(Listing(t, d))
         /\ \A i, j \in 1 .. Len(IdentifierOrder(t, d)) :
              IdentifierOrder(t, d)[i] = IdentifierOrder(t, d)[j] => i = j
         /\ \A p \in Children(t, d) : \E i \in 1 .. Len(IdentifierOrder(t, d)) :
              IdentifierOrder(t, d)[i] = p
<1> DEFINE C == Children(t, d)
           L == Listing(t, d)
           A == Kept(L, Directories(t), Len(L))
           B == Kept(L, PlainFiles(t), Len(L))
           I == IdentifierOrder(t, d)
<1>1. /\ L \in Seq(C) /\ Len(L) = Cardinality(C)
      /\ \A i, j \in 1 .. Len(L) : L[i] = L[j] => i = j
      /\ \A p \in C : \E i \in 1 .. Len(L) : L[i] = p
  BY ListingFacts
<1>2. IsFiniteSet(C) /\ C \subseteq DOMAIN t
  BY ChildrenFinite
<1>3. Len(L) \in Nat /\ Len(L) \in 0 .. Len(L)
  <2>1. Len(L) \in Nat
    BY <1>1
  <2> QED  BY <2>1
<1>4. CASE d # Root
  BY <1>1, <1>4 DEF IdentifierOrder
<1>5. CASE d = Root
  <2>1. I = A \o B
    BY <1>5 DEF IdentifierOrder
  <2> HIDE DEF C, L, I
  <2>2. /\ A \in Seq(C)
        /\ \A k \in 1 .. Len(A) : A[k] \in Directories(t)
        /\ \A i \in 1 .. Len(L) : L[i] \in Directories(t) =>
             \E k \in 1 .. Len(A) : A[k] = L[i]
    <3>1. L \in Seq(C)
      BY <1>1
    <3> QED  BY ONLY <1>3, <3>1, KeptElements
  <2>3. /\ B \in Seq(C)
        /\ \A k \in 1 .. Len(B) : B[k] \in PlainFiles(t)
        /\ \A i \in 1 .. Len(L) : L[i] \in PlainFiles(t) =>
             \E k \in 1 .. Len(B) : B[k] = L[i]
    <3>1. L \in Seq(C)
      BY <1>1
    <3> QED  BY ONLY <1>3, <3>1, KeptElements
  <2>4. /\ \A i, j \in 1 .. Len(A) : A[i] = A[j] => i = j
        /\ \A i, j \in 1 .. Len(B) : B[i] = B[j] => i = j
    <3>1. L \in Seq(C) /\ \A i, j \in 1 .. Len(L) : L[i] = L[j] => i = j
      BY <1>1
    <3>2. \A i, j \in 1 .. Len(A) : A[i] = A[j] => i = j
      BY ONLY <1>3, <3>1, KeptOnce
    <3>3. \A i, j \in 1 .. Len(B) : B[i] = B[j] => i = j
      BY ONLY <1>3, <3>1, KeptOnce
    <3> QED  BY <3>2, <3>3
  <2> HIDE DEF A, B
  <2>5. Len(A) \in Nat /\ Len(B) \in Nat
    BY <2>2, <2>3
  <2>6. /\ I \in Seq(C) /\ Len(I) = Len(A) + Len(B)
        /\ \A k \in 1 .. Len(A) : I[k] = A[k]
        /\ \A k \in 1 .. Len(B) : I[Len(A) + k] = B[k]
    BY <2>1, <2>2, <2>3, <2>5
  <2>7. \A i \in 1 .. Len(I) : i \in 1 .. Len(A) \/ i - Len(A) \in 1 .. Len(B)
    BY <2>5, <2>6
  <2>8. \A i \in 1 .. Len(I) :
          /\ i \in 1 .. Len(A) => I[i] \in Directories(t)
          /\ i - Len(A) \in 1 .. Len(B) =>
               I[i] = B[i - Len(A)] /\ I[i] \in PlainFiles(t)
    <3> TAKE i \in 1 .. Len(I)
    <3>1. i \in 1 .. Len(A) => I[i] \in Directories(t)
      BY <2>2, <2>6
    <3>2. Len(A) + (i - Len(A)) = i
      BY <2>5, <2>6
    <3> QED  BY <2>3, <2>6, <3>1, <3>2
  <2>9. \A p : ~(p \in Directories(t) /\ p \in PlainFiles(t))
    BY DEF PlainFiles
  <2>10. ASSUME NEW i \in 1 .. Len(I), NEW j \in 1 .. Len(I), I[i] = I[j]
         PROVE  i = j
    <3>1. CASE i \in 1 .. Len(A) /\ j \in 1 .. Len(A)
      BY <2>4, <2>6, <2>10, <3>1
    <3>2. CASE i - Len(A) \in 1 .. Len(B) /\ j - Len(A) \in 1 .. Len(B)
      <4>1. B[i - Len(A)] = B[j - Len(A)]
        BY <2>8, <2>10, <3>2
      <4>2. i - Len(A) = j - Len(A)
        BY <2>4, <3>2, <4>1
      <4> QED  BY <2>5, <2>6, <4>2
    <3>3. CASE i \in 1 .. Len(A) /\ j - Len(A) \in 1 .. Len(B)
      BY <2>8, <2>9, <2>10, <3>3
    <3>4. CASE j \in 1 .. Len(A) /\ i - Len(A) \in 1 .. Len(B)
      BY <2>8, <2>9, <2>10, <3>4
    <3> QED  BY <2>7, <3>1, <3>2, <3>3, <3>4
  <2>11. ASSUME NEW p \in C
         PROVE  \E i \in 1 .. Len(I) : I[i] = p
    <3>1. PICK m \in 1 .. Len(L) : L[m] = p
      BY <1>1
    <3>2. p \in Directories(t) \/ p \in PlainFiles(t)
      BY <1>2 DEF PlainFiles
    <3>3. CASE p \in Directories(t)
      <4>1. PICK k \in 1 .. Len(A) : A[k] = p
        BY <2>2, <3>1, <3>3
      <4>2. k \in 1 .. Len(I)
        BY <2>5, <2>6
      <4> QED  BY <2>6, <4>1, <4>2
    <3>4. CASE p \in PlainFiles(t)
      <4>1. PICK k \in 1 .. Len(B) : B[k] = p
        BY <2>3, <3>1, <3>4
      <4>2. Len(A) + k \in 1 .. Len(I)
        BY <2>5, <2>6
      <4> QED  BY <2>6, <4>1, <4>2
    <3> QED  BY <3>2, <3>3, <3>4
  <2>12. Len(I) = Cardinality(C)
    BY ONLY <1>2, <2>6, <2>10, <2>11, LengthOfOnce
  <2> QED  BY <1>1, <2>6, <2>10, <2>11, <2>12 DEF I, C, L
<1> QED  BY <1>4, <1>5

(* The bytes of a directory's first n identifiers.                         *)
IdBytesTo(t, d, n) ==
  SumTo([p \in Children(t, d) |-> FidLen(t, p)], IdentifierOrder(t, d), n)

(* A directory's identifiers, one by one.                                  *)
LEMMA IdBytesAlong ==
  ASSUME NEW t, IsTree(t), NEW d \in Directories(t), NEW n \in Nat,
         n < Len(Listing(t, d))
  PROVE  /\ IdBytesTo(t, d, n) \in Nat
         /\ IdentifierOrder(t, d)[n + 1] \in Children(t, d)
         /\ FidLen(t, IdentifierOrder(t, d)[n + 1]) \in 1 .. Sector
         /\ IdBytesTo(t, d, n + 1)
              = IdBytesTo(t, d, n) + FidLen(t, IdentifierOrder(t, d)[n + 1])
<1> DEFINE C == Children(t, d)
           f == [p \in C |-> FidLen(t, p)]
           s == IdentifierOrder(t, d)
<1>1. C \subseteq DOMAIN t
  BY ChildrenFinite
<1>2. f \in [C -> Nat] /\ \A p \in C : f[p] = FidLen(t, p)
  BY <1>1, EntrySizes
<1>3. s \in Seq(C) /\ n < Len(s)
  BY IdentifiersInOrder
<1> HIDE DEF f, s, C
<1>4. s[n + 1] \in C
  BY <1>3
<1>5. /\ SumTo(f, s, n) \in Nat
      /\ SumTo(f, s, n + 1) = SumTo(f, s, n) + f[s[n + 1]]
  BY <1>2, <1>3, SumsAlong
<1>6. FidLen(t, s[n + 1]) \in 1 .. Sector
  BY <1>1, <1>4, IdentifierFits
<1>7. f[s[n + 1]] = FidLen(t, s[n + 1])
  BY <1>2, <1>4
<1> QED  BY <1>4, <1>5, <1>6, <1>7 DEF IdBytesTo, f, s, C

(* They begin with nothing and come to the directory's.                    *)
LEMMA IdBytesWhole ==
  ASSUME NEW t, IsTree(t), NEW d \in Directories(t)
  PROVE  /\ IdBytesTo(t, d, 0) = 0
         /\ FidBase + IdBytesTo(t, d, Len(Listing(t, d))) = FidBytes(t, d)
<1> DEFINE C == Children(t, d)
           f == [p \in C |-> FidLen(t, p)]
           s == IdentifierOrder(t, d)
<1>1. f \in [C -> Nat]
  BY ChildrenFinite, EntrySizes
<1>2. /\ s \in Seq(C) /\ Len(s) = Len(Listing(t, d))
      /\ \A i, j \in 1 .. Len(s) : s[i] = s[j] => i = j
      /\ \A p \in C : \E i \in 1 .. Len(s) : s[i] = p
  BY IdentifiersInOrder
<1>3. SumTo(f, s, Len(s)) = SumFunction(f)
  <2> HIDE DEF f, s, C
  <2> QED  BY ONLY <1>1, <1>2, SumOfAll
<1>4. IdBytesTo(t, d, Len(Listing(t, d))) = SumFunction(f)
  BY <1>2, <1>3 DEF IdBytesTo
<1>5. IdBytesTo(t, d, 0) = 0
  BY SumToNone DEF IdBytesTo
<1> QED  BY <1>4, <1>5 DEF FidBytes
-----------------------------------------------------------------------------
(* The path table's own order is the order of the directories' records:    *)
(* the k-th of the sorted list has k - 1 before it,                        *)
LEMMA BeforeTheKth ==
  ASSUME NEW t, IsTree(t), NEW k \in 1 .. DirAmount(t)
  PROVE  LET K == InOrder(t, Directories(t))
         IN  Cardinality({e \in SubDirectories(t) : EntryBefore(t, e, K[k])})
               = k - 1
<1> DEFINE D == SubDirectories(t)
           K == InOrder(t, Directories(t))
           B == {e \in D : EntryBefore(t, e, K[k])}
           s == [j \in 1 .. k - 1 |-> K[j]]
<1>1. /\ K \in Seq(D) /\ Len(K) = DirAmount(t)
      /\ \A i, j \in 1 .. Len(K) : K[i] = K[j] => i = j
      /\ \A p \in D : \E i \in 1 .. Len(K) : K[i] = p
  <2>1. Directories(t) \subseteq DOMAIN t
    BY DEF Directories
  <2> QED  BY <2>1, OrderedNodes DEF DirAmount, SubDirectories
<1>2. DirAmount(t) \in Nat
  BY TreeSizes
<1>3. \A i, j \in 1 .. Len(K) : i < j => Before(t, K[i], K[j])
  <2>1. Directories(t) \subseteq DOMAIN t
    BY DEF Directories
  <2> QED  BY <2>1, OrderedBefore
<1>4. D \subseteq Entries(t)
  BY DEF SubDirectories, Directories, Entries
<1>5. IsFiniteSet(B)
  <2>1. IsFiniteSet(Entries(t))
    BY FS_Subset DEF IsTree, Entries
  <2>2. B \subseteq Entries(t)
    BY <1>4
  <2> QED  BY <2>1, <2>2, FS_Subset
<1>6. \A e \in D : EntryBefore(t, e, K[k]) <=> Before(t, e, K[k])
  BY DEF EntryBefore, Before
<1> HIDE DEF K, D
<1>7. ASSUME NEW i \in 1 .. Len(K)
      PROVE  K[i] \in B <=> i \in 1 .. k - 1
  <2>1. /\ i \in Int /\ k \in Int /\ i >= 1 /\ k >= 1
        /\ K[i] \in D /\ K[k] \in D /\ k \in 1 .. Len(K)
    BY <1>1, <1>2
  <2>2. CASE i < k
    <3>1. Before(t, K[i], K[k])
      BY <1>3, <2>1, <2>2
    <3> QED  BY <1>6, <2>1, <2>2, <3>1
  <2>3. CASE i = k
    <3>1. ~Before(t, K[k], K[k])
      BY <1>4, <2>1, BeforeIrreflexive
    <3> QED  BY <1>6, <2>1, <2>3, <3>1
  <2>4. CASE i > k
    <3>1. Before(t, K[k], K[i])
      BY <1>3, <2>1, <2>4
    <3>2. ~Before(t, K[i], K[k])
      BY <1>4, <2>1, <3>1, BeforeIrreflexive, BeforeTransitive
    <3> QED  BY <1>6, <2>1, <2>4, <3>2
  <2> QED  BY <2>1, <2>2, <2>3, <2>4
<1>8. k - 1 \in Nat /\ \A j \in 1 .. k - 1 : j \in 1 .. Len(K)
  BY <1>1, <1>2
<1>9. s \in Seq(B) /\ Len(s) = k - 1
  <2>1. \A j \in 1 .. k - 1 : K[j] \in B
    BY <1>7, <1>8
  <2> HIDE DEF B
  <2> QED  BY <1>8, <2>1
<1>10. \A i, j \in 1 .. Len(s) : s[i] = s[j] => i = j
  BY <1>1, <1>8, <1>9
<1>11. \A x \in B : \E i \in 1 .. Len(s) : s[i] = x
  <2> TAKE x \in B
  <2>1. PICK i \in 1 .. Len(K) : K[i] = x
    BY <1>1
  <2>2. i \in 1 .. k - 1
    BY <1>7, <2>1
  <2> QED  BY <1>9, <2>1, <2>2
<1> HIDE DEF B, s
<1>12. Len(s) = Cardinality(B)
  BY ONLY <1>5, <1>9, <1>10, <1>11, LengthOfOnce
<1> QED  BY <1>9, <1>12 DEF B, D, K

(* so that the table lists them in that order.                             *)
LEMMA DepthsInOrder ==
  ASSUME NEW t, IsTree(t)
  PROVE  Depths(t) = InOrder(t, Directories(t))
<1> DEFINE D == SubDirectories(t)
           K == InOrder(t, Directories(t))
           Behind(d) == Cardinality({e \in D : EntryBefore(t, e, d)})
<1>1. /\ K \in Seq(D) /\ Len(K) = DirAmount(t)
      /\ \A p \in D : \E i \in 1 .. Len(K) : K[i] = p
  <2>1. Directories(t) \subseteq DOMAIN t
    BY DEF Directories
  <2> QED  BY <2>1, OrderedNodes DEF DirAmount, SubDirectories
<1>2. DirAmount(t) \in Nat
  BY TreeSizes
<1>3. \A i \in 1 .. DirAmount(t) : Behind(K[i]) = i - 1
  BY BeforeTheKth
<1>4. Depths(t) = [i \in 1 .. DirAmount(t) |->
                     CHOOSE d \in D : Behind(d) = i - 1]
  BY DEF Depths
<1> HIDE DEF D, K, Behind
<1>5. ASSUME NEW i \in 1 .. DirAmount(t)
      PROVE  (CHOOSE d \in D : Behind(d) = i - 1) = K[i]
  <2>1. K[i] \in D /\ Behind(K[i]) = i - 1
    BY <1>1, <1>3
  <2>2. ASSUME NEW d \in D, Behind(d) = i - 1
        PROVE  d = K[i]
    <3>1. PICK j \in 1 .. Len(K) : K[j] = d
      BY <1>1
    <3>2. j - 1 = i - 1 /\ j \in Int /\ i \in Int
      BY <1>1, <1>3, <2>2, <3>1
    <3> QED  BY <3>1, <3>2
  <2> QED  BY <2>1, <2>2
<1>6. K = [i \in 1 .. DirAmount(t) |-> K[i]]
  BY <1>1, <1>2
<1> QED  BY <1>4, <1>5, <1>6 DEF K
(* A parent's number is its place in the table.                            *)
LEMMA ParentNumbered ==
  ASSUME NEW t, IsTree(t), NEW d \in SubDirectories(t)
  PROVE  /\ ParIndex(t, Depths(t), d) \in 1 .. DirAmount(t) + 1
         /\ DirOrder(t)[ParIndex(t, Depths(t), d)] = Parent(d)
<1> DEFINE K == InOrder(t, Directories(t))
           i == CHOOSE i \in DOMAIN K : K[i] = Parent(d)
<1>1. /\ DirAmount(t) \in Nat /\ Len(K) = DirAmount(t)
      /\ DirOrder(t)[1] = Root
      /\ \A k \in 1 .. DirAmount(t) : DirOrder(t)[k + 1] = K[k]
      /\ \A e \in Directories(t) :
           \E k \in 1 .. DirAmount(t) + 1 : DirOrder(t)[k] = e
  BY TreeSizes, DirectoriesInOrder
<1>2. Depths(t) = K
  BY DepthsInOrder
<1>3. Parent(d) \in Directories(t)
  BY ParentListsIt DEF SubDirectories, Directories, Entries
<1>4. CASE Parent(d) = Root
  <2>1. ParIndex(t, Depths(t), d) = 1
    BY <1>4 DEF ParIndex
  <2> QED  BY <1>1, <1>4, <2>1
<1>5. CASE Parent(d) # Root
  <2>1. ParIndex(t, Depths(t), d) = 1 + i
    BY <1>2, <1>5 DEF ParIndex
  <2>2. DOMAIN K = 1 .. DirAmount(t)
    <3>1. K \in Seq(Directories(t) \ {Root})
      <4>1. Directories(t) \subseteq DOMAIN t
        BY DEF Directories
      <4> QED  BY <4>1, OrderedNodes
    <3> HIDE DEF K
    <3> QED  BY <1>1, <3>1
  <2>3. \E j \in DOMAIN K : K[j] = Parent(d)
    <3>1. PICK k \in 1 .. DirAmount(t) + 1 : DirOrder(t)[k] = Parent(d)
      BY <1>1, <1>3
    <3>2. k # 1
      BY <1>1, <1>5, <3>1
    <3>3. k - 1 \in 1 .. DirAmount(t) /\ (k - 1) + 1 = k
      BY <1>1, <3>2
    <3> HIDE DEF K
    <3> QED  BY <1>1, <2>2, <3>1, <3>3
  <2>4. i \in 1 .. DirAmount(t) /\ K[i] = Parent(d)
    BY <2>2, <2>3
  <2> HIDE DEF K, i
  <2>5. 1 + i \in 1 .. DirAmount(t) + 1 /\ 1 + i = i + 1
    BY <1>1, <2>4
  <2> QED  BY <1>1, <2>1, <2>4, <2>5
<1> QED  BY <1>4, <1>5

(* A list behind one element.                                              *)
LEMMA OneAndTheRest ==
  ASSUME NEW S, NEW a \in Seq(S), NEW b \in Seq(S), Len(a) = 1
  PROVE  /\ a \o b \in Seq(S) /\ Len(a \o b) = Len(b) + 1
         /\ (a \o b)[1] = a[1]
         /\ \A k \in 1 .. Len(b) : (a \o b)[k + 1] = b[k]
<1>1. Len(b) \in Nat
  OBVIOUS
<1> DEFINE c == a \o b
<1>2. /\ c \in Seq(S)
      /\ Len(c) = Len(a) + Len(b)
      /\ \A i \in 1 .. Len(a) + Len(b) :
           c[i] = IF i <= Len(a) THEN a[i] ELSE b[i - Len(a)]
  BY ConcatProperties
<1> HIDE DEF c
<1>3. /\ Len(c) = Len(b) + 1 /\ c[1] = a[1]
  BY ONLY <1>1, <1>2, Len(a) = 1
<1>4. ASSUME NEW k \in 1 .. Len(b) PROVE c[k + 1] = b[k]
  <2>1. k + 1 \in 1 .. Len(a) + Len(b) /\ ~(k + 1 <= 1) /\ (k + 1) - 1 = k
    BY ONLY <1>1, Len(a) = 1, k \in 1 .. Len(b)
  <2> QED  BY <1>2, <2>1
<1> QED  BY ONLY <1>2, <1>3, <1>4 DEF c

(* The table, entry by entry.                                              *)
LEMMA TableEntries ==
  ASSUME IsTree(tree)
  PROVE  /\ Table \in Seq([node: {DirOrder(tree)[k] : k \in 1 .. DirAmount(tree) + 1},
                           len: {EntryLen(tree, d) : d \in Directories(tree)},
                           name: Nat,
                           sector: {RecordsLocation(d) : d \in Directories(tree)},
                           parent: 1 .. DirAmount(tree) + 1])
         /\ Len(Table) = DirAmount(tree) + 1
         /\ \A k \in 1 .. DirAmount(tree) + 1 :
              /\ Table[k].node = DirOrder(tree)[k]
              /\ Table[k].len = EntryLen(tree, DirOrder(tree)[k])
              /\ Table[k].name = EntryName(tree, DirOrder(tree)[k])
              /\ Table[k].sector = RecordsLocation(DirOrder(tree)[k])
         /\ Table[1].parent = 1
         /\ \A k \in 2 .. DirAmount(tree) + 1 :
              Table[k].parent
                = ParIndex(tree, Depths(tree), DirOrder(tree)[k])
<1> DEFINE N == DirAmount(tree)
           K == Depths(tree)
           O == DirOrder(tree)
           E(k) == TableEntry(tree, global_sector[K[k]],
                              ParIndex(tree, K, K[k]), K[k])
           F == <<TableEntry(tree, DirRecordsStart, 1, Root)>>
           R == [k \in DOMAIN K |-> E(k)]
<1>1. /\ N \in Nat /\ Len(K) = N /\ O[1] = Root /\ Len(O) = N + 1
      /\ \A k \in 1 .. N : O[k + 1] = K[k] /\ O[k + 1] \in SubDirectories(tree)
      /\ O \in Seq(Directories(tree))
  BY TreeSizes, DirectoriesInOrder, DepthsInOrder DEF SubDirectories
<1>2. DOMAIN K = 1 .. N
  BY <1>1 DEF Depths
<1>3. Table = F \o R
  BY DEF Table, FilledPathTable
<1>4. ASSUME NEW k \in 1 .. N
      PROVE  /\ E(k).node = O[k + 1]
             /\ E(k).len = EntryLen(tree, O[k + 1])
             /\ E(k).name = EntryName(tree, O[k + 1])
             /\ E(k).sector = RecordsLocation(O[k + 1])
             /\ E(k).parent = ParIndex(tree, K, O[k + 1])
             /\ E(k).parent \in 1 .. N + 1
  <2>1. K[k] = O[k + 1] /\ K[k] \in SubDirectories(tree) /\ K[k] # Root
    BY <1>1 DEF SubDirectories
  <2>2. ParIndex(tree, K, K[k]) \in 1 .. N + 1
    BY <2>1, ParentNumbered
  <2>3. RecordsLocation(K[k]) = global_sector[K[k]]
    BY <2>1 DEF RecordsLocation
  <2> QED  BY <2>1, <2>2, <2>3 DEF TableEntry
<1>5. \A k \in 1 .. N + 1 :
        O[k] \in Directories(tree) /\ EntryName(tree, O[k]) \in Nat
  <2>1. \A d \in Directories(tree) : EntryName(tree, d) \in Nat
    BY DEF EntryName, IsTree, Directories, Attributes
  <2> QED  BY <1>1, <2>1
<1> DEFINE S == [node: {O[k] : k \in 1 .. N + 1},
                 len: {EntryLen(tree, d) : d \in Directories(tree)},
                 name: Nat,
                 sector: {RecordsLocation(d) : d \in Directories(tree)},
                 parent: 1 .. N + 1]
<1>6. F[1] \in S /\ F[1].node = O[1] /\ F[1].len = EntryLen(tree, O[1])
      /\ F[1].name = EntryName(tree, O[1])
      /\ F[1].sector = RecordsLocation(O[1]) /\ F[1].parent = 1
  <2>1. 1 \in 1 .. N + 1
    BY <1>1
  <2>2. DirRecordsStart = RecordsLocation(Root)
    BY DEF RecordsLocation
  <2> QED  BY <1>1, <1>5, <2>1, <2>2 DEF TableEntry
<1>7. \A k \in 1 .. N : E(k) \in S
  <2> TAKE k \in 1 .. N
  <2>1. k + 1 \in 1 .. N + 1
    BY <1>1
  <2>2. O[k + 1] \in Directories(tree) /\ EntryName(tree, O[k + 1]) \in Nat
    BY <1>5, <2>1
  <2>3. E(k) = [node |-> E(k).node, len |-> E(k).len, name |-> E(k).name,
                sector |-> E(k).sector, parent |-> E(k).parent]
    BY DEF TableEntry
  <2> HIDE DEF E
  <2>4. /\ E(k).node \in {O[j] : j \in 1 .. N + 1}
        /\ E(k).len \in {EntryLen(tree, d) : d \in Directories(tree)}
        /\ E(k).name \in Nat
        /\ E(k).sector \in {RecordsLocation(d) : d \in Directories(tree)}
        /\ E(k).parent \in 1 .. N + 1
    BY <1>4, <2>1, <2>2
  <2> QED  BY <2>3, <2>4
<1> HIDE DEF S, E
<1>8. R \in Seq(S) /\ Len(R) = N
  BY <1>1, <1>2, <1>7
<1>9. F \in Seq(S) /\ Len(F) = 1
  BY <1>6
<1> HIDE DEF F, R
<1>10. /\ Table \in Seq(S) /\ Len(Table) = N + 1
       /\ Table[1] = F[1]
       /\ \A k \in 1 .. N : Table[k + 1] = R[k]
  <2>1. /\ F \o R \in Seq(S) /\ Len(F \o R) = Len(R) + 1
        /\ (F \o R)[1] = F[1]
        /\ \A k \in 1 .. Len(R) : (F \o R)[k + 1] = R[k]
    BY ONLY <1>8, <1>9, OneAndTheRest
  <2> QED  BY ONLY <1>3, <1>8, <2>1
<1>11. \A k \in 1 .. N : Table[k + 1] = E(k)
  <2>1. \A k \in 1 .. N : R[k] = E(k)
    BY ONLY <1>2 DEF R
  <2> QED  BY ONLY <1>10, <2>1
<1>12. \A k \in 2 .. N + 1 : k - 1 \in 1 .. N /\ (k - 1) + 1 = k
  <2> TAKE k \in 2 .. N + 1
  <2>1. N \in Nat
    BY <1>1
  <2> QED  BY ONLY <2>1, k \in 2 .. N + 1
<1>13. \A k \in 2 .. N + 1 :
         /\ Table[k].node = O[k] /\ Table[k].len = EntryLen(tree, O[k])
         /\ Table[k].name = EntryName(tree, O[k])
         /\ Table[k].sector = RecordsLocation(O[k])
         /\ Table[k].parent = ParIndex(tree, K, O[k])
  <2> TAKE k \in 2 .. N + 1
  <2>1. k - 1 \in 1 .. N /\ (k - 1) + 1 = k
    BY <1>12
  <2>2. Table[k] = E(k - 1)
    BY <1>11, <2>1
  <2> QED  BY <1>4, <2>1, <2>2
<1>14. \A k \in 1 .. N + 1 : k = 1 \/ k \in 2 .. N + 1
  BY <1>1
<1>15. \A k \in 1 .. N + 1 :
         /\ Table[k].node = O[k] /\ Table[k].len = EntryLen(tree, O[k])
         /\ Table[k].name = EntryName(tree, O[k])
         /\ Table[k].sector = RecordsLocation(O[k])
  BY <1>6, <1>10, <1>13, <1>14
<1>16. Table[1].parent = 1
  BY <1>6, <1>10
<1> QED  BY <1>10, <1>13, <1>15, <1>16 DEF S
(* The directories, the root first, as a list without repetition.          *)
LEMMA DirectoriesListed ==
  ASSUME NEW t, IsTree(t)
  PROVE  /\ DirAmount(t) \in Nat /\ DirAmount(t) + 1 \in Nat
         /\ DirOrder(t) \in Seq(Directories(t))
         /\ Len(DirOrder(t)) = DirAmount(t) + 1
         /\ DirOrder(t)[1] = Root
         /\ \A i, j \in 1 .. Len(DirOrder(t)) :
              DirOrder(t)[i] = DirOrder(t)[j] => i = j
         /\ \A d \in Directories(t) :
              \E i \in 1 .. Len(DirOrder(t)) : DirOrder(t)[i] = d
         /\ Root \in Directories(t) /\ IsFiniteSet(Directories(t))
<1> DEFINE n == DirAmount(t) + 1
           O == DirOrder(t)
<1>1. DirAmount(t) \in Nat
  BY TreeSizes
<1>2. n \in Nat
  BY <1>1
<1>3. Root \in Directories(t)
  BY DEF IsTree, Directories
<1>4. IsFiniteSet(Directories(t))
  BY FS_Subset DEF IsTree, Directories
<1>5. /\ O \in Seq(Directories(t)) /\ Len(O) = n /\ O[1] = Root
      /\ \A i, j \in 1 .. n : O[i] = O[j] => i = j
      /\ \A d \in Directories(t) : \E i \in 1 .. n : O[i] = d
  BY DirectoriesInOrder
<1> HIDE DEF n, O
<1>6. /\ \A i, j \in 1 .. Len(O) : O[i] = O[j] => i = j
      /\ \A d \in Directories(t) : \E i \in 1 .. Len(O) : O[i] = d
  BY ONLY <1>5
<1> QED  BY ONLY <1>1, <1>2, <1>3, <1>4, <1>5, <1>6 DEF n, O

(* The bytes of the table's entries are those of the primary descriptor.   *)
LEMMA TableBytes ==
  ASSUME IsTree(tree)
  PROVE  SumFunction([i \in DOMAIN Table |-> Table[i].len])
           = PathTableSize(tree)
<1> DEFINE D == Directories(tree)
           f == [d \in D |-> EntryLen(tree, d)]
           O == DirOrder(tree)
           n == DirAmount(tree) + 1
           rest == [d \in D \ {Root} |-> f[d]]
<1>1. /\ DirAmount(tree) \in Nat /\ n \in Nat /\ O \in Seq(D) /\ Len(O) = n
      /\ \A i, j \in 1 .. Len(O) : O[i] = O[j] => i = j
      /\ \A d \in D : \E i \in 1 .. Len(O) : O[i] = d
      /\ Root \in D
  BY DirectoriesListed
<1>2. IsFiniteSet(D)
  BY FS_Subset DEF IsTree, Directories
<1>3. f \in [D -> Nat]
  <2>1. ASSUME NEW d \in D PROVE EntryLen(tree, d) \in Nat
    <3>1. tree[d].len \in Nat
      BY <2>1 DEF IsTree, Directories, Attributes
    <3>2. tree[d].len % 2 \in Nat
      BY <3>1
    <3> QED  BY <3>1, <3>2 DEF EntryLen
  <2> QED  BY <2>1
<1>4. /\ Table \in Seq([node: {DirOrder(tree)[k] : k \in 1 .. DirAmount(tree) + 1},
                           len: {EntryLen(tree, d) : d \in Directories(tree)},
                           name: Nat,
                           sector: {RecordsLocation(d) : d \in Directories(tree)},
                           parent: 1 .. DirAmount(tree) + 1])
      /\ Len(Table) = n
      /\ \A k \in 1 .. n : Table[k].len = EntryLen(tree, O[k])
  BY TableEntries
<1>5. DOMAIN Table = 1 .. n
  <2>1. DOMAIN Table = 1 .. Len(Table)
    BY ONLY <1>4
  <2> QED  BY ONLY <1>4, <2>1
<1>6. \A k \in 1 .. n : O[k] \in D
  BY <1>1
<1>7. \A k \in 1 .. n : Table[k].len = f[O[k]]
  BY <1>4, <1>6
<1>8. [i \in DOMAIN Table |-> Table[i].len] = [i \in 1 .. n |-> f[O[i]]]
  <2> HIDE DEF f, n, O
  <2> QED  BY ONLY <1>5, <1>7
<1>9. SumFunction([i \in DOMAIN Table |-> Table[i].len]) = SumTo(f, O, n)
  BY <1>8 DEF SumTo
<1>10. SumTo(f, O, n) = SumFunction(f)
  <2> HIDE DEF f, n, O, D
  <2>1. SumTo(f, O, Len(O)) = SumFunction(f)
    BY ONLY <1>1, <1>3, SumOfAll
  <2> QED  BY <1>1, <2>1
<1>11. SumFunction(f) = f[Root] + SumFunction(rest)
  <2>1. Root \in D
    BY <1>1
  <2> HIDE DEF f, n, O, D
  <2> QED  BY ONLY <1>2, <1>3, <2>1, SumSplits DEF rest
<1>12. f[Root] = 10
  BY <1>1 DEF EntryLen
<1>13. rest = [d \in D \ {Root} |-> 8 + tree[d].len + (tree[d].len % 2)]
  BY DEF EntryLen
<1>14. SumFunction(rest) = SumFunction([d \in D \ {Root} |->
                                          8 + tree[d].len + (tree[d].len % 2)])
  BY <1>13
<1> HIDE DEF rest, f, O, n
<1> QED  BY <1>9, <1>10, <1>11, <1>12, <1>14 DEF PathTableSize

(* The path table leads to every directory, in every tree.                 *)
LEMMA TableLeads == IsTree(tree) => PathTableLeads
<1> SUFFICES ASSUME IsTree(tree)
             PROVE  /\ Len(Table) = Cardinality(Directories(tree))
                    /\ \A d \in Directories(tree) : \E i \in DOMAIN Table :
                         /\ Table[i].node = d
                         /\ Table[i].parent \in DOMAIN Table
                         /\ Table[Table[i].parent].node
                              = IF d = Root THEN Root ELSE Parent(d)
  BY TableBytes DEF PathTableLeads
<1> DEFINE D == Directories(tree)
           O == DirOrder(tree)
           n == DirAmount(tree) + 1
<1>1. /\ DirAmount(tree) \in Nat /\ n \in Nat /\ O \in Seq(D) /\ Len(O) = n
      /\ O[1] = Root
      /\ \A i, j \in 1 .. Len(O) : O[i] = O[j] => i = j
      /\ \A d \in D : \E i \in 1 .. Len(O) : O[i] = d
      /\ Root \in D
  BY DirectoriesListed
<1>2. n = Cardinality(D)
  <2>1. IsFiniteSet(D)
    BY FS_Subset DEF IsTree, Directories
  <2>2. Len(O) = Cardinality(D)
    <3> HIDE DEF O, n, D
    <3> QED  BY ONLY <1>1, <2>1, LengthOfOnce
  <2> QED  BY <1>1, <2>2
<1>3. /\ Table \in Seq([node: {DirOrder(tree)[k] : k \in 1 .. DirAmount(tree) + 1},
                           len: {EntryLen(tree, d) : d \in Directories(tree)},
                           name: Nat,
                           sector: {RecordsLocation(d) : d \in Directories(tree)},
                           parent: 1 .. DirAmount(tree) + 1])
      /\ Len(Table) = n
      /\ \A k \in 1 .. n : Table[k].node = O[k]
      /\ Table[1].parent = 1
      /\ \A k \in 2 .. n : Table[k].parent
                             = ParIndex(tree, Depths(tree), O[k])
  BY TableEntries
<1>4. DOMAIN Table = 1 .. n
  <2>1. DOMAIN Table = 1 .. Len(Table)
    BY ONLY <1>3
  <2> QED  BY ONLY <1>3, <2>1
<1>5. ASSUME NEW d \in D
      PROVE  \E i \in DOMAIN Table :
               /\ Table[i].node = d
               /\ Table[i].parent \in DOMAIN Table
               /\ Table[Table[i].parent].node
                    = IF d = Root THEN Root ELSE Parent(d)
  <2>1. PICK i \in 1 .. n : O[i] = d
    <3>1. \E i \in 1 .. Len(O) : O[i] = d
      BY <1>1
    <3> HIDE DEF O, n
    <3> QED  BY ONLY <1>1, <3>1
  <2>2. CASE d = Root
    <3>1. 1 \in 1 .. n
      BY <1>1
    <3>2. Table[1].node = Root /\ Table[1].parent = 1
      BY <1>1, <1>3, <3>1
    <3> QED  BY ONLY <1>4, <2>2, <3>1, <3>2
  <2>3. CASE d # Root
    <3>1. i \in 2 .. n
      <4>1. i # 1
        BY <1>1, <2>1, <2>3
      <4>2. n \in Nat /\ i \in 1 .. n
        BY <1>1, <2>1
      <4> HIDE DEF n
      <4> QED  BY ONLY <4>1, <4>2
    <3>2. d \in SubDirectories(tree)
      BY <2>3 DEF SubDirectories
    <3>3. /\ ParIndex(tree, Depths(tree), d) \in 1 .. n
          /\ O[ParIndex(tree, Depths(tree), d)] = Parent(d)
      BY <3>2, ParentNumbered
    <3>4. Table[i].parent = ParIndex(tree, Depths(tree), d)
      BY <1>3, <2>1, <3>1
    <3> HIDE DEF O, n
    <3> QED  BY <1>3, <1>4, <2>1, <2>3, <3>3, <3>4
  <2> QED  BY <2>2, <2>3
<1> QED  BY <1>2, <1>3, <1>5

(* Path table: whatever the tree, every directory has one entry, its parent*)
(* number is its parent's entry, and the table is as long as claimed.      *)
THEOREM TableLeadsToAll == Spec => []PathTableLeads
<1>1. PlanInv => PathTableLeads
  BY PlanFacts, TableLeads
<1> QED  BY <1>1, PlanInvInit, PlanInvStep, PTL DEF Spec
(* The first names of a path are those of its parent's.                    *)
LEMMA PrefixOfParent ==
  ASSUME NEW t, IsTree(t), NEW p \in Entries(t), NEW k \in 1 .. Len(p) - 1
  PROVE  Prefix(Parent(p), k) = Prefix(p, k)
<1>1. /\ p \in Seq(Nat \ {0}) /\ Len(p) \in Nat \ {0}
      /\ Parent(p) \in Seq(Nat \ {0}) /\ Len(Parent(p)) = Len(p) - 1
      /\ p # <<>>
  BY ParentListsIt DEF Entries, Root
<1>2. \A i \in 1 .. Len(p) - 1 : Parent(p)[i] = p[i]
  BY ONLY <1>1, AllButLast
<1>3. /\ Prefix(p, k) = [i \in 1 .. k |-> p[i]]
      /\ Prefix(Parent(p), k) = [i \in 1 .. k |-> Parent(p)[i]]
  <2>1. k \in Int /\ 1 \in Int /\ k \in 1 .. Len(p) /\ k \in 1 .. Len(Parent(p))
    BY <1>1
  <2>2. SubSeq(p, 1, k) = [i \in 1 .. k |-> p[i]]
    BY ONLY <1>1, <2>1
  <2>3. SubSeq(Parent(p), 1, k) = [i \in 1 .. k |-> Parent(p)[i]]
    BY ONLY <1>1, <2>1
  <2> QED  BY <2>2, <2>3 DEF Prefix
<1>4. \A i \in 1 .. k : Parent(p)[i] = p[i]
  <2> TAKE i \in 1 .. k
  <2>1. i \in 1 .. Len(p) - 1
    BY <1>1
  <2> QED  BY <1>2, <2>1
<1> QED  BY ONLY <1>3, <1>4

(* All of a node's path is the path.                                       *)
LEMMA WholePrefix ==
  ASSUME NEW t, IsTree(t), NEW p \in Entries(t)
  PROVE  Prefix(p, Len(p)) = p
<1>1. p \in Seq(Nat \ {0}) /\ Len(p) \in Nat \ {0}
  BY ParentListsIt
<1>2. SubSeq(p, 1, Len(p)) = p
  BY ONLY <1>1
<1> QED  BY <1>2 DEF Prefix

(* Siblings are in the order of their names,                               *)
LEMMA SiblingsInOrder ==
  ASSUME NEW t, IsTree(t), NEW p \in Entries(t), NEW q \in Entries(t),
         Before(t, p, q), Parent(p) = Parent(q)
  PROVE  t[p].rank < t[q].rank
<1>1. /\ Len(p) \in Nat \ {0} /\ Len(q) \in Nat \ {0}
      /\ Len(Parent(p)) = Len(p) - 1 /\ Len(Parent(q)) = Len(q) - 1
  BY ParentListsIt
<1>2. Len(p) = Len(q)
  BY <1>1
<1>3. PICK k \in 1 .. Len(p) : RankAt(t, p, k) < RankAt(t, q, k)
  BY <1>1, <1>2 DEF Before
<1>4. CASE k < Len(p)
  <2>1. k \in 1 .. Len(p) - 1 /\ k \in 1 .. Len(q) - 1
    BY <1>1, <1>2, <1>4
  <2>2. Prefix(p, k) = Prefix(q, k)
    BY <2>1, PrefixOfParent
  <2>3. RankAt(t, p, k) \in Nat
    BY RanksAreNat DEF Entries
  <2> QED  BY <1>3, <2>2, <2>3 DEF RankAt
<1>5. CASE k = Len(p)
  <2>1. Prefix(p, k) = p /\ Prefix(q, k) = q
    BY <1>2, <1>5, WholePrefix
  <2> QED  BY <1>3, <2>1 DEF RankAt
<1> QED  BY <1>1, <1>4, <1>5

(* others in the order of their parents.                                   *)
LEMMA ParentsInOrder ==
  ASSUME NEW t, IsTree(t), NEW p \in Entries(t), NEW q \in Entries(t),
         Before(t, p, q), Parent(p) # Parent(q), Parent(p) # Root
  PROVE  Parent(q) # Root /\ Before(t, Parent(p), Parent(q))
<1> DEFINE a == Parent(p)
           b == Parent(q)
<1>1. /\ Len(p) \in Nat \ {0} /\ Len(q) \in Nat \ {0}
      /\ Len(a) = Len(p) - 1 /\ Len(b) = Len(q) - 1
      /\ a \in Directories(t) /\ b \in Directories(t)
      /\ a \in Seq(Nat \ {0}) /\ b \in Seq(Nat \ {0})
  BY ParentListsIt
<1>2. a \in Entries(t) /\ Len(a) # 0
  <2>1. a # <<>>
    BY DEF Root
  <2>2. Len(a) # 0
    <3> HIDE DEF a
    <3> QED  BY ONLY <1>1, <2>1, SMTT(30)
  <2> QED  BY <1>1, <2>2 DEF Directories, Entries
<1>3. Len(q) # 1 => b # Root /\ b \in Entries(t)
  <2>1. Len(q) # 1 => Len(b) # 0
    BY <1>1
  <2>2. Len(Root) = 0
    BY DEF Root
  <2> QED  BY <1>1, <2>1, <2>2 DEF Directories, Entries
<1>4. CASE Len(p) < Len(q)
  <2>1. Len(a) < Len(b) /\ Len(q) # 1
    BY <1>1, <1>4, SMTT(30)
  <2> QED  BY <1>3, <2>1 DEF Before
<1>5. CASE ~(Len(p) < Len(q))
  <2>1. Len(p) = Len(q)
    BY <1>5 DEF Before
  <2>2. PICK k \in 1 .. Len(p) :
          /\ RankAt(t, p, k) < RankAt(t, q, k)
          /\ \A j \in 1 .. k - 1 : RankAt(t, p, j) = RankAt(t, q, j)
    BY <1>5 DEF Before
  <2>3. b # Root /\ b \in Entries(t) /\ Len(a) = Len(b)
    BY <1>1, <1>2, <1>3, <2>1
  <2>4. \A j \in 1 .. Len(a) :
          RankAt(t, a, j) = RankAt(t, p, j) /\ RankAt(t, b, j) = RankAt(t, q, j)
    <3> TAKE j \in 1 .. Len(a)
    <3>1. j \in 1 .. Len(p) - 1 /\ j \in 1 .. Len(q) - 1
      BY <1>1, <2>1
    <3>2. Prefix(a, j) = Prefix(p, j) /\ Prefix(b, j) = Prefix(q, j)
      BY <3>1, PrefixOfParent
    <3> QED  BY <3>2 DEF RankAt
  <2>5. CASE k < Len(p)
    <3>1. k \in 1 .. Len(a) /\ \A j \in 1 .. k - 1 : j \in 1 .. Len(a)
      BY <1>1, <2>5
    <3>2. /\ RankAt(t, a, k) < RankAt(t, b, k)
          /\ \A j \in 1 .. k - 1 : RankAt(t, a, j) = RankAt(t, b, j)
      BY <2>2, <2>4, <3>1
    <3> HIDE DEF a, b
    <3> QED  BY <2>3, <3>1, <3>2 DEF Before, a, b
  <2>6. CASE k = Len(p)
    <3>1. \A j \in 1 .. Len(a) : j \in 1 .. k - 1
      BY <1>1, <2>6
    <3>2. \A j \in 1 .. Len(a) : RankAt(t, a, j) = RankAt(t, b, j)
      BY <2>2, <2>4, <3>1
    <3>3. \A j \in 1 .. Len(a) : RankAt(t, a, j) \in Nat
      BY <1>2, RanksAreNat DEF Entries
    <3>4. Before(t, a, b) \/ Before(t, b, a)
      BY <1>2, <2>3, BeforeTotal
    <3>5. Len(a) \in Nat
      BY <1>1
    <3> HIDE DEF a, b
    <3>6. ~Before(t, a, b)
      BY <2>3, <3>2, <3>3, <3>5 DEF Before
    <3>7. ~Before(t, b, a)
      BY <2>3, <3>2, <3>3, <3>5 DEF Before
    <3> QED  BY <3>4, <3>6, <3>7
  <2> QED  BY <1>1, <2>5, <2>6
<1> QED  BY <1>4, <1>5

(* Every directory has records, so that the next one's come behind.        *)
LEMMA RecordsAscend ==
  ASSUME NEW t, IsTree(t), NEW m \in Nat, NEW n \in Nat,
         m < n, n <= DirAmount(t) + 1
  PROVE  /\ RecordsTo(t, m) \in Nat /\ RecordsTo(t, n) \in Nat
         /\ RecordsTo(t, m) < RecordsTo(t, n)
<1> DEFINE b == DirAmount(t) - m
           G == {k \in Nat : /\ RecordsTo(t, m) \in Nat
                             /\ RecordsTo(t, m + (k + 1)) \in Nat
                             /\ RecordsTo(t, m) < RecordsTo(t, m + (k + 1))}
<1>1. DirAmount(t) \in Nat /\ b \in Nat
  BY TreeSizes
<1>2. ASSUME NEW i \in Nat, i <= DirAmount(t)
      PROVE  /\ RecordsTo(t, i) \in Nat /\ RecordsTo(t, i + 1) \in Nat
             /\ RecordsTo(t, i) < RecordsTo(t, i + 1)
  <2>1. /\ RecordsTo(t, i) \in Nat
        /\ RecordSectors(t, DirOrder(t)[i + 1]) \in Nat
        /\ RecordsTo(t, i + 1)
             = RecordsTo(t, i) + RecordSectors(t, DirOrder(t)[i + 1])
    BY <1>2, RecordsAlong
  <2>2. RecordSectors(t, DirOrder(t)[i + 1]) >= 1
    BY AtLeastOneSector
  <2> QED  BY <2>1, <2>2
<1>3. 0 \in G
  <2>1. m <= DirAmount(t) /\ m + (0 + 1) = m + 1
    BY <1>1
  <2> QED  BY <1>2, <2>1
<1>4. ASSUME NEW k \in Nat, k < b, k \in G
      PROVE  k + 1 \in G
  <2>1. m + (k + 1) \in Nat /\ m + (k + 1) <= DirAmount(t)
        /\ (m + (k + 1)) + 1 = m + ((k + 1) + 1)
    BY <1>1, <1>4
  <2>2. /\ RecordsTo(t, m + (k + 1)) \in Nat
        /\ RecordsTo(t, m + ((k + 1) + 1)) \in Nat
        /\ RecordsTo(t, m + (k + 1)) < RecordsTo(t, m + ((k + 1) + 1))
    BY <1>2, <2>1
  <2> QED  BY <1>4, <2>2
<1>5. G \in SUBSET Nat
  OBVIOUS
<1> HIDE DEF G, b
<1>6. \A k \in 0 .. b : k \in G
  BY ONLY <1>1, <1>3, <1>4, <1>5, Upwards
<1>7. n - m - 1 \in 0 .. b /\ m + ((n - m - 1) + 1) = n
  BY <1>1 DEF b
<1>8. n - m - 1 \in G
  BY <1>6, <1>7
<1> QED  BY <1>7, <1>8 DEF G
(* A later directory has a later parent, or the same and a later name.     *)
LEMMA NumbersInOrder ==
  ASSUME NEW t, IsTree(t), NEW p \in SubDirectories(t), NEW q \in SubDirectories(t),
         Before(t, p, q)
  PROVE  LET a == ParIndex(t, Depths(t), p)
             b == ParIndex(t, Depths(t), q)
         IN  a <= b /\ (a = b => t[p].rank < t[q].rank)
<1> DEFINE a == ParIndex(t, Depths(t), p)
           b == ParIndex(t, Depths(t), q)
           O == DirOrder(t)
           n == DirAmount(t) + 1
           K == InOrder(t, Directories(t))
<1>1. /\ a \in 1 .. n /\ O[a] = Parent(p)
      /\ b \in 1 .. n /\ O[b] = Parent(q)
  BY ParentNumbered
<1>2. p \in Entries(t) /\ q \in Entries(t)
  BY DEF SubDirectories, Directories, Entries
<1>3. /\ DirAmount(t) \in Nat /\ Len(O) = n /\ O[1] = Root
      /\ \A i, j \in 1 .. Len(O) : O[i] = O[j] => i = j
  BY DirectoriesListed
<1>4. /\ Len(K) = DirAmount(t)
      /\ \A k \in 1 .. DirAmount(t) : O[k + 1] = K[k] /\ K[k] \in Directories(t) \ {Root}
  BY DirectoriesInOrder
<1>5. a \in Int /\ b \in Int /\ a >= 1 /\ b >= 1
  BY <1>1, <1>3
<1>6. CASE Parent(p) = Parent(q)
  <2>1. t[p].rank < t[q].rank
    BY <1>2, <1>6, SiblingsInOrder
  <2>2. O[a] = O[b] /\ a \in 1 .. Len(O) /\ b \in 1 .. Len(O)
    BY <1>1, <1>3, <1>6
  <2>3. a = b
    <3> HIDE DEF a, b, O
    <3> QED  BY ONLY <1>3, <2>2
  <2> QED  BY <1>5, <2>1, <2>3
<1>7. CASE Parent(p) # Parent(q) /\ Parent(p) = Root
  <2>1. a # b
    <3> HIDE DEF a, b, O
    <3> QED  BY ONLY <1>1, <1>7
  <2>2. O[a] = O[1] /\ a \in 1 .. Len(O) /\ 1 \in 1 .. Len(O)
    BY <1>1, <1>3, <1>7
  <2>3. a = 1
    <3> HIDE DEF a, b, O
    <3> QED  BY ONLY <1>3, <2>2
  <2> QED  BY <1>5, <2>1, <2>3
<1>8. CASE Parent(p) # Parent(q) /\ Parent(p) # Root
  <2>1. Parent(q) # Root /\ Before(t, Parent(p), Parent(q))
    BY <1>2, <1>8, ParentsInOrder
  <2>2. a # 1 /\ b # 1 /\ a # b
    <3> HIDE DEF a, b, O
    <3> QED  BY ONLY <1>1, <1>3, <1>8, <2>1
  <2>3. /\ a - 1 \in 1 .. DirAmount(t) /\ (a - 1) + 1 = a
        /\ b - 1 \in 1 .. DirAmount(t) /\ (b - 1) + 1 = b
    <3> HIDE DEF a, b
    <3> QED  BY ONLY <1>1, <1>3, <2>2
  <2>4. K[a - 1] = Parent(p) /\ K[b - 1] = Parent(q)
    <3> HIDE DEF a, b, O, K
    <3>1. O[(a - 1) + 1] = K[a - 1] /\ O[(b - 1) + 1] = K[b - 1]
      BY ONLY <1>4, <2>3
    <3> QED  BY ONLY <1>1, <2>3, <3>1
  <2>5. a < b
    <3> HIDE DEF a, b
    <3> SUFFICES ASSUME b < a PROVE FALSE
      BY <1>5, <2>2
    <3>2. Directories(t) \subseteq DOMAIN t
      BY DEF Directories
    <3>3. b - 1 < a - 1
      BY <1>5
    <3>4. Before(t, K[b - 1], K[a - 1])
      <4>1. a - 1 \in 1 .. Len(K) /\ b - 1 \in 1 .. Len(K)
        BY <1>4, <2>3
      <4> QED  BY <3>2, <3>3, <4>1, OrderedBefore
    <3>5. Parent(p) \in Entries(t) /\ Parent(q) \in Entries(t)
      BY <1>2, <1>8, <2>1, ParentListsIt DEF Directories, Entries
    <3>6. Before(t, Parent(q), Parent(p))
      BY ONLY <2>4, <3>4
    <3>7. Before(t, Parent(p), Parent(p))
      BY ONLY IsTree(t), <2>1, <3>5, <3>6, BeforeTransitive
    <3> QED  BY ONLY IsTree(t), <3>5, <3>7, BeforeIrreflexive
  <2> QED  BY <1>5, <2>5
<1> QED  BY <1>6, <1>7, <1>8

(* The order of the table, once the directories have their sectors.        *)
LEMMA TableOrdered ==
  ASSUME IsTree(tree), PlacesInv
  PROVE  PathTableOrdered
<1> DEFINE O == DirOrder(tree)
           N == DirAmount(tree)
           K == InOrder(tree, Directories(tree))
<1> SUFFICES ASSUME step = "path_tables",
                    NEW i \in 2 .. Len(Table), NEW j \in 2 .. Len(Table), i < j
             PROVE  /\ Table[i].parent <= Table[j].parent
                    /\ Table[i].parent = Table[j].parent =>
                         /\ tree[Table[i].node].rank < tree[Table[j].node].rank
                         /\ CaseKept(tree) => Table[i].name < Table[j].name
                    /\ Table[i].sector < Table[j].sector
  BY DEF PathTableOrdered
<1>1. /\ Len(Table) = N + 1
      /\ \A k \in 1 .. N + 1 : /\ Table[k].node = O[k]
                               /\ Table[k].name = EntryName(tree, O[k])
                               /\ Table[k].sector = RecordsLocation(O[k])
      /\ \A k \in 2 .. N + 1 :
           Table[k].parent = ParIndex(tree, Depths(tree), O[k])
  BY TableEntries
<1>2. /\ N \in Nat /\ Len(K) = N
      /\ \A k \in 1 .. N : O[k + 1] = K[k] /\ O[k + 1] \in Directories(tree) \ {Root}
  BY TreeSizes, DirectoriesInOrder
<1> HIDE DEF O, N, K
<1>3. /\ i \in 2 .. N + 1 /\ j \in 2 .. N + 1 /\ i \in 1 .. N + 1 /\ j \in 1 .. N + 1
      /\ i - 1 \in 1 .. N /\ j - 1 \in 1 .. N
      /\ (i - 1) + 1 = i /\ (j - 1) + 1 = j
  BY <1>1, <1>2
<1>4. /\ Table[i].node = O[i] /\ Table[j].node = O[j]
      /\ Table[i].name = EntryName(tree, O[i])
      /\ Table[j].name = EntryName(tree, O[j])
      /\ Table[i].sector = RecordsLocation(O[i])
      /\ Table[j].sector = RecordsLocation(O[j])
      /\ Table[i].parent = ParIndex(tree, Depths(tree), O[i])
      /\ Table[j].parent = ParIndex(tree, Depths(tree), O[j])
  BY ONLY <1>1, <1>3
<1>5. /\ O[i] = K[i - 1] /\ O[j] = K[j - 1]
      /\ O[i] \in Directories(tree) \ {Root} /\ O[j] \in Directories(tree) \ {Root}
  BY ONLY <1>2, <1>3
<1>6. O[i] \in SubDirectories(tree) /\ O[j] \in SubDirectories(tree)
  BY <1>5 DEF SubDirectories
<1>7. Before(tree, O[i], O[j])
  <2>1. Directories(tree) \subseteq DOMAIN tree
    BY DEF Directories
  <2>2. i - 1 \in 1 .. Len(K) /\ j - 1 \in 1 .. Len(K) /\ i - 1 < j - 1
    BY <1>2, <1>3
  <2>3. Before(tree, K[i - 1], K[j - 1])
    BY <2>1, <2>2, OrderedBefore DEF K
  <2> QED  BY <1>5, <2>3
<1>8. /\ Table[i].parent <= Table[j].parent
      /\ Table[i].parent = Table[j].parent =>
           tree[Table[i].node].rank < tree[Table[j].node].rank
  BY <1>4, <1>6, <1>7, NumbersInOrder
<1>9. ASSUME Table[i].parent = Table[j].parent, CaseKept(tree)
      PROVE  Table[i].name < Table[j].name
  <2>1. Parent(O[i]) = Parent(O[j])
    <3>1. DirOrder(tree)[Table[i].parent] = Parent(O[i])
      BY <1>4, <1>6, ParentNumbered
    <3>2. DirOrder(tree)[Table[j].parent] = Parent(O[j])
      BY <1>4, <1>6, ParentNumbered
    <3> QED  BY ONLY <1>9, <3>1, <3>2
  <2>2. tree[O[i]].rank < tree[O[j]].rank
    BY <1>4, <1>8, <1>9
  <2>3. tree[O[i]].upper < tree[O[j]].upper
    BY ONLY CaseKept(tree), <1>6, <2>1, <2>2 DEF CaseKept
  <2>4. O[i] # Root /\ O[j] # Root
    BY <1>5
  <2> QED  BY ONLY <1>4, <2>3, <2>4 DEF EntryName
<1>10. Table[i].sector < Table[j].sector
  <2>1. \A k \in 1 .. N : DirectoryPlanned(k)
    BY DEF PlacesInv, DirectoriesPlanned, N
  <2>2. \A k \in 1 .. N :
          global_sector[O[k + 1]]
            = DirRecordsStart + 1
                + (RecordsTo(tree, k) - RecordSectors(tree, Root))
    BY <2>1 DEF DirectoryPlanned, O
  <2>3. /\ Table[i].sector = DirRecordsStart + 1
             + (RecordsTo(tree, i - 1) - RecordSectors(tree, Root))
        /\ Table[j].sector = DirRecordsStart + 1
             + (RecordsTo(tree, j - 1) - RecordSectors(tree, Root))
    BY <1>3, <1>4, <1>5, <2>2 DEF RecordsLocation
  <2>4. /\ RecordsTo(tree, i - 1) \in Nat /\ RecordsTo(tree, j - 1) \in Nat
        /\ RecordsTo(tree, i - 1) < RecordsTo(tree, j - 1)
    <3>1. i - 1 \in Nat /\ j - 1 \in Nat /\ i - 1 < j - 1 /\ j - 1 <= N + 1
      BY <1>2, <1>3
    <3> QED  BY <3>1, RecordsAscend DEF N
  <2>5. RecordSectors(tree, Root) \in Nat /\ DirRecordsStart \in Nat
    BY DirectorySizes DEF DirRecordsStart
  <2> HIDE DEF DirRecordsStart
  <2> QED  BY ONLY <2>3, <2>4, <2>5
<1> QED  BY <1>8, <1>9, <1>10

(* Whatever the tree, the table's entries ascend by their parent's number, *)
(* then by their names in the source directory, and in the order in which  *)
(* the planner placed the directories' records.                            *)
THEOREM TableIsOrdered == Spec => []PathTableOrdered
<1>1. PlanInv /\ PlacesInv => PathTableOrdered
  BY PlanFacts, TableOrdered
<1> QED
  BY <1>1, PlanInvInit, PlanInvStep, PlacesInvInit, PlacesInvStep, PTL DEF Spec
-----------------------------------------------------------------------------
(* write_sectors, against that plan.  Its regions, each with those behind  *)
(* it.                                                                     *)
FromEnd == {"end", "done"}
FromData == {"data"} \cup FromEnd
FromFileEntries == {"file_entries"} \cup FromData
FromDirectoryEntries == {"directory_entries"} \cup FromFileEntries
FromRootEntry == {"root_entry"} \cup FromDirectoryEntries
FromIdentifiers == {"identifiers", "entries"} \cup FromRootEntry
FromFileSet == {"file_set"} \cup FromIdentifiers
FromDirectory == {"directory"} \cup FromFileSet
FromPathTables == {"path_tables"} \cup FromDirectory
FromAnchor == {"anchor"} \cup FromPathTables
FromIntegrity == {"integrity"} \cup FromAnchor
FromDescriptors == {"volume_descriptors"} \cup FromIntegrity

(* Where its loops are.                                                    *)
LoopInv ==
  /\ step \in PlanSteps \cup {"header", "terminated"} \cup FromDescriptors
  /\ at \in Nat
  /\ step \in {"header", "integrity", "anchor", "path_tables", "file_set",
               "root_entry", "end", "done"} => at = 0
  /\ step = "volume_descriptors" => at \in {0, 1}
  /\ step \in {"directory", "identifiers", "entries"} =>
       at \in 0 .. DirAmount(tree)
  /\ step = "directory_entries" => at \in 1 .. DirAmount(tree) + 1
  /\ step \in {"file_entries", "data"} => at \in 0 .. FileAmount(tree)

(* How many directories' records and identifiers, file entries and files   *)
(* are written.                                                            *)
RecordsWritten ==
  IF step = "directory" THEN at
  ELSE IF step \in FromFileSet THEN DirAmount(tree) + 1 ELSE 0
IdsWritten ==
  IF step \in {"identifiers", "entries"} THEN at
  ELSE IF step \in FromRootEntry THEN DirAmount(tree) + 1 ELSE 0
DirectoryEntriesWritten ==
  IF step = "directory_entries" THEN at
  ELSE IF step \in FromFileEntries THEN DirAmount(tree) + 1 ELSE 0
FileEntriesWritten ==
  IF step = "file_entries" THEN at
  ELSE IF step \in FromData THEN FileAmount(tree) ELSE 0
FilesWritten ==
  IF step = "data" THEN at
  ELSE IF step \in FromEnd THEN FileAmount(tree) ELSE 0

-----------------------------------------------------------------------------
(* The block of a node's file entry.                                       *)
EntryBlock(p) == IF p = Root THEN 2 + FileIdentifiersAmount(tree) ELSE lba[p]

CurrentIdentifiers ==
  LET d == DirOrder(tree)[at + 1]
  IN  /\ fi_root.icb = EntryBlock(d)
      /\ entry <= Len(Listing(tree, d))
      /\ needed_memory = FidBase + IdBytesTo(tree, d, entry)
      /\ needed_sectors = needed_memory \div Sector + 1

IdentifiersInv ==
  /\ entry \in Nat /\ needed_memory \in Nat /\ needed_sectors \in Nat
  /\ log_block_num \in Nat /\ fi_root.icb \in Nat
  /\ ident_sizes \in [Directories(tree) -> Nat]
  /\ step = "identifiers" /\ at = 0 => fi_root.icb = EntryBlock(Root)
  /\ step = "entries" => CurrentIdentifiers
  /\ \A k \in 1 .. IdsWritten :
       ident_sizes[DirOrder(tree)[k]] = FidBytes(tree, DirOrder(tree)[k])
  /\ step = "directory_entries" /\ RootIdsFit =>
       log_block_num = 2 + IdsTo(tree, at)

-----------------------------------------------------------------------------
(* Where each region begins: in the partition, as long as the sectors the  *)
(* planner counted are those that are written.                             *)
PositionInv ==
  /\ current_sector \in Nat
  /\ step \in PlanSteps \cup {"header"} => current_sector = 0
  /\ step = "volume_descriptors" => current_sector = 32 + 16 * at
  /\ step = "integrity" => current_sector = 64
  /\ step = "anchor" => current_sector = 256
  /\ step = "path_tables" => current_sector = 257
  /\ step = "directory" /\ (at = 0 \/ NamesFit) =>
       current_sector = DirRecordsStart + RecordsTo(tree, at)
  /\ step = "file_set" /\ NamesFit => current_sector = partition_start_sector
  /\ step \in {"identifiers", "entries"} /\ NoExactFit =>
       current_sector = partition_start_sector + (2 + IdsTo(tree, at))
  /\ step \in {"root_entry", "directory_entries"} /\ NoExactFit =>
       current_sector
         = partition_start_sector + (2 + FileIdentifiersAmount(tree) + at)
  /\ step = "file_entries" /\ NoExactFit =>
       current_sector = partition_start_sector
         + (2 + FileIdentifiersAmount(tree) + (DirAmount(tree) + 1) + at)
  /\ step = "data" /\ NoExactFit =>
       current_sector = data_sector + DataTo(tree, at)
  /\ step = "end" /\ NoExactFit => current_sector
       = data_sector + DataTo(tree, FileAmount(tree)) + pad_sectors
  /\ step = "done" /\ NoExactFit => current_sector
       = data_sector + DataTo(tree, FileAmount(tree)) + pad_sectors + 1

(* What has been written, and where.                                       *)
Has(what, node, start) ==
  \E e \in extents : e.what = what /\ e.node = node /\ e.start = start

HeaderInv ==
  /\ step \in FromDescriptors => Has("iso_pvd", Root, 16)
  /\ (step = "volume_descriptors" /\ at = 1) \/ step \in FromIntegrity =>
       Has("main_vds", Root, 32)
  /\ step \in FromIntegrity => Has("reserve_vds", Root, 48)
  /\ step \in FromAnchor => Has("lvid", Root, 64)
  /\ step \in FromPathTables => Has("anchor", Root, 256)
  /\ step \in FromDirectory => /\ Has("path_table_L", Root, 257)
                               /\ Has("path_table_opt_L", Root, 258)
                               /\ Has("path_table_M", Root, 259)
                               /\ Has("path_table_opt_M", Root, 260)
  /\ step \in FromIdentifiers /\ NamesFit =>
       Has("fsd", Root, partition_start_sector)

RecordsInv ==
  \A k \in 1 .. RecordsWritten : k = 1 \/ NamesFit =>
    Has("records", DirOrder(tree)[k], DirRecordsStart + RecordsTo(tree, k - 1))

IdsHere(k) ==
  Has("fids", DirOrder(tree)[k],
      partition_start_sector + (2 + IdsTo(tree, k - 1)))
DirectoryEntryHere(k) ==
  Has("fe", DirOrder(tree)[k],
      partition_start_sector + (2 + FileIdentifiersAmount(tree) + (k - 1)))
FileEntryHere(k) ==
  Has("fe", FileOrder(tree)[k],
      partition_start_sector
        + (2 + FileIdentifiersAmount(tree) + (DirAmount(tree) + 1) + (k - 1)))
DataHere(k) ==
  Has("data", FileOrder(tree)[k], data_sector + DataTo(tree, k - 1))

PartitionInv ==
  NoExactFit =>
    /\ \A k \in 1 .. IdsWritten : IdsHere(k)
    /\ \A k \in 1 .. DirectoryEntriesWritten : DirectoryEntryHere(k)
    /\ \A k \in 1 .. FileEntriesWritten : FileEntryHere(k)
    /\ \A k \in 1 .. FilesWritten : DataHere(k)

-----------------------------------------------------------------------------
(* Every pointer names the place its target was planned at.                *)
FixedPlaces ==
  {<<"records", DirRecordsStart>>, <<"path_table_L", 257>>,
   <<"path_table_opt_L", 258>>, <<"path_table_M", 259>>,
   <<"path_table_opt_M", 260>>, <<"lvid", 64>>, <<"main_vds", 32>>,
   <<"reserve_vds", 48>>}

Right(q) ==
  /\ q.target \in DOMAIN tree /\ q.sector \in Nat
  /\ q.to = "records" =>
       q.target \in Directories(tree) /\ q.sector = RecordsLocation(q.target)
  /\ q.to = "data" =>
       q.target \in PlainFiles(tree) /\ q.sector = global_sector[q.target]
  /\ q.to = "fe" =>
       q.sector = partition_start_sector + EntryBlock(q.target)
  /\ q.to = "fids" =>
       /\ q.target \in Directories(tree)
       /\ RootIdsFit =>
            \A k \in 1 .. DirAmount(tree) + 1 : DirOrder(tree)[k] = q.target =>
              q.sector = partition_start_sector + (2 + IdsTo(tree, k - 1))
  /\ q.from \in {"iso_pvd", "lvd", "anchor", "end_of_session"} =>
       q.target = Root /\ <<q.to, q.sector>> \in FixedPlaces

PointersInv ==
  /\ step \in PlanSteps => pointers = {}
  /\ \A q \in pointers : Right(q)

-----------------------------------------------------------------------------
(* Tags count from the file set descriptor, whatever the sizes.            *)
InPart == {"fsd", "fe", "fids"}
FileSets == {e \in extents : e.what = "fsd"}

BlockOf(f, sector) == (sector - f.start) % LbaMod

Tagged(e, f) == e.tag = BlockOf(f, e.start)

IdentifierTagged(i, f) ==
  \/ /\ step = "entries" /\ i.dir = DirOrder(tree)[at + 1]
     /\ i.tag = BlockOf(f, current_sector + (i.offset \div Sector))
  \/ \E e \in extents :
       /\ e.what = "fids" /\ e.node = i.dir
       /\ i.tag = BlockOf(f, e.start + (i.offset \div Sector))

NextTag(f) ==
  /\ step \in {"identifiers", "root_entry", "directory_entries",
               "file_entries"} => cur_spec_lba = BlockOf(f, current_sector)
  /\ step = "entries" =>
       /\ cur_spec_lba = BlockOf(f, current_sector + (needed_sectors - 1))
       /\ fi_root.tag = BlockOf(f, current_sector)

TagInv ==
  /\ cur_spec_lba \in 0 .. LbaMod - 1
  /\ \A e \in extents : e.start \in Nat /\ e.len \in Nat
  /\ \A i \in identifiers : i.offset \in Nat
  /\ step \notin FromIdentifiers =>
       identifiers = {} /\ \A e \in extents : e.what \notin InPart
  /\ step \in FromIdentifiers => FileSets # {}
  /\ \A e, f \in FileSets : e.start = f.start
  /\ \A f \in FileSets :
       /\ NextTag(f)
       /\ \A e \in extents : e.what \in {"fe", "fids"} => Tagged(e, f)
       /\ \A i \in identifiers : IdentifierTagged(i, f)

(* All of it together.                                                     *)
WriterInv ==
  /\ LoopInv /\ IdentifiersInv /\ PositionInv /\ HeaderInv /\ RecordsInv
  /\ PartitionInv /\ PointersInv /\ TagInv
-----------------------------------------------------------------------------
(* What a list of regions adds up to.                                      *)
LaySum(list, n) == SumFunction([j \in 1 .. n |-> list[j][2]])

(* No region, no sectors;                                                  *)
LEMMA LaySumNone == ASSUME NEW list PROVE LaySum(list, 0) = 0
BY SumOfNone DEF LaySum

(* one region more adds its own.                                           *)
LEMMA LaySumNext ==
  ASSUME NEW list, NEW n \in Nat, \A j \in 1 .. n + 1 : list[j][2] \in Nat
  PROVE  LaySum(list, n + 1) = LaySum(list, n) + list[n + 1][2]
<1> DEFINE m == n + 1
           f == [j \in 1 .. m |-> list[j][2]]
<1>1. f \in [1 .. n + 1 -> Nat]
  OBVIOUS
<1>2. n + 1 \in 1 .. n + 1 /\ \A j \in 1 .. n : j \in 1 .. m
  OBVIOUS
<1>3. f[n + 1] = list[n + 1][2] /\ [j \in 1 .. n |-> f[j]] = [j \in 1 .. n |-> list[j][2]]
  BY <1>2
<1>4. SumFunction(f) = LaySum(list, n + 1)
  BY DEF LaySum
<1> HIDE DEF f
<1>5. SumFunction(f) = f[n + 1] + SumFunction([j \in 1 .. n |-> f[j]])
  BY ONLY <1>1, n \in Nat, SumOfNext
<1>6. [j \in 1 .. n |-> list[j][2]] \in [1 .. n -> Nat]
  BY <1>2
<1>7. LaySum(list, n) \in Nat
  <2>1. IsFiniteSet(1 .. n)
    BY FS_Interval
  <2> DEFINE g == [j \in 1 .. n |-> list[j][2]]
  <2>2. g \in [1 .. n -> Nat]
    BY <1>6
  <2> HIDE DEF g
  <2>3. SumFunction(g) \in Nat
    BY ONLY <2>1, <2>2, SumIsNat
  <2> QED  BY <2>3 DEF LaySum, g
<1>8. list[n + 1][2] \in Nat
  BY <1>2
<1>9. LaySum(list, n + 1) = list[n + 1][2] + LaySum(list, n)
  BY ONLY <1>3, <1>4, <1>5 DEF LaySum
<1> QED  BY ONLY <1>7, <1>8, <1>9

(* The regions a step writes one behind the other.                         *)
Wrote(what, node, start) ==
  \E e \in extents' : e.what = what /\ e.node = node /\ e.start = start

(* What a list of regions leaves in the image, in the terms of its sums.   *)
LEMMA Laid ==
  ASSUME NEW list, NEW n \in Nat, DOMAIN list = 1 .. n, WriteAll(list)
  PROVE  /\ extents \subseteq extents'
         /\ current_sector' = current_sector + LaySum(list, n)
         /\ \A i \in 1 .. n :
              Wrote(list[i][1], Root, current_sector + LaySum(list, i - 1))
         /\ \A e \in extents' : e \in extents \/ \E i \in 1 .. n :
              /\ e.what = list[i][1] /\ e.node = Root /\ e.len = list[i][2]
              /\ e.start = current_sector + LaySum(list, i - 1)
<1> DEFINE E(i) == [what |-> list[i][1], node |-> Root, len |-> list[i][2],
                    tag |-> NoTag,
                    start |-> current_sector + LaySum(list, i - 1)]
<1>1. extents' = extents \cup {E(i) : i \in 1 .. n}
  BY DEF WriteAll, Lay, LaySum
<1>2. current_sector' = current_sector + LaySum(list, n)
  BY DEF WriteAll, LaySum
<1>3. \A i \in 1 .. n : E(i) \in extents'
  BY <1>1
<1>4. ASSUME NEW i \in 1 .. n
      PROVE  Wrote(list[i][1], Root, current_sector + LaySum(list, i - 1))
  BY <1>3 DEF Wrote
<1> QED  BY <1>1, <1>2, <1>4

(* The sums grow by one region at a time.                                  *)
LEMMA Sums ==
  ASSUME NEW list, NEW n \in Nat, \A j \in 1 .. n : list[j][2] \in Nat,
         NEW k \in Nat, NEW m \in 1 .. n, m = k + 1, LaySum(list, k) \in Nat
  PROVE  LaySum(list, m) = LaySum(list, k) + list[m][2] /\ LaySum(list, m) \in Nat
<1>1. \A j \in 1 .. k + 1 : list[j][2] \in Nat
  OBVIOUS
<1>2. LaySum(list, k + 1) = LaySum(list, k) + list[k + 1][2]
  BY <1>1, LaySumNext
<1>3. list[m][2] \in Nat
  OBVIOUS
<1> QED  BY ONLY <1>2, <1>3, m = k + 1, LaySum(list, k) \in Nat

(* Up to eight of them.                                                    *)
LEMMA FirstSums ==
  ASSUME NEW list, NEW n \in Nat, \A j \in 1 .. n : list[j][2] \in Nat
  PROVE  /\ LaySum(list, 0) = 0
         /\ n >= 1 => LaySum(list, 1) = list[1][2]
         /\ n >= 2 => LaySum(list, 2) = LaySum(list, 1) + list[2][2]
         /\ n >= 3 => LaySum(list, 3) = LaySum(list, 2) + list[3][2]
         /\ n >= 4 => LaySum(list, 4) = LaySum(list, 3) + list[4][2]
         /\ n >= 5 => LaySum(list, 5) = LaySum(list, 4) + list[5][2]
         /\ n >= 6 => LaySum(list, 6) = LaySum(list, 5) + list[6][2]
         /\ n >= 7 => LaySum(list, 7) = LaySum(list, 6) + list[7][2]
         /\ n >= 8 => LaySum(list, 8) = LaySum(list, 7) + list[8][2]
<1>0. LaySum(list, 0) = 0
  BY LaySumNone
<1> DEFINE Added(k, m) == /\ LaySum(list, m) = LaySum(list, k) + list[m][2]
                         /\ LaySum(list, m) \in Nat
<1>a. \A k \in Nat, m \in 1 .. n : m = k + 1 /\ LaySum(list, k) \in Nat => Added(k, m)
  BY Sums
<1> HIDE DEF Added
<1>1. n >= 1 => LaySum(list, 1) = LaySum(list, 0) + list[1][2]
                  /\ LaySum(list, 1) \in Nat
  <2> HAVE n >= 1
  <2>1. 1 \in 1 .. n /\ 0 \in Nat /\ 1 = 0 + 1 /\ LaySum(list, 0) \in Nat
    BY <1>0
  <2> QED  BY ONLY <1>a, <2>1 DEF Added
<1>2. n >= 2 => LaySum(list, 2) = LaySum(list, 1) + list[2][2]
                  /\ LaySum(list, 2) \in Nat
  <2> HAVE n >= 2
  <2>1. 2 \in 1 .. n /\ 1 \in Nat /\ 2 = 1 + 1 /\ LaySum(list, 1) \in Nat
    BY <1>1
  <2> QED  BY ONLY <1>a, <2>1 DEF Added
<1>3. n >= 3 => LaySum(list, 3) = LaySum(list, 2) + list[3][2]
                  /\ LaySum(list, 3) \in Nat
  <2> HAVE n >= 3
  <2>1. 3 \in 1 .. n /\ 2 \in Nat /\ 3 = 2 + 1 /\ LaySum(list, 2) \in Nat
    BY <1>2
  <2> QED  BY ONLY <1>a, <2>1 DEF Added
<1>4. n >= 4 => LaySum(list, 4) = LaySum(list, 3) + list[4][2]
                  /\ LaySum(list, 4) \in Nat
  <2> HAVE n >= 4
  <2>1. 4 \in 1 .. n /\ 3 \in Nat /\ 4 = 3 + 1 /\ LaySum(list, 3) \in Nat
    BY <1>3
  <2> QED  BY ONLY <1>a, <2>1 DEF Added
<1>5. n >= 5 => LaySum(list, 5) = LaySum(list, 4) + list[5][2]
                  /\ LaySum(list, 5) \in Nat
  <2> HAVE n >= 5
  <2>1. 5 \in 1 .. n /\ 4 \in Nat /\ 5 = 4 + 1 /\ LaySum(list, 4) \in Nat
    BY <1>4
  <2> QED  BY ONLY <1>a, <2>1 DEF Added
<1>6. n >= 6 => LaySum(list, 6) = LaySum(list, 5) + list[6][2]
                  /\ LaySum(list, 6) \in Nat
  <2> HAVE n >= 6
  <2>1. 6 \in 1 .. n /\ 5 \in Nat /\ 6 = 5 + 1 /\ LaySum(list, 5) \in Nat
    BY <1>5
  <2> QED  BY ONLY <1>a, <2>1 DEF Added
<1>7. n >= 7 => LaySum(list, 7) = LaySum(list, 6) + list[7][2]
                  /\ LaySum(list, 7) \in Nat
  <2> HAVE n >= 7
  <2>1. 7 \in 1 .. n /\ 6 \in Nat /\ 7 = 6 + 1 /\ LaySum(list, 6) \in Nat
    BY <1>6
  <2> QED  BY ONLY <1>a, <2>1 DEF Added
<1>8. n >= 8 => LaySum(list, 8) = LaySum(list, 7) + list[8][2]
                  /\ LaySum(list, 8) \in Nat
  <2> HAVE n >= 8
  <2>1. 8 \in 1 .. n /\ 7 \in Nat /\ 8 = 7 + 1 /\ LaySum(list, 7) \in Nat
    BY <1>7
  <2> QED  BY ONLY <1>a, <2>1 DEF Added
<1> QED  BY <1>0, <1>1, <1>2, <1>3, <1>4, <1>5, <1>6, <1>7, <1>8
-----------------------------------------------------------------------------
(* What every step of write_sectors finds: the tree, and its nodes in the  *)
(* order of the plan.                                                      *)
LEMMA WriterFacts ==
  ASSUME PlanInv, step \notin PlanSteps
  PROVE  /\ IsTree(tree)
         /\ AllDirectories = DirOrder(tree) /\ AllFiles = FileOrder(tree)
         /\ Len(AllDirectories) = DirAmount(tree) + 1
         /\ Len(AllFiles) = FileAmount(tree)
         /\ DirAmount(tree) \in Nat /\ FileAmount(tree) \in Nat
<1>1. IsTree(tree)
  BY PlanFacts
<1>2. order = Sorted(tree)
  BY DEF PlanInv, Ordered, PlanSteps
<1>3. AllDirectories = DirOrder(tree) /\ AllFiles = FileOrder(tree)
  BY <1>1, <1>2, PassedAll
<1>4. Len(DirOrder(tree)) = DirAmount(tree) + 1
  BY <1>1, DirectoriesInOrder
<1>5. Len(FileOrder(tree)) = FileAmount(tree)
  BY <1>1, FilesInOrder
<1> QED  BY <1>1, <1>3, <1>4, <1>5, TreeSizes

(* At the start no loop runs.                                              *)
LEMMA LoopInvInit == Init => LoopInv
BY DEF Init, PlannerInit, LoopInv, PlanSteps

(* The loops stay in their lists.                                          *)
LEMMA LoopInvStep == PlanInv /\ LoopInv /\ [Next]_vars => LoopInv'
<1> SUFFICES ASSUME PlanInv, LoopInv, [Next]_vars PROVE LoopInv'
  OBVIOUS
<1> DEFINE N == DirAmount(tree)
           M == FileAmount(tree)
<1>1. at \in Nat
  BY DEF LoopInv
<1>2. CASE Plan
  <2>1. at' \in Nat
    BY <1>1, <1>2 DEF Plan, SizeVolume, SortNodes, PlaceDirectory, SkipFile,
      StartFiles, PlaceFile, SkipDirectory, Planned
  <2>2. /\ step' \in PlanSteps \cup {"header"}
        /\ step' = "header" => at' = 0
    BY <1>2 DEF Plan, SizeVolume, SortNodes, PlaceDirectory, SkipFile,
      StartFiles, PlaceFile, SkipDirectory, Planned, PlanSteps
  <2> QED  BY <2>1, <2>2 DEF LoopInv, PlanSteps
<1>3. CASE WriteSectors
  <2>1. tree' = tree /\ step \notin PlanSteps
    BY <1>3, WriterKeepsPlan DEF plan
  <2>2. /\ Len(AllDirectories) = N + 1 /\ Len(AllFiles) = M
        /\ N \in Nat /\ M \in Nat
    BY <2>1, WriterFacts
  <2>3. DirAmount(tree)' = N /\ FileAmount(tree)' = M
    BY <2>1
  <2> USE <1>1, <2>1, <2>2, <2>3
      DEF LoopInv, GoOn, FromEnd, FromData, FromFileEntries,
          FromDirectoryEntries, FromRootEntry, FromIdentifiers, FromFileSet,
          FromDirectory, FromPathTables, FromAnchor, FromIntegrity,
          FromDescriptors
  <2>4. CASE WriteSystemArea
    BY <2>4 DEF WriteSystemArea
  <2>5. CASE WriteVolumeDescriptors
    BY <2>5 DEF WriteVolumeDescriptors
  <2>6. CASE WriteIntegrity
    BY <2>6 DEF WriteIntegrity
  <2>7. CASE WriteAnchor
    BY <2>7 DEF WriteAnchor
  <2>8. CASE WritePathTables
    BY <2>8 DEF WritePathTables
  <2>9. CASE ThrowPathTable
    BY <2>9 DEF ThrowPathTable
  <2>10. CASE WriteDirectory
    BY <2>10 DEF WriteDirectory
  <2>11. CASE OverrunRecord
    BY <2>11 DEF OverrunRecord
  <2>12. CASE WriteFileSet
    BY <2>12 DEF WriteFileSet
  <2>13. CASE StartIdentifiers
    BY <2>13 DEF StartIdentifiers
  <2>14. CASE AddIdentifier
    BY <2>14 DEF AddIdentifier
  <2>15. CASE FlushIdentifiers
    BY <2>15 DEF FlushIdentifiers
  <2>16. CASE WriteRootEntry
    BY <2>16 DEF WriteRootEntry
  <2>17. CASE WriteDirectoryEntry
    BY <2>17 DEF WriteDirectoryEntry
  <2>18. CASE DirectoryEntriesDone
    BY <2>18 DEF DirectoryEntriesDone
  <2>19. CASE WriteFileEntry
    BY <2>19 DEF WriteFileEntry
  <2>20. CASE FileEntriesDone
    BY <2>20 DEF FileEntriesDone
  <2>21. CASE WriteFileData
    BY <2>21 DEF WriteFileData
  <2>22. CASE WritePads
    BY <2>22 DEF WritePads
  <2>23. CASE WriteEndOfSession
    BY <2>23 DEF WriteEndOfSession
  <2> QED
    BY <1>3, <2>4, <2>5, <2>6, <2>7, <2>8, <2>9, <2>10, <2>11, <2>12, <2>13,
       <2>14, <2>15, <2>16, <2>17, <2>18, <2>19, <2>20, <2>21, <2>22, <2>23
       DEF WriteSectors
<1>4. CASE UNCHANGED vars
  BY <1>4 DEF LoopInv, vars, plannerVars
<1> QED  BY <1>2, <1>3, <1>4 DEF Next
(* What is written grows one by one, each by its own step.                 *)
Advances(written, by) ==
  \/ written' <= written
  \/ by /\ written = at /\ written' = at + 1

(* A step completes at most one directory's records or identifiers, one    *)
(* file entry, or one file, and only the action for it does.               *)
LEMMA WrittenAdvances ==
  ASSUME PlanInv, LoopInv, LoopInv', WriteSectors
  PROVE  /\ Advances(RecordsWritten, WriteDirectory)
         /\ Advances(IdsWritten, FlushIdentifiers)
         /\ Advances(DirectoryEntriesWritten, WriteRootEntry \/ WriteDirectoryEntry)
         /\ Advances(FileEntriesWritten, WriteFileEntry)
         /\ Advances(FilesWritten, WriteFileData)
         /\ RecordsWritten \in Nat /\ IdsWritten \in Nat
         /\ DirectoryEntriesWritten \in Nat /\ FileEntriesWritten \in Nat
         /\ FilesWritten \in Nat
         /\ RecordsWritten' \in Nat /\ IdsWritten' \in Nat
         /\ DirectoryEntriesWritten' \in Nat /\ FileEntriesWritten' \in Nat
         /\ FilesWritten' \in Nat
<1> DEFINE N == DirAmount(tree)
           M == FileAmount(tree)
<1>1. at \in Nat /\ at' \in Nat
  BY DEF LoopInv
<1>2. tree' = tree /\ step \notin PlanSteps
  BY WriterKeepsPlan DEF plan
<1>3. /\ Len(AllDirectories) = N + 1 /\ Len(AllFiles) = M
      /\ N \in Nat /\ M \in Nat
  BY <1>2, WriterFacts
<1>4. DirAmount(tree)' = N /\ FileAmount(tree)' = M
  BY <1>2
<1> HIDE DEF N, M
<1>5. /\ RecordsWritten \in Nat /\ IdsWritten \in Nat
      /\ DirectoryEntriesWritten \in Nat /\ FileEntriesWritten \in Nat
      /\ FilesWritten \in Nat
  BY <1>1, <1>3 DEF RecordsWritten, IdsWritten, DirectoryEntriesWritten,
    FileEntriesWritten, FilesWritten, N, M
<1>6. /\ RecordsWritten' \in Nat /\ IdsWritten' \in Nat
      /\ DirectoryEntriesWritten' \in Nat /\ FileEntriesWritten' \in Nat
      /\ FilesWritten' \in Nat
  BY <1>1, <1>3, <1>4 DEF RecordsWritten, IdsWritten, DirectoryEntriesWritten,
    FileEntriesWritten, FilesWritten
<1> DEFINE All == /\ Advances(RecordsWritten, WriteDirectory)
                  /\ Advances(IdsWritten, FlushIdentifiers)
                  /\ Advances(DirectoryEntriesWritten,
                              WriteRootEntry \/ WriteDirectoryEntry)
                  /\ Advances(FileEntriesWritten, WriteFileEntry)
                  /\ Advances(FilesWritten, WriteFileData)
<1>7. All
  <2> USE <1>1, <1>2, <1>3, <1>4
      DEF LoopInv, RecordsWritten, IdsWritten, DirectoryEntriesWritten,
          FileEntriesWritten, FilesWritten, Advances, GoOn, FromEnd, FromData,
          FromFileEntries, FromDirectoryEntries, FromRootEntry,
          FromIdentifiers, FromFileSet, FromDirectory, FromPathTables,
          FromAnchor, FromIntegrity, FromDescriptors, N, M
  <2>1. CASE WriteSystemArea
    BY <2>1 DEF WriteSystemArea
  <2>2. CASE WriteVolumeDescriptors
    BY <2>2 DEF WriteVolumeDescriptors
  <2>3. CASE WriteIntegrity
    BY <2>3 DEF WriteIntegrity
  <2>4. CASE WriteAnchor
    BY <2>4 DEF WriteAnchor
  <2>5. CASE WritePathTables
    BY <2>5 DEF WritePathTables
  <2>6. CASE ThrowPathTable
    BY <2>6 DEF ThrowPathTable
  <2>7. CASE WriteDirectory
    BY <2>7 DEF WriteDirectory
  <2>8. CASE OverrunRecord
    BY <2>8 DEF OverrunRecord
  <2>9. CASE WriteFileSet
    BY <2>9 DEF WriteFileSet
  <2>10. CASE StartIdentifiers
    BY <2>10 DEF StartIdentifiers
  <2>11. CASE AddIdentifier
    BY <2>11 DEF AddIdentifier
  <2>12. CASE FlushIdentifiers
    BY <2>12 DEF FlushIdentifiers
  <2>13. CASE WriteRootEntry
    BY <2>13 DEF WriteRootEntry
  <2>14. CASE WriteDirectoryEntry
    BY <2>14 DEF WriteDirectoryEntry
  <2>15. CASE DirectoryEntriesDone
    BY <2>15 DEF DirectoryEntriesDone
  <2>16. CASE WriteFileEntry
    BY <2>16 DEF WriteFileEntry
  <2>17. CASE FileEntriesDone
    BY <2>17 DEF FileEntriesDone
  <2>18. CASE WriteFileData
    BY <2>18 DEF WriteFileData
  <2>19. CASE WritePads
    BY <2>19 DEF WritePads
  <2>20. CASE WriteEndOfSession
    BY <2>20 DEF WriteEndOfSession
  <2> QED
    BY <2>1, <2>2, <2>3, <2>4, <2>5, <2>6, <2>7, <2>8, <2>9, <2>10, <2>11,
       <2>12, <2>13, <2>14, <2>15, <2>16, <2>17, <2>18, <2>19, <2>20, Zenon
       DEF WriteSectors
<1> QED  BY <1>5, <1>6, <1>7
-----------------------------------------------------------------------------
(* A directory's identifiers are as many bytes, and sectors, as the planner*)
(* summed up.                                                              *)
LEMMA IdentifiersInvInit == Init => IdentifiersInv
<1> SUFFICES ASSUME Init PROVE IdentifiersInv
  OBVIOUS
<1>1. step = "size" /\ tree \in Trees
  BY DEF Init, PlannerInit
<1>2. IdsWritten = 0
  BY <1>1 DEF IdsWritten, FromRootEntry, FromDirectoryEntries, FromFileEntries,
    FromData, FromEnd
<1>3. \A k \in 1 .. IdsWritten : FALSE
  BY <1>2
<1>4. ident_sizes \in [Directories(tree) -> Nat]
  BY DEF Init
<1> QED  BY <1>1, <1>3, <1>4 DEF IdentifiersInv, Init

(* Every node's file entry has a block.                                    *)
LEMMA EntryBlocks ==
  ASSUME PlanInv, PlacesInv
  PROVE  \A p \in DOMAIN tree : EntryBlock(p) \in Nat
<1>1. FileIdentifiersAmount(tree) \in Nat
  BY SizesAreNat
<1>2. lba \in [Entries(tree) -> Nat]
  BY PlacesFacts
<1> QED  BY <1>1, <1>2 DEF EntryBlock, Entries

(* The steps that have nothing to do with them.                            *)
LEMMA IdentifiersStay ==
  ASSUME PlanInv, IdentifiersInv, tree' = tree,
         UNCHANGED <<fidVars, log_block_num>>,
         IdsWritten \in Nat, IdsWritten' \in Nat, IdsWritten' <= IdsWritten,
         step' \notin {"entries", "identifiers", "directory_entries"}
  PROVE  IdentifiersInv'
<1>1. /\ entry' = entry /\ needed_memory' = needed_memory
      /\ needed_sectors' = needed_sectors /\ ident_sizes' = ident_sizes
      /\ log_block_num' = log_block_num /\ fi_root' = fi_root
  BY DEF fidVars
<1>2. /\ entry \in Nat /\ needed_memory \in Nat /\ needed_sectors \in Nat
      /\ log_block_num \in Nat /\ fi_root.icb \in Nat
      /\ ident_sizes \in [Directories(tree) -> Nat]
      /\ \A k \in 1 .. IdsWritten :
           ident_sizes[DirOrder(tree)[k]] = FidBytes(tree, DirOrder(tree)[k])
  BY DEF IdentifiersInv
<1>3. \A k \in 1 .. IdsWritten' : k \in 1 .. IdsWritten
  OBVIOUS
<1> QED  BY <1>1, <1>2, <1>3 DEF IdentifiersInv

(* The file set is written: the first parent is the root.                  *)
LEMMA FileSetIdentifiers ==
  ASSUME PlanInv, LoopInv, IdentifiersInv, WriteFileSet,
         IdsWritten \in Nat, IdsWritten' \in Nat, IdsWritten' <= IdsWritten
  PROVE  IdentifiersInv'
<1>1. /\ step' = "identifiers" /\ tree' = tree
      /\ entry' = entry /\ needed_memory' = needed_memory
      /\ needed_sectors' = needed_sectors /\ ident_sizes' = ident_sizes
      /\ log_block_num' = log_block_num
      /\ fi_root' = [fi_root EXCEPT !.icb = 2 + FileIdentifiersAmount(tree)]
  BY DEF WriteFileSet, GoOn, plan
<1>2. /\ entry \in Nat /\ needed_memory \in Nat /\ needed_sectors \in Nat
      /\ log_block_num \in Nat
      /\ ident_sizes \in [Directories(tree) -> Nat]
      /\ \A k \in 1 .. IdsWritten :
           ident_sizes[DirOrder(tree)[k]] = FidBytes(tree, DirOrder(tree)[k])
  BY DEF IdentifiersInv
<1>3. \A k \in 1 .. IdsWritten' : k \in 1 .. IdsWritten
  OBVIOUS
<1>4. FileIdentifiersAmount(tree) \in Nat
  BY SizesAreNat
<1>5. fi_root'.icb = 2 + FileIdentifiersAmount(tree)
  BY <1>1
<1>6. fi_root'.icb \in Nat
  BY <1>4, <1>5
<1>7. fi_root'.icb = EntryBlock(Root)'
  BY <1>1, <1>5 DEF EntryBlock
<1> QED  BY <1>1, <1>2, <1>3, <1>6, <1>7 DEF IdentifiersInv

(* The next directory's begin with that of its parent.                     *)
LEMMA StartsIdentifiers ==
  ASSUME PlanInv, PlacesInv, LoopInv, IdentifiersInv, StartIdentifiers,
         IdsWritten \in Nat, IdsWritten' \in Nat, IdsWritten' <= IdsWritten
  PROVE  IdentifiersInv'
<1> DEFINE d == DirOrder(tree)[at + 1]
<1>1. /\ step = "identifiers" /\ step' = "entries" /\ at' = at
      /\ tree' = tree /\ lba' = lba
      /\ fi_root'.icb = (IF AllDirectories[at + 1] = Root
                           THEN fi_root.icb ELSE lba[AllDirectories[at + 1]])
      /\ entry' = 0 /\ needed_memory' = FidBase /\ needed_sectors' = 1
      /\ ident_sizes' = ident_sizes /\ log_block_num' = log_block_num
  BY DEF StartIdentifiers, GoOn, plan, locations
<1>2. /\ log_block_num \in Nat
      /\ ident_sizes \in [Directories(tree) -> Nat]
      /\ \A k \in 1 .. IdsWritten :
           ident_sizes[DirOrder(tree)[k]] = FidBytes(tree, DirOrder(tree)[k])
  BY DEF IdentifiersInv
<1>3. \A k \in 1 .. IdsWritten' : k \in 1 .. IdsWritten
  OBVIOUS
<1>4. /\ IsTree(tree) /\ AllDirectories = DirOrder(tree) /\ DirAmount(tree) \in Nat
  BY <1>1, WriterFacts DEF PlanSteps
<1>5. at \in 0 .. DirAmount(tree)
  BY <1>1 DEF LoopInv
<1>6. /\ DirOrder(tree)[1] = Root
      /\ \A k \in 1 .. DirAmount(tree) : DirOrder(tree)[k + 1] # Root
      /\ d \in Directories(tree)
  <2>1. DirOrder(tree) \in Seq(Directories(tree)) /\ Len(DirOrder(tree)) = DirAmount(tree) + 1
    BY <1>4, DirectoriesInOrder
  <2>2. at + 1 \in 1 .. Len(DirOrder(tree))
    BY <1>4, <1>5, <2>1
  <2>3. d \in Directories(tree)
    BY <2>1, <2>2
  <2> QED  BY <1>4, <2>3, DirectoriesInOrder
<1>7. fi_root'.icb = EntryBlock(d)
  <2>1. CASE at = 0
    <3>1. at + 1 = 1
      BY <2>1
    <3>2. d = Root
      BY <1>6, <3>1
    <3>3. fi_root.icb = EntryBlock(Root)
      BY <1>1, <2>1 DEF IdentifiersInv
    <3> QED  BY <1>1, <1>4, <3>2, <3>3
  <2>2. CASE at # 0
    <3>1. at \in 1 .. DirAmount(tree)
      BY <1>4, <1>5, <2>2
    <3>2. d # Root
      BY <1>6, <3>1
    <3> QED  BY <1>1, <1>4, <3>2 DEF EntryBlock
  <2> QED  BY <2>1, <2>2
<1>8. EntryBlock(d) \in Nat
  BY <1>6, EntryBlocks DEF Directories
<1>9. EntryBlock(d)' = EntryBlock(d)
  BY <1>1 DEF EntryBlock
<1>10. /\ IdBytesTo(tree, d, 0) = 0
       /\ Len(Listing(tree, d)) \in Nat
  BY <1>4, <1>6, IdBytesWhole, ListingFacts
<1>11. FidBase = 40 /\ FidBase \div Sector + 1 = 1 /\ FidBase + 0 = FidBase
  BY DEF FidBase, Sector
<1>12. CurrentIdentifiers'
  <2>1. d' = d
    BY <1>1
  <2> HIDE DEF d
  <2>2. /\ fi_root'.icb = EntryBlock(d)'
        /\ entry' <= Len(Listing(tree, d))
        /\ needed_memory' = FidBase + IdBytesTo(tree, d, entry')
        /\ needed_sectors' = needed_memory' \div Sector + 1
    BY <1>1, <1>7, <1>9, <1>10, <1>11
  <2>3. /\ Len(Listing(tree, d))' = Len(Listing(tree, d))
        /\ IdBytesTo(tree, d, entry)' = IdBytesTo(tree, d, entry')
    BY <1>1, <2>1
  <2> QED  BY <2>1, <2>2, <2>3 DEF CurrentIdentifiers, d
<1> QED
  BY <1>1, <1>2, <1>3, <1>7, <1>8, <1>11, <1>12 DEF IdentifiersInv
(* A sector more is taken exactly when the identifiers reach its end: the  *)
(* directory's sectors are those its bytes begin.                          *)
LEMMA SectorsOfIdentifiers ==
  ASSUME NEW m \in Nat, NEW k \in 1 .. Sector,
         NEW s \in Nat, s = m \div Sector + 1
  PROVE  /\ Overflowing(m + k, s) =>
              s + 1 = (m + k) \div Sector + 1
         /\ ~Overflowing(m + k, s) => s = (m + k) \div Sector + 1
BY DEF Overflowing, SectorsOf, Sector

(* An identifier adds its bytes, and a sector when it reaches the next.    *)
LEMMA AddsIdentifier ==
  ASSUME PlanInv, PlacesInv, LoopInv, IdentifiersInv, AddIdentifier,
         IdsWritten \in Nat, IdsWritten' \in Nat, IdsWritten' <= IdsWritten
  PROVE  IdentifiersInv'
<1> DEFINE d == DirOrder(tree)[at + 1]
           p == IdentifierOrder(tree, d)[entry + 1]
<1>1. /\ step = "entries" /\ step' = "entries" /\ at' = at
      /\ tree' = tree /\ lba' = lba /\ fi_root' = fi_root
      /\ entry < Len(Listing(tree, AllDirectories[at + 1]))
      /\ needed_memory' = needed_memory
           + FidLen(tree, IdentifierOrder(tree, AllDirectories[at + 1])[entry + 1])
      /\ needed_sectors' = IF Overflowing(needed_memory', needed_sectors)
                             THEN needed_sectors + 1 ELSE needed_sectors
      /\ entry' = entry + 1
      /\ ident_sizes' = ident_sizes /\ log_block_num' = log_block_num
  BY DEF AddIdentifier, plan, locations
<1>2. /\ entry \in Nat /\ needed_memory \in Nat /\ needed_sectors \in Nat
      /\ log_block_num \in Nat /\ fi_root.icb \in Nat
      /\ ident_sizes \in [Directories(tree) -> Nat]
      /\ \A k \in 1 .. IdsWritten :
           ident_sizes[DirOrder(tree)[k]] = FidBytes(tree, DirOrder(tree)[k])
      /\ CurrentIdentifiers
  BY <1>1 DEF IdentifiersInv
<1>3. \A k \in 1 .. IdsWritten' : k \in 1 .. IdsWritten
  OBVIOUS
<1>4. /\ IsTree(tree) /\ AllDirectories = DirOrder(tree) /\ DirAmount(tree) \in Nat
  BY <1>1, WriterFacts DEF PlanSteps
<1>5. d \in Directories(tree)
  <2>1. DirOrder(tree) \in Seq(Directories(tree)) /\ Len(DirOrder(tree)) = DirAmount(tree) + 1
    BY <1>4, DirectoriesInOrder
  <2>2. at + 1 \in 1 .. Len(DirOrder(tree))
    BY <1>1, <1>4, <2>1 DEF LoopInv
  <2> QED  BY <2>1, <2>2
<1> HIDE DEF d, p
<1>6. /\ entry < Len(Listing(tree, d))
      /\ needed_memory' = needed_memory + FidLen(tree, p)
  BY <1>1, <1>4 DEF d, p
<1>7. /\ IdBytesTo(tree, d, entry) \in Nat
      /\ FidLen(tree, p) \in 1 .. Sector
      /\ IdBytesTo(tree, d, entry + 1)
           = IdBytesTo(tree, d, entry) + FidLen(tree, p)
  BY <1>2, <1>4, <1>5, <1>6, IdBytesAlong DEF p
<1>8. /\ fi_root.icb = EntryBlock(d)
      /\ needed_memory = FidBase + IdBytesTo(tree, d, entry)
      /\ needed_sectors = needed_memory \div Sector + 1
  BY <1>2 DEF CurrentIdentifiers, d
<1>9. FidLen(tree, p) \in Nat
  BY <1>7, SMTT(30) DEF Sector
<1>10. /\ needed_memory' = FidBase + IdBytesTo(tree, d, entry')
       /\ needed_memory' \in Nat
  <2> DEFINE b == IdBytesTo(tree, d, entry)
             c == IdBytesTo(tree, d, entry + 1)
             l == FidLen(tree, p)
  <2>1. /\ needed_memory' = needed_memory + l /\ needed_memory = FidBase + b
        /\ c = b + l /\ b \in Nat /\ l \in Nat /\ FidBase \in Nat
    BY <1>6, <1>7, <1>8, <1>9 DEF FidBase
  <2>2. IdBytesTo(tree, d, entry') = c
    BY <1>1
  <2> HIDE DEF b, c, l
  <2> QED  BY ONLY <2>1, <2>2
<1>11. /\ needed_sectors' = needed_memory' \div Sector + 1
       /\ needed_sectors' \in Nat
  <2>1. /\ Overflowing(needed_memory', needed_sectors) =>
             needed_sectors + 1 = needed_memory' \div Sector + 1
        /\ ~Overflowing(needed_memory', needed_sectors) =>
             needed_sectors = needed_memory' \div Sector + 1
    BY <1>2, <1>6, <1>7, <1>8, SectorsOfIdentifiers
  <2> QED  BY <1>1, <1>2, <2>1
<1>12. entry' \in Nat /\ entry' <= Len(Listing(tree, d))
  <2>1. Len(Listing(tree, d)) \in Nat
    BY <1>4, <1>5, ListingFacts
  <2> QED  BY <1>1, <1>2, <1>6, <2>1
<1>13. CurrentIdentifiers'
  <2>1. d' = d
    BY <1>1 DEF d
  <2>2. EntryBlock(d)' = EntryBlock(d)
    BY <1>1, <2>1 DEF EntryBlock
  <2>3. /\ Len(Listing(tree, d))' = Len(Listing(tree, d))
        /\ IdBytesTo(tree, d, entry)' = IdBytesTo(tree, d, entry')
    BY <1>1, <2>1
  <2> QED
    BY <1>1, <1>8, <1>10, <1>11, <1>12, <2>2, <2>3 DEF CurrentIdentifiers, d
<1> QED
  BY <1>1, <1>2, <1>3, <1>10, <1>11, <1>12, <1>13 DEF IdentifiersInv

(* A directory is done: its identifiers are as long as the planner's sum.  *)
LEMMA FlushesIdentifiers ==
  ASSUME PlanInv, PlacesInv, LoopInv, IdentifiersInv, FlushIdentifiers,
         IdsWritten' \in Nat
  PROVE  IdentifiersInv'
<1> DEFINE d == DirOrder(tree)[at + 1]
<1>1. /\ step = "entries" /\ tree' = tree /\ lba' = lba /\ fi_root' = fi_root
      /\ entry = Len(Listing(tree, AllDirectories[at + 1]))
      /\ ident_sizes' = [ident_sizes EXCEPT ![AllDirectories[at + 1]] = needed_memory]
      /\ step' \in {"identifiers", "root_entry"}
      /\ step' = "identifiers" => at' = at + 1
      /\ needed_memory' = needed_memory /\ needed_sectors' = needed_sectors
      /\ entry' = entry /\ log_block_num' = log_block_num
  BY DEF FlushIdentifiers, plan, locations
<1>2. /\ entry \in Nat /\ needed_memory \in Nat /\ needed_sectors \in Nat
      /\ log_block_num \in Nat /\ fi_root.icb \in Nat
      /\ ident_sizes \in [Directories(tree) -> Nat]
      /\ \A k \in 1 .. IdsWritten :
           ident_sizes[DirOrder(tree)[k]] = FidBytes(tree, DirOrder(tree)[k])
      /\ CurrentIdentifiers
  BY <1>1 DEF IdentifiersInv
<1>3. /\ IsTree(tree) /\ AllDirectories = DirOrder(tree) /\ DirAmount(tree) \in Nat
      /\ Len(AllDirectories) = DirAmount(tree) + 1
  BY <1>1, WriterFacts DEF PlanSteps
<1>4. /\ DirOrder(tree) \in Seq(Directories(tree))
      /\ Len(DirOrder(tree)) = DirAmount(tree) + 1
      /\ at \in 0 .. DirAmount(tree)
  BY <1>1, <1>3, DirectoriesInOrder DEF LoopInv
<1>5. d \in Directories(tree)
  <2>1. at + 1 \in 1 .. Len(DirOrder(tree))
    BY <1>3, <1>4
  <2> QED  BY <1>4, <2>1
<1>6. needed_memory = FidBytes(tree, d)
  <2>1. /\ entry = Len(Listing(tree, d))
        /\ needed_memory = FidBase + IdBytesTo(tree, d, entry)
    BY <1>1, <1>2, <1>3 DEF CurrentIdentifiers
  <2> HIDE DEF d
  <2> QED  BY <1>3, <1>5, <2>1, IdBytesWhole
<1>7. IdsWritten = at
  BY <1>1 DEF IdsWritten
<1>8. IdsWritten' = at + 1
  <2>1. CASE step' = "identifiers"
    BY <1>1, <2>1 DEF IdsWritten
  <2>2. CASE step' = "root_entry"
    <3>1. ~(at + 1 < Len(AllDirectories))
      BY <2>2 DEF FlushIdentifiers
    <3>2. at + 1 = DirAmount(tree) + 1
      BY <1>3, <1>4, <3>1
    <3>3. DirAmount(tree)' = DirAmount(tree)
      BY <1>1
    <3> QED  BY <2>2, <3>2, <3>3 DEF IdsWritten, FromRootEntry
  <2> QED  BY <1>1, <2>1, <2>2
<1>9. ASSUME NEW k \in 1 .. IdsWritten'
      PROVE  ident_sizes'[DirOrder(tree)[k]] = FidBytes(tree, DirOrder(tree)[k])
  <2>1. CASE DirOrder(tree)[k] = d
    BY <1>1, <1>2, <1>3, <1>5, <1>6, <2>1
  <2>2. CASE DirOrder(tree)[k] # d
    <3>1. k \in 1 .. at
      BY <1>3, <1>4, <1>8, <2>2
    <3>2. ident_sizes[DirOrder(tree)[k]] = FidBytes(tree, DirOrder(tree)[k])
      BY <1>2, <1>7, <3>1
    <3>3. DirOrder(tree)[k] \in Directories(tree)
      <4>1. k \in 1 .. Len(DirOrder(tree))
        BY <1>3, <1>4, <3>1
      <4> QED  BY <1>4, <4>1
    <3> QED  BY <1>1, <1>2, <1>3, <2>2, <3>2, <3>3
  <2> QED  BY <2>1, <2>2
<1>10. ident_sizes' \in [Directories(tree) -> Nat]
  BY <1>1, <1>2
<1>11. step' = "identifiers" => at' # 0
  BY <1>1, <1>3, <1>4
<1> HIDE DEF d
<1> QED
  BY <1>1, <1>2, <1>9, <1>10, <1>11 DEF IdentifiersInv
(* The root's file entry is written: the directories' start behind it,     *)
LEMMA RootEntryIdentifiers ==
  ASSUME PlanInv, LoopInv, IdentifiersInv, WriteRootEntry,
         IdsWritten \in Nat, IdsWritten' \in Nat, IdsWritten' <= IdsWritten
  PROVE  IdentifiersInv'
<1>1. /\ step = "root_entry" /\ step' = "directory_entries" /\ at' = 1
      /\ tree' = tree /\ log_block_num' = 3
      /\ entry' = entry /\ needed_memory' = needed_memory
      /\ needed_sectors' = needed_sectors /\ ident_sizes' = ident_sizes
      /\ fi_root' = fi_root
  BY DEF WriteRootEntry, GoOn, plan, fidVars
<1>2. /\ entry \in Nat /\ needed_memory \in Nat /\ needed_sectors \in Nat
      /\ fi_root.icb \in Nat
      /\ ident_sizes \in [Directories(tree) -> Nat]
      /\ \A k \in 1 .. IdsWritten :
           ident_sizes[DirOrder(tree)[k]] = FidBytes(tree, DirOrder(tree)[k])
  BY DEF IdentifiersInv
<1>3. \A k \in 1 .. IdsWritten' : k \in 1 .. IdsWritten
  OBVIOUS
<1>4. IsTree(tree)
  BY PlanFacts
<1>5. RootIdsFit' => log_block_num' = 2 + IdsTo(tree, at')
  BY <1>1, <1>4, RootFirst DEF RootIdsFit
<1> QED  BY <1>1, <1>2, <1>3, <1>5 DEF IdentifiersInv

(* and each behind the sectors of the identifiers before it.               *)
LEMMA DirectoryEntryIdentifiers ==
  ASSUME PlanInv, LoopInv, IdentifiersInv, WriteDirectoryEntry,
         IdsWritten \in Nat, IdsWritten' \in Nat, IdsWritten' <= IdsWritten
  PROVE  IdentifiersInv'
<1> DEFINE d == DirOrder(tree)[at + 1]
<1>1. /\ step = "directory_entries" /\ step' = step /\ at' = at + 1
      /\ at < Len(AllDirectories)
      /\ tree' = tree
      /\ log_block_num'
           = log_block_num + SectorsOf(ident_sizes[AllDirectories[at + 1]])
      /\ entry' = entry /\ needed_memory' = needed_memory
      /\ needed_sectors' = needed_sectors /\ ident_sizes' = ident_sizes
      /\ fi_root' = fi_root
  BY DEF WriteDirectoryEntry, plan, fidVars
<1>2. /\ entry \in Nat /\ needed_memory \in Nat /\ needed_sectors \in Nat
      /\ fi_root.icb \in Nat /\ log_block_num \in Nat
      /\ ident_sizes \in [Directories(tree) -> Nat]
      /\ \A k \in 1 .. IdsWritten :
           ident_sizes[DirOrder(tree)[k]] = FidBytes(tree, DirOrder(tree)[k])
      /\ RootIdsFit => log_block_num = 2 + IdsTo(tree, at)
  BY <1>1 DEF IdentifiersInv
<1>3. \A k \in 1 .. IdsWritten' : k \in 1 .. IdsWritten
  OBVIOUS
<1>4. /\ IsTree(tree) /\ AllDirectories = DirOrder(tree) /\ DirAmount(tree) \in Nat
      /\ Len(AllDirectories) = DirAmount(tree) + 1
  BY <1>1, WriterFacts DEF PlanSteps
<1>5. at \in Nat /\ at <= DirAmount(tree)
  BY <1>1, <1>4 DEF LoopInv
<1>6. IdsWritten = DirAmount(tree) + 1
  BY <1>1 DEF IdsWritten, FromRootEntry, FromDirectoryEntries
<1>7. ident_sizes[d] = FidBytes(tree, d)
  <2>1. at + 1 \in 1 .. IdsWritten
    BY <1>4, <1>5, <1>6
  <2> QED  BY <1>2, <2>1
<1>8. /\ IdsTo(tree, at) \in Nat /\ FidSectors(tree, d) \in Nat
      /\ IdsTo(tree, at + 1) = IdsTo(tree, at) + FidSectors(tree, d)
  BY <1>4, <1>5, IdsAlong
<1> HIDE DEF d
<1>9. log_block_num' = log_block_num + FidSectors(tree, d)
  BY <1>1, <1>4, <1>7 DEF FidSectors, d
<1>10. log_block_num' \in Nat
  BY <1>2, <1>8, <1>9
<1>11. RootIdsFit' => log_block_num' = 2 + IdsTo(tree, at')
  <2>1. RootIdsFit' => RootIdsFit
    BY <1>1 DEF RootIdsFit
  <2> DEFINE b == IdsTo(tree, at)
             c == IdsTo(tree, at + 1)
             l == FidSectors(tree, d)
  <2>2. /\ b \in Nat /\ l \in Nat /\ c = b + l
        /\ RootIdsFit => log_block_num = 2 + b
        /\ log_block_num' = log_block_num + l
    BY <1>2, <1>8, <1>9
  <2>3. IdsTo(tree, at') = c
    BY <1>1
  <2> HIDE DEF b, c, l
  <2> QED  BY ONLY <2>1, <2>2, <2>3
<1> QED  BY <1>1, <1>2, <1>3, <1>10, <1>11 DEF IdentifiersInv

(* Every step keeps them.                                                  *)
LEMMA IdentifiersInvStep ==
  ASSUME PlanInv, PlacesInv, LoopInv, IdentifiersInv, LoopInv', [Next]_vars
  PROVE  IdentifiersInv'
<1>1. CASE Plan /\ UNCHANGED writerVars
  <2>1. /\ UNCHANGED <<fidVars, log_block_num>> /\ tree' = tree
        /\ step' \in PlanSteps \cup {"header"} /\ step \in PlanSteps
    BY <1>1 DEF writerVars, Plan, SizeVolume, SortNodes, PlaceDirectory,
      SkipFile, StartFiles, PlaceFile, SkipDirectory, Planned, PlanSteps
  <2>2. IdsWritten = 0 /\ IdsWritten' = 0
    BY <2>1 DEF IdsWritten, PlanSteps, FromRootEntry, FromDirectoryEntries,
      FromFileEntries, FromData, FromEnd
  <2> QED  BY <2>1, <2>2, IdentifiersStay DEF PlanSteps
<1>2. CASE WriteSectors
  <2>1. tree' = tree
    BY <1>2, WriterKeepsPlan DEF plan
  <2>2. /\ IdsWritten \in Nat /\ IdsWritten' \in Nat
        /\ IdsWritten' <= IdsWritten \/ FlushIdentifiers
    BY <1>2, WrittenAdvances DEF Advances
  <2>3. CASE FlushIdentifiers
    BY <2>2, <2>3, FlushesIdentifiers
  <2>4. CASE IdsWritten' <= IdsWritten
    <3>1. CASE WriteFileSet
      BY <2>2, <2>4, <3>1, FileSetIdentifiers
    <3>2. CASE StartIdentifiers
      BY <2>2, <2>4, <3>2, StartsIdentifiers
    <3>3. CASE AddIdentifier
      BY <2>2, <2>4, <3>3, AddsIdentifier
    <3>4. CASE WriteRootEntry
      BY <2>2, <2>4, <3>4, RootEntryIdentifiers
    <3>5. CASE WriteDirectoryEntry
      BY <2>2, <2>4, <3>5, DirectoryEntryIdentifiers
    <3>6. CASE \/ WriteSystemArea \/ WriteVolumeDescriptors \/ WriteIntegrity
               \/ WriteAnchor \/ WritePathTables \/ ThrowPathTable
               \/ WriteDirectory \/ OverrunRecord
      <4>1. /\ UNCHANGED <<fidVars, log_block_num>>
            /\ step' \notin {"entries", "identifiers", "directory_entries"}
        BY <3>6 DEF WriteSystemArea, WriteVolumeDescriptors, WriteIntegrity,
          WriteAnchor, WritePathTables, ThrowPathTable, WriteDirectory,
          OverrunRecord, GoOn
      <4> QED  BY <2>1, <2>2, <2>4, <4>1, IdentifiersStay
    <3>7. CASE \/ DirectoryEntriesDone \/ WriteFileEntry \/ FileEntriesDone
               \/ WriteFileData \/ WritePads \/ WriteEndOfSession
      <4>1. /\ UNCHANGED <<fidVars, log_block_num>>
            /\ step' \notin {"entries", "identifiers", "directory_entries"}
        BY <3>7 DEF DirectoryEntriesDone, WriteFileEntry, FileEntriesDone,
          WriteFileData, WritePads, WriteEndOfSession, GoOn, writerVars
      <4> QED  BY <2>1, <2>2, <2>4, <4>1, IdentifiersStay
    <3> QED
      BY <1>2, <2>3, <3>1, <3>2, <3>3, <3>4, <3>5, <3>6, <3>7 DEF WriteSectors
  <2> QED  BY <2>2, <2>3, <2>4
<1>3. CASE UNCHANGED vars
  <2>1. /\ tree' = tree /\ step' = step /\ at' = at /\ lba' = lba
        /\ entry' = entry /\ needed_memory' = needed_memory
        /\ needed_sectors' = needed_sectors /\ ident_sizes' = ident_sizes
        /\ log_block_num' = log_block_num /\ fi_root' = fi_root
    BY <1>3 DEF vars, plannerVars, locations, writerVars, fidVars
  <2>2. IdsWritten' = IdsWritten
    BY <2>1 DEF IdsWritten
  <2>3. CurrentIdentifiers' <=> CurrentIdentifiers
    BY <2>1 DEF CurrentIdentifiers, EntryBlock
  <2>4. EntryBlock(Root)' = EntryBlock(Root)
    BY <2>1 DEF EntryBlock
  <2>5. RootIdsFit' <=> RootIdsFit
    BY <2>1 DEF RootIdsFit
  <2> QED  BY <2>1, <2>2, <2>3, <2>4, <2>5 DEF IdentifiersInv
<1> QED  BY <1>1, <1>2, <1>3 DEF Next
-----------------------------------------------------------------------------
(* The fixed regions: how many sectors each list takes, where the regions  *)
(* that others point to begin, and that none of them is the partition's.   *)
Lengthens(sectors) ==
  extents \subseteq extents' /\ current_sector' = current_sector + sectors

(* The sums are numbers.                                                   *)
LEMMA LaySumIsNat ==
  ASSUME NEW list, NEW n \in Nat, \A j \in 1 .. n : list[j][2] \in Nat
  PROVE  LaySum(list, n) \in Nat
<1>1. IsFiniteSet(1 .. n)
  BY FS_Interval
<1> DEFINE g == [j \in 1 .. n |-> list[j][2]]
<1>2. g \in [1 .. n -> Nat]
  OBVIOUS
<1> HIDE DEF g
<1>3. SumFunction(g) \in Nat
  BY ONLY <1>1, <1>2, SumIsNat
<1> QED  BY <1>3 DEF LaySum, g

(* Of every list: nothing it writes is the partition's unless it says so.  *)
LEMMA LaidAt ==
  ASSUME NEW list, NEW n \in Nat, DOMAIN list = 1 .. n, WriteAll(list),
         current_sector \in Nat, \A j \in 1 .. n : list[j][2] \in Nat
  PROVE  /\ Lengthens(LaySum(list, n))
         /\ \A i \in 1 .. n :
              Wrote(list[i][1], Root, current_sector + LaySum(list, i - 1))
         /\ \A e \in extents' : e \in extents \/
              /\ e.start \in Nat /\ e.len \in Nat
              /\ \E i \in 1 .. n :
                   /\ e.what = list[i][1]
                   /\ e.start = current_sector + LaySum(list, i - 1)
<1> DEFINE New(e) == \E i \in 1 .. n :
             /\ e.what = list[i][1] /\ e.node = Root /\ e.len = list[i][2]
             /\ e.start = current_sector + LaySum(list, i - 1)
<1>1. /\ extents \subseteq extents'
      /\ current_sector' = current_sector + LaySum(list, n)
      /\ \A i \in 1 .. n :
           Wrote(list[i][1], Root, current_sector + LaySum(list, i - 1))
      /\ \A e \in extents' : e \in extents \/ New(e)
  BY Laid
<1>2. ASSUME NEW e, New(e)
      PROVE  /\ e.start \in Nat /\ e.len \in Nat
             /\ \E i \in 1 .. n :
                  /\ e.what = list[i][1]
                  /\ e.start = current_sector + LaySum(list, i - 1)
  <2>1. PICK i \in 1 .. n :
          /\ e.what = list[i][1] /\ e.node = Root /\ e.len = list[i][2]
          /\ e.start = current_sector + LaySum(list, i - 1)
    BY ONLY <1>2
  <2>2. i - 1 \in Nat /\ \A j \in 1 .. i - 1 : j \in 1 .. n
    BY ONLY n \in Nat, i \in 1 .. n
  <2>3. \A j \in 1 .. i - 1 : list[j][2] \in Nat
    BY <2>2
  <2> DEFINE m == i - 1
  <2>a. m \in Nat /\ \A j \in 1 .. m : list[j][2] \in Nat
    BY <2>2, <2>3
  <2> HIDE DEF m
  <2>4. LaySum(list, m) \in Nat
    BY ONLY <2>a, LaySumIsNat
  <2>5. e.start \in Nat
    BY <2>1, <2>4 DEF m
  <2>6. list[i][2] \in Nat
    OBVIOUS
  <2> QED  BY <2>1, <2>5, <2>6
<1> HIDE DEF New
<1> QED  BY <1>1, <1>2 DEF Lengthens

(* The first 32 sectors.                                                   *)
LEMMA SystemAreaLaid ==
  ASSUME WriteSystemArea, current_sector \in Nat
  PROVE  /\ Lengthens(32)
         /\ Wrote("iso_pvd", Root, current_sector + 16)
         /\ \A e \in extents' : e \in extents \/
              /\ e.start \in Nat /\ e.len \in Nat
              /\ e.what \notin InPart
<1> DEFINE L == <<<<"reserved", 16>>, <<"iso_pvd", 1>>, <<"terminator", 1>>,
                   <<"bea", 1>>, <<"nsr", 1>>, <<"tea", 1>>,
                   <<"reserved", 11>>>>
<1>1. WriteAll(L)
  BY DEF WriteSystemArea
<1>2. DOMAIN L = 1 .. 7 /\ 7 \in Nat
  OBVIOUS
<1>3. /\ L[1][1] = "reserved" /\ L[1][2] = 16
      /\ L[2][1] = "iso_pvd" /\ L[2][2] = 1
      /\ L[3][1] = "terminator" /\ L[3][2] = 1
      /\ L[4][1] = "bea" /\ L[4][2] = 1
      /\ L[5][1] = "nsr" /\ L[5][2] = 1
      /\ L[6][1] = "tea" /\ L[6][2] = 1
      /\ L[7][1] = "reserved" /\ L[7][2] = 11
  OBVIOUS
<1> HIDE DEF L
<1>4. \A j \in 1 .. 7 : j = 1 \/ j = 2 \/ j = 3 \/ j = 4 \/ j = 5 \/ j = 6 \/ j = 7
  OBVIOUS
<1>5. \A j \in 1 .. 7 : L[j][2] \in Nat
  BY ONLY <1>3, <1>4
<1>6. /\ LaySum(L, 0) = 0
      /\ LaySum(L, 1) = 16
      /\ LaySum(L, 2) = 17
      /\ LaySum(L, 3) = 18
      /\ LaySum(L, 4) = 19
      /\ LaySum(L, 5) = 20
      /\ LaySum(L, 6) = 21
      /\ LaySum(L, 7) = 32
  <2> DEFINE k == 7
  <2>0. k \in Nat /\ k = 7 /\ \A j \in 1 .. k : L[j][2] \in Nat
    BY ONLY <1>5
  <2> HIDE DEF k
  <2>1. /\ LaySum(L, 0) = 0
        /\ k >= 1 => LaySum(L, 1) = L[1][2]
        /\ k >= 2 => LaySum(L, 2) = LaySum(L, 1) + L[2][2]
        /\ k >= 3 => LaySum(L, 3) = LaySum(L, 2) + L[3][2]
        /\ k >= 4 => LaySum(L, 4) = LaySum(L, 3) + L[4][2]
        /\ k >= 5 => LaySum(L, 5) = LaySum(L, 4) + L[5][2]
        /\ k >= 6 => LaySum(L, 6) = LaySum(L, 5) + L[6][2]
        /\ k >= 7 => LaySum(L, 7) = LaySum(L, 6) + L[7][2]
    BY ONLY <2>0, FirstSums
  <2>2. k >= 1 /\ k >= 2 /\ k >= 3 /\ k >= 4 /\ k >= 5 /\ k >= 6 /\ k >= 7
    BY ONLY <2>0
  <2> QED  BY ONLY <1>3, <2>1, <2>2
<1>7. /\ Lengthens(LaySum(L, 7))
      /\ \A i \in 1 .. 7 :
           Wrote(L[i][1], Root, current_sector + LaySum(L, i - 1))
      /\ \A e \in extents' : e \in extents \/
           /\ e.start \in Nat /\ e.len \in Nat
           /\ \E i \in 1 .. 7 :
                /\ e.what = L[i][1]
                /\ e.start = current_sector + LaySum(L, i - 1)
  BY ONLY <1>1, <1>2, <1>5, current_sector \in Nat, LaidAt
<1>8. Lengthens(32)
  BY ONLY <1>6, <1>7
<1>9. Wrote("iso_pvd", Root, current_sector + 16)
  <2>1. 2 \in 1 .. 7 /\ 2 - 1 = 1
    OBVIOUS
  <2> QED  BY ONLY <1>3, <1>6, <1>7, <2>1
<1>10. \A i \in 1 .. 7 : L[i][1] \notin InPart
  BY ONLY <1>3, <1>4 DEF InPart
<1> QED  BY ONLY <1>7, <1>8, <1>9, <1>10

(* A volume descriptor sequence.                                           *)
LEMMA DescriptorsLaid ==
  ASSUME WriteVolumeDescriptors, current_sector \in Nat
  PROVE  /\ Lengthens(16)
         /\ Wrote(IF at = 0 THEN "main_vds" ELSE "reserve_vds", Root, current_sector + 0)
         /\ \A e \in extents' : e \in extents \/
              /\ e.start \in Nat /\ e.len \in Nat
              /\ e.what \notin InPart
<1> DEFINE w == IF at = 0 THEN "main_vds" ELSE "reserve_vds"
           L == <<<<w, 0>>, <<"pvd", 1>>, <<"iuv", 1>>, <<"pd", 1>>,
                   <<"lvd", 1>>, <<"usd", 1>>, <<"td", 1>>,
                   <<"reserved", 10>>>>
<1>1. WriteAll(L)
  BY DEF WriteVolumeDescriptors
<1>0. w \notin InPart
  BY DEF InPart
<1> HIDE DEF w
<1>2. DOMAIN L = 1 .. 8 /\ 8 \in Nat
  OBVIOUS
<1>3. /\ L[1][1] = w /\ L[1][2] = 0
      /\ L[2][1] = "pvd" /\ L[2][2] = 1
      /\ L[3][1] = "iuv" /\ L[3][2] = 1
      /\ L[4][1] = "pd" /\ L[4][2] = 1
      /\ L[5][1] = "lvd" /\ L[5][2] = 1
      /\ L[6][1] = "usd" /\ L[6][2] = 1
      /\ L[7][1] = "td" /\ L[7][2] = 1
      /\ L[8][1] = "reserved" /\ L[8][2] = 10
  OBVIOUS
<1> HIDE DEF L
<1>4. \A j \in 1 .. 8 : j = 1 \/ j = 2 \/ j = 3 \/ j = 4 \/ j = 5 \/ j = 6 \/ j = 7 \/ j = 8
  OBVIOUS
<1>5. \A j \in 1 .. 8 : L[j][2] \in Nat
  BY ONLY <1>3, <1>4
<1>6. /\ LaySum(L, 0) = 0
      /\ LaySum(L, 1) = 0
      /\ LaySum(L, 2) = 1
      /\ LaySum(L, 3) = 2
      /\ LaySum(L, 4) = 3
      /\ LaySum(L, 5) = 4
      /\ LaySum(L, 6) = 5
      /\ LaySum(L, 7) = 6
      /\ LaySum(L, 8) = 16
  <2> DEFINE k == 8
  <2>0. k \in Nat /\ k = 8 /\ \A j \in 1 .. k : L[j][2] \in Nat
    BY ONLY <1>5
  <2> HIDE DEF k
  <2>1. /\ LaySum(L, 0) = 0
        /\ k >= 1 => LaySum(L, 1) = L[1][2]
        /\ k >= 2 => LaySum(L, 2) = LaySum(L, 1) + L[2][2]
        /\ k >= 3 => LaySum(L, 3) = LaySum(L, 2) + L[3][2]
        /\ k >= 4 => LaySum(L, 4) = LaySum(L, 3) + L[4][2]
        /\ k >= 5 => LaySum(L, 5) = LaySum(L, 4) + L[5][2]
        /\ k >= 6 => LaySum(L, 6) = LaySum(L, 5) + L[6][2]
        /\ k >= 7 => LaySum(L, 7) = LaySum(L, 6) + L[7][2]
        /\ k >= 8 => LaySum(L, 8) = LaySum(L, 7) + L[8][2]
    BY ONLY <2>0, FirstSums
  <2>2. k >= 1 /\ k >= 2 /\ k >= 3 /\ k >= 4 /\ k >= 5 /\ k >= 6 /\ k >= 7 /\ k >= 8
    BY ONLY <2>0
  <2> QED  BY ONLY <1>3, <2>1, <2>2
<1>7. /\ Lengthens(LaySum(L, 8))
      /\ \A i \in 1 .. 8 :
           Wrote(L[i][1], Root, current_sector + LaySum(L, i - 1))
      /\ \A e \in extents' : e \in extents \/
           /\ e.start \in Nat /\ e.len \in Nat
           /\ \E i \in 1 .. 8 :
                /\ e.what = L[i][1]
                /\ e.start = current_sector + LaySum(L, i - 1)
  BY ONLY <1>1, <1>2, <1>5, current_sector \in Nat, LaidAt
<1>8. Lengthens(16)
  BY ONLY <1>6, <1>7
<1>9. Wrote(w, Root, current_sector + 0)
  <2>1. 1 \in 1 .. 8 /\ 1 - 1 = 0
    OBVIOUS
  <2> QED  BY ONLY <1>3, <1>6, <1>7, <2>1
<1>10. \A i \in 1 .. 8 : L[i][1] \notin InPart
  BY ONLY <1>0, <1>3, <1>4 DEF InPart
<1> QED  BY ONLY <1>7, <1>8, <1>9, <1>10 DEF w

(* The integrity sequence, up to the anchor.                               *)
LEMMA IntegrityLaid ==
  ASSUME WriteIntegrity, current_sector \in Nat
  PROVE  /\ Lengthens(192)
         /\ Wrote("lvid", Root, current_sector + 0)
         /\ \A e \in extents' : e \in extents \/
              /\ e.start \in Nat /\ e.len \in Nat
              /\ e.what \notin InPart
<1> DEFINE L == <<<<"lvid", 1>>, <<"td", 1>>, <<"reserved", 190>>>>
<1>1. WriteAll(L)
  BY DEF WriteIntegrity
<1>2. DOMAIN L = 1 .. 3 /\ 3 \in Nat
  OBVIOUS
<1>3. /\ L[1][1] = "lvid" /\ L[1][2] = 1
      /\ L[2][1] = "td" /\ L[2][2] = 1
      /\ L[3][1] = "reserved" /\ L[3][2] = 190
  OBVIOUS
<1> HIDE DEF L
<1>4. \A j \in 1 .. 3 : j = 1 \/ j = 2 \/ j = 3
  OBVIOUS
<1>5. \A j \in 1 .. 3 : L[j][2] \in Nat
  BY ONLY <1>3, <1>4
<1>6. /\ LaySum(L, 0) = 0
      /\ LaySum(L, 1) = 1
      /\ LaySum(L, 2) = 2
      /\ LaySum(L, 3) = 192
  <2> DEFINE k == 3
  <2>0. k \in Nat /\ k = 3 /\ \A j \in 1 .. k : L[j][2] \in Nat
    BY ONLY <1>5
  <2> HIDE DEF k
  <2>1. /\ LaySum(L, 0) = 0
        /\ k >= 1 => LaySum(L, 1) = L[1][2]
        /\ k >= 2 => LaySum(L, 2) = LaySum(L, 1) + L[2][2]
        /\ k >= 3 => LaySum(L, 3) = LaySum(L, 2) + L[3][2]
    BY ONLY <2>0, FirstSums
  <2>2. k >= 1 /\ k >= 2 /\ k >= 3
    BY ONLY <2>0
  <2> QED  BY ONLY <1>3, <2>1, <2>2
<1>7. /\ Lengthens(LaySum(L, 3))
      /\ \A i \in 1 .. 3 :
           Wrote(L[i][1], Root, current_sector + LaySum(L, i - 1))
      /\ \A e \in extents' : e \in extents \/
           /\ e.start \in Nat /\ e.len \in Nat
           /\ \E i \in 1 .. 3 :
                /\ e.what = L[i][1]
                /\ e.start = current_sector + LaySum(L, i - 1)
  BY ONLY <1>1, <1>2, <1>5, current_sector \in Nat, LaidAt
<1>8. Lengthens(192)
  BY ONLY <1>6, <1>7
<1>9. Wrote("lvid", Root, current_sector + 0)
  <2>1. 1 \in 1 .. 3 /\ 1 - 1 = 0
    OBVIOUS
  <2> QED  BY ONLY <1>3, <1>6, <1>7, <2>1
<1>10. \A i \in 1 .. 3 : L[i][1] \notin InPart
  BY ONLY <1>3, <1>4 DEF InPart
<1> QED  BY ONLY <1>7, <1>8, <1>9, <1>10

(* The path tables.                                                        *)
LEMMA TablesLaid ==
  ASSUME WritePathTables, current_sector \in Nat
  PROVE  /\ Lengthens(4)
         /\ Wrote("path_table_L", Root, current_sector + 0)
         /\ Wrote("path_table_opt_L", Root, current_sector + 1)
         /\ Wrote("path_table_M", Root, current_sector + 2)
         /\ Wrote("path_table_opt_M", Root, current_sector + 3)
         /\ \A e \in extents' : e \in extents \/
              /\ e.start \in Nat /\ e.len \in Nat
              /\ e.what \notin InPart
<1> DEFINE L == <<<<"path_table_L", 1>>, <<"path_table_opt_L", 1>>,
                   <<"path_table_M", 1>>, <<"path_table_opt_M", 1>>>>
<1>1. WriteAll(L)
  BY DEF WritePathTables
<1>2. DOMAIN L = 1 .. 4 /\ 4 \in Nat
  OBVIOUS
<1>3. /\ L[1][1] = "path_table_L" /\ L[1][2] = 1
      /\ L[2][1] = "path_table_opt_L" /\ L[2][2] = 1
      /\ L[3][1] = "path_table_M" /\ L[3][2] = 1
      /\ L[4][1] = "path_table_opt_M" /\ L[4][2] = 1
  OBVIOUS
<1> HIDE DEF L
<1>4. \A j \in 1 .. 4 : j = 1 \/ j = 2 \/ j = 3 \/ j = 4
  OBVIOUS
<1>5. \A j \in 1 .. 4 : L[j][2] \in Nat
  BY ONLY <1>3, <1>4
<1>6. /\ LaySum(L, 0) = 0
      /\ LaySum(L, 1) = 1
      /\ LaySum(L, 2) = 2
      /\ LaySum(L, 3) = 3
      /\ LaySum(L, 4) = 4
  <2> DEFINE k == 4
  <2>0. k \in Nat /\ k = 4 /\ \A j \in 1 .. k : L[j][2] \in Nat
    BY ONLY <1>5
  <2> HIDE DEF k
  <2>1. /\ LaySum(L, 0) = 0
        /\ k >= 1 => LaySum(L, 1) = L[1][2]
        /\ k >= 2 => LaySum(L, 2) = LaySum(L, 1) + L[2][2]
        /\ k >= 3 => LaySum(L, 3) = LaySum(L, 2) + L[3][2]
        /\ k >= 4 => LaySum(L, 4) = LaySum(L, 3) + L[4][2]
    BY ONLY <2>0, FirstSums
  <2>2. k >= 1 /\ k >= 2 /\ k >= 3 /\ k >= 4
    BY ONLY <2>0
  <2> QED  BY ONLY <1>3, <2>1, <2>2
<1>7. /\ Lengthens(LaySum(L, 4))
      /\ \A i \in 1 .. 4 :
           Wrote(L[i][1], Root, current_sector + LaySum(L, i - 1))
      /\ \A e \in extents' : e \in extents \/
           /\ e.start \in Nat /\ e.len \in Nat
           /\ \E i \in 1 .. 4 :
                /\ e.what = L[i][1]
                /\ e.start = current_sector + LaySum(L, i - 1)
  BY ONLY <1>1, <1>2, <1>5, current_sector \in Nat, LaidAt
<1>8. Lengthens(4)
  BY ONLY <1>6, <1>7
<1>9. Wrote("path_table_L", Root, current_sector + 0)
  <2>1. 1 \in 1 .. 4 /\ 1 - 1 = 0
    OBVIOUS
  <2> QED  BY ONLY <1>3, <1>6, <1>7, <2>1
<1>10. Wrote("path_table_opt_L", Root, current_sector + 1)
  <2>1. 2 \in 1 .. 4 /\ 2 - 1 = 1
    OBVIOUS
  <2> QED  BY ONLY <1>3, <1>6, <1>7, <2>1
<1>11. Wrote("path_table_M", Root, current_sector + 2)
  <2>1. 3 \in 1 .. 4 /\ 3 - 1 = 2
    OBVIOUS
  <2> QED  BY ONLY <1>3, <1>6, <1>7, <2>1
<1>12. Wrote("path_table_opt_M", Root, current_sector + 3)
  <2>1. 4 \in 1 .. 4 /\ 4 - 1 = 3
    OBVIOUS
  <2> QED  BY ONLY <1>3, <1>6, <1>7, <2>1
<1>13. \A i \in 1 .. 4 : L[i][1] \notin InPart
  BY ONLY <1>3, <1>4 DEF InPart
<1> QED  BY ONLY <1>7, <1>8, <1>9, <1>10, <1>11, <1>12, <1>13

(* The partition's first two blocks.                                       *)
LEMMA FileSetLaid ==
  ASSUME WriteFileSet, current_sector \in Nat
  PROVE  /\ Lengthens(2)
         /\ Wrote("fsd", Root, current_sector + 0)
         /\ \A e \in extents' : e \in extents \/
              /\ e.start \in Nat /\ e.len \in Nat
              /\ \/ e.what \notin InPart
                 \/ e.what = "fsd" /\ e.start = current_sector
<1> DEFINE L == <<<<"fsd", 1>>, <<"td", 1>>>>
<1>1. WriteAll(L)
  BY DEF WriteFileSet
<1>2. DOMAIN L = 1 .. 2 /\ 2 \in Nat
  OBVIOUS
<1>3. /\ L[1][1] = "fsd" /\ L[1][2] = 1
      /\ L[2][1] = "td" /\ L[2][2] = 1
  OBVIOUS
<1> HIDE DEF L
<1>4. \A j \in 1 .. 2 : j = 1 \/ j = 2
  OBVIOUS
<1>5. \A j \in 1 .. 2 : L[j][2] \in Nat
  BY ONLY <1>3, <1>4
<1>6. /\ LaySum(L, 0) = 0
      /\ LaySum(L, 1) = 1
      /\ LaySum(L, 2) = 2
  <2> DEFINE k == 2
  <2>0. k \in Nat /\ k = 2 /\ \A j \in 1 .. k : L[j][2] \in Nat
    BY ONLY <1>5
  <2> HIDE DEF k
  <2>1. /\ LaySum(L, 0) = 0
        /\ k >= 1 => LaySum(L, 1) = L[1][2]
        /\ k >= 2 => LaySum(L, 2) = LaySum(L, 1) + L[2][2]
    BY ONLY <2>0, FirstSums
  <2>2. k >= 1 /\ k >= 2
    BY ONLY <2>0
  <2> QED  BY ONLY <1>3, <2>1, <2>2
<1>7. /\ Lengthens(LaySum(L, 2))
      /\ \A i \in 1 .. 2 :
           Wrote(L[i][1], Root, current_sector + LaySum(L, i - 1))
      /\ \A e \in extents' : e \in extents \/
           /\ e.start \in Nat /\ e.len \in Nat
           /\ \E i \in 1 .. 2 :
                /\ e.what = L[i][1]
                /\ e.start = current_sector + LaySum(L, i - 1)
  BY ONLY <1>1, <1>2, <1>5, current_sector \in Nat, LaidAt
<1>8. Lengthens(2)
  BY ONLY <1>6, <1>7
<1>9. Wrote("fsd", Root, current_sector + 0)
  <2>1. 1 \in 1 .. 2 /\ 1 - 1 = 0
    OBVIOUS
  <2> QED  BY ONLY <1>3, <1>6, <1>7, <2>1
<1>10. \A i \in 1 .. 2 :
         L[i][1] \notin InPart \/ (L[i][1] = "fsd" /\ LaySum(L, i - 1) = 0)
  <2>1. "td" \notin InPart /\ LaySum(L, 1 - 1) = LaySum(L, 0)
    BY DEF InPart
  <2> TAKE i \in 1 .. 2
  <2>2. CASE i = 1
    <3>1. LaySum(L, i - 1) = LaySum(L, 1 - 1)
      BY ONLY <2>2
    <3>2. L[i][1] = L[1][1]
      BY ONLY <2>2
    <3> QED  BY ONLY <1>3, <1>6, <2>1, <3>1, <3>2
  <2>3. CASE i = 2
    <3>1. L[i][1] = L[2][1]
      BY ONLY <2>3
    <3> QED  BY ONLY <1>3, <2>1, <3>1
  <2>4. i = 1 \/ i = 2
    OBVIOUS
  <2> QED  BY ONLY <2>2, <2>3, <2>4
<1>11. current_sector + 0 = current_sector
  OBVIOUS
<1> QED  BY ONLY <1>7, <1>8, <1>9, <1>10, <1>11
-----------------------------------------------------------------------------
(* What is written against what is planned.  Signed chars hold the lengths *)
(* they are given up to 127.                                               *)
LEMMA SignedChars ==
  ASSUME NEW n \in Nat
  PROVE  SignedChar(n) \in Int /\ (n <= 127 => SignedChar(n) = n)
BY DEF SignedChar

(* A directory's records take a number of sectors, the planner's if every  *)
(* record's length fits.                                                   *)
LEMMA RecordsAsPlanned ==
  ASSUME IsTree(tree), NEW d, \A p \in Children(tree, d) : ~Overruns(p)
  PROVE  /\ SectorsOf(WrittenRecordBytes(d)) \in Nat
         /\ NamesFit =>
              SectorsOf(WrittenRecordBytes(d)) = RecordSectors(tree, d)
<1> DEFINE C == Children(tree, d)
           w == [p \in C |-> DirRecLen(p)]
<1>1. IsFiniteSet(C) /\ C \subseteq Entries(tree) /\ Entries(tree) \subseteq DOMAIN tree
  BY ChildrenFinite DEF Children, Entries
<1>2. ASSUME NEW p \in C
      PROVE  DirRecLen(p) \in Nat /\ (NamesFit => DirRecLen(p) = RecordLen(tree, p))
  <2>1. RecordLen(tree, p) \in Nat /\ tree[p].len \in Nat
    <3>1. p \in DOMAIN tree
      BY <1>1
    <3>2. RecordLen(tree, p) \in Nat
      BY ONLY IsTree(tree), <3>1, EntrySizes
    <3>3. tree[p].len \in 1 .. NameMax
      BY <3>1 DEF IsTree, Attributes
    <3> QED  BY <3>2, <3>3 DEF NameMax
  <2>2. DirRecLen(p) \in Int /\ (RecordLen(tree, p) <= 127 => DirRecLen(p) = RecordLen(tree, p))
    <3> DEFINE n == RecordLen(tree, p)
    <3>1. n \in Nat /\ DirRecLen(p) = SignedChar(n)
      BY <2>1 DEF DirRecLen
    <3> HIDE DEF n
    <3>2. DirRecLen(p) \in Int /\ (n <= 127 => DirRecLen(p) = n)
      BY ONLY <3>1, SignedChars
    <3> QED  BY <3>2 DEF n
  <2>3. FileIdentLen(p) \in Int
    <3>1. tree[p].len + (IF tree[p].dir THEN 0 ELSE 2) \in Nat
      BY <2>1
    <3> QED  BY <3>1, SignedChars DEF FileIdentLen
  <2>4. ~(FileIdentLen(p) < 0) /\ ~(DirRecLen(p) - 33 - FileIdentLen(p) < 0)
    BY DEF Overruns
  <2>5. DirRecLen(p) \in Nat
    BY <2>2, <2>3, <2>4
  <2>6. NamesFit => RecordLen(tree, p) <= 127
    BY <1>1 DEF NamesFit
  <2> QED  BY <2>2, <2>5, <2>6
<1>3. w \in [C -> Nat]
  BY <1>2
<1>4. SumFunction(w) \in Nat
  <2> HIDE DEF C, w
  <2> QED  BY <1>1, <1>3, SumIsNat
<1>5. WrittenRecordBytes(d) = 96 + SumFunction(w)
  BY DEF WrittenRecordBytes
<1>6. SectorsOf(WrittenRecordBytes(d)) \in Nat
  <2> HIDE DEF w
  <2> QED  BY <1>4, <1>5, DivisionIsNat
<1>7. NamesFit => w = [p \in C |-> RecordLen(tree, p)]
  BY <1>2
<1>8. NamesFit => WrittenRecordBytes(d) = RecordBytes(tree, d)
  BY <1>7 DEF WrittenRecordBytes, RecordBytes
<1> QED  BY <1>6, <1>8 DEF RecordSectors

(* The writer's sectors of a directory's identifiers are the planner's     *)
(* unless they end on a sector's boundary.                                 *)
LEMMA BlocksAsPlanned ==
  ASSUME IsTree(tree), NoExactFit, NEW d \in Directories(tree)
  PROVE  FidBytes(tree, d) \div Sector + 1 = FidSectors(tree, d)
<1>1. FidBytes(tree, d) \in Nat
  BY AtLeastOneSector
<1>2. FidBytes(tree, d) % Sector # 0
  BY DEF NoExactFit
<1>3. ASSUME NEW n \in Nat, n % Sector # 0
      PROVE  n \div Sector + 1 = SectorsOf(n)
  BY <1>3 DEF Sector, SectorsOf
<1> QED  BY <1>1, <1>2, <1>3 DEF FidSectors

(* The plan, as the writer finds it.                                       *)
LEMMA PlanKept ==
  ASSUME WriteSectors
  PROVE  /\ tree' = tree /\ order' = order /\ global_sector' = global_sector
         /\ local_sector' = local_sector /\ lba' = lba
         /\ partition_start_sector' = partition_start_sector
         /\ data_sector' = data_sector /\ total_sectors' = total_sectors
         /\ pad_sectors' = pad_sectors
         /\ NamesFit' = NamesFit /\ NoExactFit' = NoExactFit
         /\ RootIdsFit' = RootIdsFit
<1>1. /\ tree' = tree /\ order' = order /\ global_sector' = global_sector
      /\ local_sector' = local_sector /\ lba' = lba
      /\ partition_start_sector' = partition_start_sector
      /\ data_sector' = data_sector /\ total_sectors' = total_sectors
      /\ pad_sectors' = pad_sectors
  BY WriterKeepsPlan DEF plan, locations, sizes
<1> QED  BY <1>1 DEF NamesFit, NoExactFit, RootIdsFit

(* The planner's sizes, as sums over the list of directories.              *)
LEMMA PlanSums ==
  ASSUME PlanInv, PlacesInv, step \notin PlanSteps
  PROVE  /\ partition_start_sector \in Nat /\ data_sector \in Nat
         /\ pad_sectors \in Nat /\ total_sectors \in Nat
         /\ FileIdentifiersAmount(tree) \in Nat
         /\ partition_start_sector
              = DirRecordsStart + RecordsTo(tree, DirAmount(tree) + 1)
         /\ data_sector = partition_start_sector
              + (2 + FileIdentifiersAmount(tree) + (DirAmount(tree) + 1)
                   + FileAmount(tree))
         /\ RecordsTo(tree, 0) = 0 /\ IdsTo(tree, 0) = 0 /\ DataTo(tree, 0) = 0
         /\ IdsTo(tree, DirAmount(tree) + 1) = FileIdentifiersAmount(tree)
<1>1. /\ IsTree(tree) /\ FileIdentifiersAmount(tree) \in Nat
      /\ DirAmount(tree) \in Nat /\ FileAmount(tree) \in Nat
  BY SizesAreNat, PlanFacts
<1>2. /\ partition_start_sector \in Nat /\ data_sector \in Nat
      /\ pad_sectors \in Nat /\ total_sectors \in Nat
  BY PlacesFacts
<1>3. /\ RecordsTo(tree, 0) = 0 /\ IdsTo(tree, 0) = 0 /\ DataTo(tree, 0) = 0
      /\ RecordsTo(tree, DirAmount(tree) + 1) = DirectoryRecordsAmount(tree)
      /\ IdsTo(tree, DirAmount(tree) + 1) = FileIdentifiersAmount(tree)
  BY <1>1, PartsMakeTheWhole
<1>4. step # "size"
  BY DEF PlanSteps
<1>5. data_sector = partition_start_sector + PartitionHead(tree)
  BY <1>4 DEF PlacesInv, VolumeSized
<1>6. partition_start_sector = DirRecordsStart + DirectoryRecordsAmount(tree)
  BY <1>4 DEF PlanInv, PartitionStarts
<1>7. PartitionHead(tree) = 2 + FileIdentifiersAmount(tree) + (DirAmount(tree) + 1)
                              + FileAmount(tree)
  BY <1>1 DEF PartitionHead
<1> QED  BY <1>1, <1>2, <1>3, <1>5, <1>6, <1>7
-----------------------------------------------------------------------------
(* The writer is where the planner put what it writes next.                *)
LEMMA PositionInvInit == Init => PositionInv
BY DEF Init, PlannerInit, PositionInv, PlanSteps

(* Sums of one list or the other, a directory further.                     *)
LEMMA OneFurther ==
  ASSUME PlanInv, PlacesInv, IdentifiersInv, step \notin PlanSteps, at \in Nat,
         at <= DirAmount(tree)
  PROVE  /\ AllDirectories[at + 1] = DirOrder(tree)[at + 1]
         /\ RecordsTo(tree, at) \in Nat /\ IdsTo(tree, at) \in Nat
         /\ RecordsTo(tree, at + 1)
              = RecordsTo(tree, at) + RecordSectors(tree, DirOrder(tree)[at + 1])
         /\ IdsTo(tree, at + 1)
              = IdsTo(tree, at) + FidSectors(tree, DirOrder(tree)[at + 1])
         /\ DirOrder(tree)[at + 1] \in Directories(tree)
         /\ RecordSectors(tree, DirOrder(tree)[at + 1]) \in Nat
         /\ FidSectors(tree, DirOrder(tree)[at + 1]) \in Nat
BY WriterFacts, RecordsAlong, IdsAlong

(* A directory's records move it on by what the planner counted,           *)
LEMMA PositionAfterRecords ==
  ASSUME PlanInv, PlacesInv, LoopInv, IdentifiersInv, PositionInv,
         WriteDirectory
  PROVE  PositionInv'
<1> DEFINE N == DirAmount(tree)
           d == DirOrder(tree)[at + 1]
           w == SectorsOf(WrittenRecordBytes(d))
           b == RecordsTo(tree, at)
           r == RecordSectors(tree, d)
<1>1. WriteSectors /\ step = "directory" /\ step \notin PlanSteps
  BY DEF WriteSectors, WriteDirectory, PlanSteps
<1>2. /\ IsTree(tree) /\ N \in Nat /\ Len(AllDirectories) = N + 1
      /\ at \in 0 .. N
  BY <1>1, WriterFacts DEF LoopInv
<1>3. /\ AllDirectories[at + 1] = d /\ b \in Nat /\ r \in Nat
      /\ RecordsTo(tree, at + 1) = b + r
  BY <1>1, <1>2, OneFurther
<1>4. /\ current_sector' = current_sector + w
      /\ \A p \in Children(tree, d) : ~Overruns(p)
  BY <1>3 DEF WriteDirectory, Write
<1>5. w \in Nat /\ (NamesFit => w = r)
  <2> HIDE DEF d
  <2> QED  BY <1>2, <1>4, RecordsAsPlanned DEF w, r
<1>6. /\ current_sector \in Nat
      /\ at = 0 \/ NamesFit => current_sector = DirRecordsStart + b
  BY <1>1 DEF PositionInv
<1>7. /\ partition_start_sector = DirRecordsStart + RecordsTo(tree, N + 1)
      /\ DirRecordsStart \in Nat
  BY <1>1, PlanSums DEF DirRecordsStart
<1>8. current_sector' \in Nat
  BY <1>4, <1>5, <1>6
<1> HIDE DEF d, w, b, r
<1>9. NamesFit => current_sector' = DirRecordsStart + RecordsTo(tree, at + 1)
  BY <1>3, <1>4, <1>5, <1>6, <1>7
<1>10. \/ step' = "directory" /\ at' = at + 1 /\ at' # 0
       \/ step' = "file_set" /\ at + 1 = N + 1
  BY <1>2 DEF WriteDirectory
<1>11. /\ tree' = tree /\ NamesFit' = NamesFit
       /\ partition_start_sector' = partition_start_sector
  BY <1>1, PlanKept
<1>12. CASE step' = "directory"
  <2>1. RecordsTo(tree, at)' = RecordsTo(tree, at + 1)
    BY <1>10, <1>11, <1>12
  <2> QED  BY <1>8, <1>9, <1>10, <1>11, <1>12, <2>1 DEF PositionInv, PlanSteps, DirRecordsStart
<1>13. CASE step' = "file_set"
  <2>1. NamesFit => current_sector' = partition_start_sector
    BY <1>7, <1>9, <1>10, <1>13
  <2> QED  BY <1>8, <1>11, <1>13, <2>1 DEF PositionInv, PlanSteps
<1> QED  BY <1>10, <1>12, <1>13

(* and so do its identifiers.                                              *)
LEMMA PositionAfterIdentifiers ==
  ASSUME PlanInv, PlacesInv, LoopInv, IdentifiersInv, PositionInv,
         FlushIdentifiers
  PROVE  PositionInv'
<1> DEFINE N == DirAmount(tree)
           F == FileIdentifiersAmount(tree)
           d == DirOrder(tree)[at + 1]
           b == IdsTo(tree, at)
           r == FidSectors(tree, d)
<1>1. WriteSectors /\ step = "entries" /\ step \notin PlanSteps
  BY DEF WriteSectors, FlushIdentifiers, PlanSteps
<1>2. /\ IsTree(tree) /\ N \in Nat /\ Len(AllDirectories) = N + 1
      /\ at \in 0 .. N
  BY <1>1, WriterFacts DEF LoopInv
<1>3. /\ AllDirectories[at + 1] = d /\ b \in Nat /\ r \in Nat
      /\ IdsTo(tree, at + 1) = b + r /\ d \in Directories(tree)
  BY <1>1, <1>2, OneFurther
<1>4. /\ current_sector' = current_sector + needed_sectors
      /\ entry = Len(Listing(tree, d))
  BY <1>3 DEF FlushIdentifiers, Write
<1>5. needed_sectors \in Nat /\ (NoExactFit => needed_sectors = r)
  <2>1. /\ needed_sectors \in Nat
        /\ needed_memory = FidBase + IdBytesTo(tree, d, entry)
        /\ needed_sectors = needed_memory \div Sector + 1
    BY <1>1 DEF IdentifiersInv, CurrentIdentifiers
  <2> HIDE DEF d
  <2>2. needed_memory = FidBytes(tree, d)
    BY <1>2, <1>3, <1>4, <2>1, IdBytesWhole
  <2> QED  BY <1>2, <1>3, <2>1, <2>2, BlocksAsPlanned DEF r
<1>6. /\ current_sector \in Nat
      /\ NoExactFit => current_sector = partition_start_sector + (2 + b)
  BY <1>1 DEF PositionInv
<1>7. /\ partition_start_sector \in Nat /\ IdsTo(tree, N + 1) = F /\ F \in Nat
  BY <1>1, PlanSums
<1>8. current_sector' \in Nat
  BY <1>4, <1>5, <1>6
<1> HIDE DEF d, b, r, F
<1>9. NoExactFit =>
        current_sector' = partition_start_sector + (2 + IdsTo(tree, at + 1))
  BY <1>3, <1>4, <1>5, <1>6, <1>7
<1>10. \/ step' = "identifiers" /\ at' = at + 1
       \/ step' = "root_entry" /\ at + 1 = N + 1 /\ at' = 0
  BY <1>2 DEF FlushIdentifiers
<1>11. /\ tree' = tree /\ NoExactFit' = NoExactFit
       /\ partition_start_sector' = partition_start_sector
  BY <1>1, PlanKept
<1>12. CASE step' = "identifiers"
  <2>1. IdsTo(tree, at)' = IdsTo(tree, at + 1)
    BY <1>10, <1>11, <1>12
  <2> QED  BY <1>8, <1>9, <1>11, <1>12, <2>1 DEF PositionInv, PlanSteps
<1>13. CASE step' = "root_entry"
  <2>1. NoExactFit => current_sector' = partition_start_sector + (2 + F + 0)
    BY <1>7, <1>9, <1>10, <1>13
  <2>2. FileIdentifiersAmount(tree)' = F
    BY <1>11 DEF F
  <2> QED  BY <1>8, <1>10, <1>11, <1>13, <2>1, <2>2 DEF PositionInv, PlanSteps
<1> QED  BY <1>10, <1>12, <1>13

(* Every file's entry takes a sector, its data the sectors it has.         *)
LEMMA PositionAfterData ==
  ASSUME PlanInv, PlacesInv, LoopInv, PositionInv, WriteFileData
  PROVE  PositionInv'
<1> DEFINE M == FileAmount(tree)
           p == FileOrder(tree)[at + 1]
           b == DataTo(tree, at)
           r == tree[p].sectors
<1>1. /\ WriteSectors /\ step = "data" /\ step' = "data"
      /\ step \notin PlanSteps /\ at' = at + 1
  BY DEF WriteSectors, WriteFileData, PlanSteps
<1>2. /\ IsTree(tree) /\ M \in Nat /\ AllFiles = FileOrder(tree)
      /\ Len(AllFiles) = M /\ at \in Nat /\ at < M
  BY <1>1, WriterFacts DEF LoopInv, WriteFileData
<1>3. b \in Nat /\ r \in Nat /\ DataTo(tree, at + 1) = b + r
  BY <1>2, DataAlong
<1>4. current_sector' = current_sector + r
  BY <1>2 DEF WriteFileData, Write
<1>5. /\ current_sector \in Nat
      /\ NoExactFit => current_sector = data_sector + b
  BY <1>1 DEF PositionInv
<1>6. data_sector \in Nat
  BY <1>1, PlanSums
<1> HIDE DEF p, b, r
<1>7. current_sector' \in Nat
  BY <1>3, <1>4, <1>5
<1>8. NoExactFit => current_sector' = data_sector + DataTo(tree, at + 1)
  BY <1>3, <1>4, <1>5, <1>6
<1>9. /\ tree' = tree /\ NoExactFit' = NoExactFit /\ data_sector' = data_sector
  BY <1>1, PlanKept
<1>10. DataTo(tree, at)' = DataTo(tree, at + 1)
  BY <1>1, <1>9
<1> QED  BY <1>1, <1>7, <1>8, <1>9, <1>10 DEF PositionInv, PlanSteps
(* The other regions are of a fixed length.                                *)
LEMMA PositionAfterFixed ==
  ASSUME PlanInv, PlacesInv, LoopInv, PositionInv,
         \/ WriteSystemArea \/ WriteVolumeDescriptors \/ WriteIntegrity
         \/ WriteAnchor \/ WritePathTables \/ ThrowPathTable \/ OverrunRecord
         \/ WriteFileSet
  PROVE  PositionInv'
<1>1. WriteSectors
  BY DEF WriteSectors
<1>2. step \notin PlanSteps /\ tree' = tree
      /\ partition_start_sector' = partition_start_sector
      /\ NoExactFit' = NoExactFit
  BY <1>1, PlanKept, WriterKeepsPlan
<1>3. current_sector \in Nat
  BY DEF PositionInv
<1>4. CASE WriteSystemArea
  BY <1>3, <1>4, SystemAreaLaid
     DEF PositionInv, LoopInv, WriteSystemArea, GoOn, Lengthens, PlanSteps
<1>5. CASE WriteVolumeDescriptors
  BY <1>3, <1>5, DescriptorsLaid
     DEF PositionInv, LoopInv, WriteVolumeDescriptors, Lengthens, PlanSteps
<1>6. CASE WriteIntegrity
  BY <1>3, <1>6, IntegrityLaid
     DEF PositionInv, LoopInv, WriteIntegrity, GoOn, Lengthens, PlanSteps
<1>7. CASE WriteAnchor
  BY <1>3, <1>7
     DEF PositionInv, LoopInv, WriteAnchor, Write, GoOn, PlanSteps
<1>8. CASE WritePathTables
  <2>1. /\ step = "path_tables" /\ step' = "directory" /\ at' = at
        /\ current_sector' = current_sector + 4
    BY <1>3, <1>8, TablesLaid DEF WritePathTables, GoOn, Lengthens
  <2>2. at = 0 /\ current_sector = 257
    BY <2>1 DEF LoopInv, PositionInv
  <2>3. RecordsTo(tree, at)' = 0
    BY <1>2, <2>1, <2>2, PlanSums
  <2> QED  BY <2>1, <2>2, <2>3 DEF PositionInv, DirRecordsStart, PlanSteps
<1>9. CASE ThrowPathTable \/ OverrunRecord
  BY <1>3, <1>9
     DEF PositionInv, ThrowPathTable, OverrunRecord, image, GoOn, PlanSteps
<1>10. CASE WriteFileSet
  <2>1. /\ step = "file_set" /\ step' = "identifiers" /\ at' = at
        /\ current_sector' = current_sector + 2
    BY <1>3, <1>10, FileSetLaid DEF WriteFileSet, GoOn, Lengthens
  <2>2. at = 0 /\ (NamesFit => current_sector = partition_start_sector)
    BY <2>1 DEF LoopInv, PositionInv
  <2>3. NoExactFit => NamesFit
    BY DEF NoExactFit
  <2>4. IdsTo(tree, at)' = 0 /\ 2 + 0 = 2
    BY <1>2, <2>1, <2>2, PlanSums
  <2>5. NoExactFit => current_sector' = partition_start_sector + 2
    BY <1>3, <2>1, <2>2, <2>3
  <2>6. current_sector' \in Nat
    BY <1>3, <2>1
  <2> QED  BY <1>2, <2>1, <2>4, <2>5, <2>6 DEF PositionInv, PlanSteps
<1> QED  BY <1>4, <1>5, <1>6, <1>7, <1>8, <1>9, <1>10

(* An entry takes a sector; between the loops nothing is written.          *)
LEMMA PositionAfterEntries ==
  ASSUME PlanInv, PlacesInv, LoopInv, PositionInv,
         \/ StartIdentifiers \/ AddIdentifier \/ WriteRootEntry
         \/ WriteDirectoryEntry \/ DirectoryEntriesDone \/ WriteFileEntry
         \/ FileEntriesDone \/ WritePads \/ WriteEndOfSession
  PROVE  PositionInv'
<1> DEFINE N == DirAmount(tree)
           M == FileAmount(tree)
           F == FileIdentifiersAmount(tree)
<1>1. WriteSectors
  BY DEF WriteSectors
<1>2. /\ step \notin PlanSteps /\ tree' = tree
      /\ partition_start_sector' = partition_start_sector
      /\ data_sector' = data_sector /\ pad_sectors' = pad_sectors
      /\ NoExactFit' = NoExactFit
  BY <1>1, PlanKept, WriterKeepsPlan
<1>3. /\ Len(AllDirectories) = N + 1 /\ Len(AllFiles) = M
      /\ N \in Nat /\ M \in Nat
  BY <1>2, WriterFacts
<1>4. /\ partition_start_sector \in Nat /\ data_sector \in Nat
      /\ pad_sectors \in Nat /\ F \in Nat
      /\ data_sector = partition_start_sector + (2 + F + (N + 1) + M)
      /\ DataTo(tree, 0) = 0
  BY <1>2, PlanSums
<1>5. DirAmount(tree)' = N /\ FileAmount(tree)' = M /\ FileIdentifiersAmount(tree)' = F
  BY <1>2
<1>6. current_sector \in Nat /\ at \in Nat
  BY DEF PositionInv, LoopInv
<1>8. CASE StartIdentifiers \/ AddIdentifier
  <2>1. /\ step \in {"identifiers", "entries"} /\ step' = "entries" /\ at' = at
        /\ current_sector' = current_sector
    BY <1>8 DEF StartIdentifiers, AddIdentifier, GoOn, image
  <2>2. IdsTo(tree, at)' = IdsTo(tree, at)
    BY <1>2, <2>1
  <2> QED  BY <1>2, <1>6, <2>1, <2>2 DEF PositionInv, PlanSteps
<1> HIDE DEF N, M, F
<1>9. CASE WriteRootEntry
  <2>1. /\ step = "root_entry" /\ step' = "directory_entries" /\ at' = 1
        /\ current_sector' = current_sector + 1
    BY <1>9 DEF WriteRootEntry, WriteEntry, Write, GoOn
  <2>2. /\ at = 0
        /\ NoExactFit => current_sector = partition_start_sector + (2 + F + at)
    BY <2>1 DEF LoopInv, PositionInv, F
  <2>3. NoExactFit => current_sector' = partition_start_sector + (2 + F + 1)
    BY <1>4, <1>6, <2>1, <2>2
  <2>4. current_sector' \in Nat
    BY <1>6, <2>1
  <2> QED  BY <1>2, <1>5, <2>1, <2>3, <2>4 DEF PositionInv, PlanSteps
<1>10. CASE WriteDirectoryEntry
  <2>1. /\ step = "directory_entries" /\ step' = "directory_entries" /\ at' = at + 1
        /\ current_sector' = current_sector + 1
    BY <1>10 DEF WriteDirectoryEntry, WriteEntry, Write
  <2>2. NoExactFit => current_sector = partition_start_sector + (2 + F + at)
    BY <2>1 DEF PositionInv, F
  <2>3. NoExactFit => current_sector' = partition_start_sector + (2 + F + at')
    BY <1>4, <1>6, <2>1, <2>2
  <2>4. current_sector' \in Nat
    BY <1>6, <2>1
  <2> QED  BY <1>2, <1>5, <2>1, <2>3, <2>4 DEF PositionInv, PlanSteps
<1>11. CASE DirectoryEntriesDone
  <2>1. /\ step = "directory_entries" /\ step' = "file_entries" /\ at' = 0
        /\ at = N + 1 /\ current_sector' = current_sector
    BY <1>3, <1>11 DEF DirectoryEntriesDone, GoOn, writerVars, image
  <2>2. NoExactFit => current_sector = partition_start_sector + (2 + F + at)
    BY <2>1 DEF PositionInv, F
  <2>3. NoExactFit => current_sector' = partition_start_sector + (2 + F + (N + 1) + at')
    BY <1>3, <1>4, <1>6, <2>1, <2>2
  <2> QED  BY <1>2, <1>5, <1>6, <2>1, <2>3 DEF PositionInv, PlanSteps
<1>12. CASE WriteFileEntry
  <2>1. /\ step = "file_entries" /\ step' = "file_entries" /\ at' = at + 1
        /\ current_sector' = current_sector + 1
    BY <1>12 DEF WriteFileEntry, WriteEntry, Write
  <2>2. NoExactFit => current_sector = partition_start_sector + (2 + F + (N + 1) + at)
    BY <2>1 DEF PositionInv, F, N
  <2>3. NoExactFit => current_sector' = partition_start_sector + (2 + F + (N + 1) + at')
    BY <1>3, <1>4, <1>6, <2>1, <2>2
  <2>4. current_sector' \in Nat
    BY <1>6, <2>1
  <2> QED  BY <1>2, <1>5, <2>1, <2>3, <2>4 DEF PositionInv, PlanSteps
<1>13. CASE FileEntriesDone
  <2>1. /\ step = "file_entries" /\ step' = "data" /\ at' = 0
        /\ at = M /\ current_sector' = current_sector
    BY <1>3, <1>13 DEF FileEntriesDone, GoOn, writerVars, image
  <2>2. NoExactFit => current_sector = partition_start_sector + (2 + F + (N + 1) + at)
    BY <2>1 DEF PositionInv, F, N
  <2>3. DataTo(tree, at)' = 0
    BY <1>2, <1>4, <2>1
  <2>4. NoExactFit => current_sector' = data_sector + 0
    BY <1>3, <1>4, <1>6, <2>1, <2>2
  <2> QED  BY <1>2, <1>6, <2>1, <2>3, <2>4 DEF PositionInv, PlanSteps
<1>14. CASE WritePads
  <2>1. /\ step = "data" /\ step' = "end" /\ at = M
        /\ current_sector' = current_sector + pad_sectors
    BY <1>3, <1>14 DEF WritePads, Write, GoOn
  <2>2. NoExactFit => current_sector = data_sector + DataTo(tree, M)
    BY <2>1 DEF PositionInv
  <2>3. DataTo(tree, FileAmount(tree))' = DataTo(tree, M)
    BY <1>2 DEF M
  <2>4. current_sector' \in Nat
    BY <1>4, <1>6, <2>1
  <2> QED  BY <1>2, <2>1, <2>2, <2>3, <2>4 DEF PositionInv, PlanSteps
<1>15. CASE WriteEndOfSession
  <2>1. /\ step = "end" /\ step' = "done"
        /\ current_sector' = current_sector + 1
    BY <1>15 DEF WriteEndOfSession, Write, GoOn
  <2>2. NoExactFit => current_sector = data_sector + DataTo(tree, M) + pad_sectors
    BY <2>1 DEF PositionInv, M
  <2>3. DataTo(tree, FileAmount(tree))' = DataTo(tree, M)
    BY <1>2 DEF M
  <2>4. current_sector' \in Nat
    BY <1>6, <2>1
  <2> QED  BY <1>2, <2>1, <2>2, <2>3, <2>4 DEF PositionInv, PlanSteps
<1> QED  BY <1>8, <1>9, <1>10, <1>11, <1>12, <1>13, <1>14, <1>15

(* Every step keeps it.                                                    *)
LEMMA PositionInvStep ==
  ASSUME PlanInv, PlacesInv, LoopInv, IdentifiersInv, PositionInv, [Next]_vars
  PROVE  PositionInv'
<1>1. CASE Plan /\ UNCHANGED writerVars
  <2>1. /\ step \in PlanSteps /\ step' \in PlanSteps \cup {"header"}
        /\ current_sector' = current_sector
    BY <1>1 DEF writerVars, image, Plan, SizeVolume, SortNodes, PlaceDirectory,
      SkipFile, StartFiles, PlaceFile, SkipDirectory, Planned, PlanSteps
  <2> QED  BY <2>1 DEF PositionInv, PlanSteps
<1>2. CASE WriteSectors
  BY <1>2, PositionAfterFixed, PositionAfterRecords, PositionAfterIdentifiers,
     PositionAfterEntries, PositionAfterData DEF WriteSectors
<1>3. CASE UNCHANGED vars
  <2>1. /\ tree' = tree /\ step' = step /\ at' = at
        /\ current_sector' = current_sector
        /\ partition_start_sector' = partition_start_sector
        /\ data_sector' = data_sector /\ pad_sectors' = pad_sectors
    BY <1>3 DEF vars, plannerVars, sizes, writerVars, image
  <2>2. NamesFit' = NamesFit /\ NoExactFit' = NoExactFit
    BY <2>1 DEF NamesFit, NoExactFit
  <2> QED  BY <2>1, <2>2 DEF PositionInv
<1> QED  BY <1>1, <1>2, <1>3 DEF Next
-----------------------------------------------------------------------------
(* The fixed regions, each behind the one before it.                       *)
LEMMA RegionsFollow ==
  ASSUME PlanInv, LoopInv, WriteSectors
  PROVE  /\ step' \in FromDescriptors => step \in FromDescriptors \/ WriteSystemArea
         /\ step' = "volume_descriptors" /\ at' = 1 =>
              WriteVolumeDescriptors /\ at = 0
         /\ step' \in FromIntegrity =>
              step \in FromIntegrity \/ (WriteVolumeDescriptors /\ at = 1)
         /\ step' \in FromAnchor => step \in FromAnchor \/ WriteIntegrity
         /\ step' \in FromPathTables => step \in FromPathTables \/ WriteAnchor
         /\ step' \in FromDirectory => step \in FromDirectory \/ WritePathTables
         /\ step' \in FromIdentifiers => step \in FromIdentifiers \/ WriteFileSet
<1>1. CASE WriteSystemArea
  BY <1>1 DEF LoopInv, WriteSystemArea, GoOn,
       FromEnd, FromData, FromFileEntries, FromDirectoryEntries,
       FromRootEntry, FromIdentifiers, FromFileSet, FromDirectory,
       FromPathTables, FromAnchor, FromIntegrity, FromDescriptors
<1>2. CASE WriteVolumeDescriptors
  BY <1>2 DEF LoopInv, WriteVolumeDescriptors,
       FromEnd, FromData, FromFileEntries, FromDirectoryEntries,
       FromRootEntry, FromIdentifiers, FromFileSet, FromDirectory,
       FromPathTables, FromAnchor, FromIntegrity, FromDescriptors
<1>3. CASE WriteIntegrity
  BY <1>3 DEF LoopInv, WriteIntegrity, GoOn,
       FromEnd, FromData, FromFileEntries, FromDirectoryEntries,
       FromRootEntry, FromIdentifiers, FromFileSet, FromDirectory,
       FromPathTables, FromAnchor, FromIntegrity, FromDescriptors
<1>4. CASE WriteAnchor
  BY <1>4 DEF LoopInv, WriteAnchor, GoOn,
       FromEnd, FromData, FromFileEntries, FromDirectoryEntries,
       FromRootEntry, FromIdentifiers, FromFileSet, FromDirectory,
       FromPathTables, FromAnchor, FromIntegrity, FromDescriptors
<1>5. CASE WritePathTables
  BY <1>5 DEF LoopInv, WritePathTables, GoOn,
       FromEnd, FromData, FromFileEntries, FromDirectoryEntries,
       FromRootEntry, FromIdentifiers, FromFileSet, FromDirectory,
       FromPathTables, FromAnchor, FromIntegrity, FromDescriptors
<1>6. CASE ThrowPathTable
  BY <1>6 DEF LoopInv, ThrowPathTable, GoOn,
       FromEnd, FromData, FromFileEntries, FromDirectoryEntries,
       FromRootEntry, FromIdentifiers, FromFileSet, FromDirectory,
       FromPathTables, FromAnchor, FromIntegrity, FromDescriptors
<1>7. CASE WriteDirectory
  BY <1>7 DEF LoopInv, WriteDirectory,
       FromEnd, FromData, FromFileEntries, FromDirectoryEntries,
       FromRootEntry, FromIdentifiers, FromFileSet, FromDirectory,
       FromPathTables, FromAnchor, FromIntegrity, FromDescriptors
<1>8. CASE OverrunRecord
  BY <1>8 DEF LoopInv, OverrunRecord, GoOn,
       FromEnd, FromData, FromFileEntries, FromDirectoryEntries,
       FromRootEntry, FromIdentifiers, FromFileSet, FromDirectory,
       FromPathTables, FromAnchor, FromIntegrity, FromDescriptors
<1>9. CASE WriteFileSet
  BY <1>9 DEF LoopInv, WriteFileSet, GoOn,
       FromEnd, FromData, FromFileEntries, FromDirectoryEntries,
       FromRootEntry, FromIdentifiers, FromFileSet, FromDirectory,
       FromPathTables, FromAnchor, FromIntegrity, FromDescriptors
<1>10. CASE StartIdentifiers
  BY <1>10 DEF LoopInv, StartIdentifiers, GoOn,
       FromEnd, FromData, FromFileEntries, FromDirectoryEntries,
       FromRootEntry, FromIdentifiers, FromFileSet, FromDirectory,
       FromPathTables, FromAnchor, FromIntegrity, FromDescriptors
<1>11. CASE AddIdentifier
  BY <1>11 DEF LoopInv, AddIdentifier,
       FromEnd, FromData, FromFileEntries, FromDirectoryEntries,
       FromRootEntry, FromIdentifiers, FromFileSet, FromDirectory,
       FromPathTables, FromAnchor, FromIntegrity, FromDescriptors
<1>12. CASE FlushIdentifiers
  BY <1>12 DEF LoopInv, FlushIdentifiers,
       FromEnd, FromData, FromFileEntries, FromDirectoryEntries,
       FromRootEntry, FromIdentifiers, FromFileSet, FromDirectory,
       FromPathTables, FromAnchor, FromIntegrity, FromDescriptors
<1>13. CASE WriteRootEntry
  BY <1>13 DEF LoopInv, WriteRootEntry, GoOn,
       FromEnd, FromData, FromFileEntries, FromDirectoryEntries,
       FromRootEntry, FromIdentifiers, FromFileSet, FromDirectory,
       FromPathTables, FromAnchor, FromIntegrity, FromDescriptors
<1>14. CASE WriteDirectoryEntry
  BY <1>14 DEF LoopInv, WriteDirectoryEntry,
       FromEnd, FromData, FromFileEntries, FromDirectoryEntries,
       FromRootEntry, FromIdentifiers, FromFileSet, FromDirectory,
       FromPathTables, FromAnchor, FromIntegrity, FromDescriptors
<1>15. CASE DirectoryEntriesDone
  BY <1>15 DEF LoopInv, DirectoryEntriesDone, GoOn,
       FromEnd, FromData, FromFileEntries, FromDirectoryEntries,
       FromRootEntry, FromIdentifiers, FromFileSet, FromDirectory,
       FromPathTables, FromAnchor, FromIntegrity, FromDescriptors
<1>16. CASE WriteFileEntry
  BY <1>16 DEF LoopInv, WriteFileEntry,
       FromEnd, FromData, FromFileEntries, FromDirectoryEntries,
       FromRootEntry, FromIdentifiers, FromFileSet, FromDirectory,
       FromPathTables, FromAnchor, FromIntegrity, FromDescriptors
<1>17. CASE FileEntriesDone
  BY <1>17 DEF LoopInv, FileEntriesDone, GoOn,
       FromEnd, FromData, FromFileEntries, FromDirectoryEntries,
       FromRootEntry, FromIdentifiers, FromFileSet, FromDirectory,
       FromPathTables, FromAnchor, FromIntegrity, FromDescriptors
<1>18. CASE WriteFileData
  BY <1>18 DEF LoopInv, WriteFileData,
       FromEnd, FromData, FromFileEntries, FromDirectoryEntries,
       FromRootEntry, FromIdentifiers, FromFileSet, FromDirectory,
       FromPathTables, FromAnchor, FromIntegrity, FromDescriptors
<1>19. CASE WritePads
  BY <1>19 DEF LoopInv, WritePads, GoOn,
       FromEnd, FromData, FromFileEntries, FromDirectoryEntries,
       FromRootEntry, FromIdentifiers, FromFileSet, FromDirectory,
       FromPathTables, FromAnchor, FromIntegrity, FromDescriptors
<1>20. CASE WriteEndOfSession
  BY <1>20 DEF LoopInv, WriteEndOfSession, GoOn,
       FromEnd, FromData, FromFileEntries, FromDirectoryEntries,
       FromRootEntry, FromIdentifiers, FromFileSet, FromDirectory,
       FromPathTables, FromAnchor, FromIntegrity, FromDescriptors
<1> QED
  BY <1>1, <1>2, <1>3, <1>4, <1>5, <1>6, <1>7, <1>8, <1>9, <1>10,
     <1>11, <1>12, <1>13, <1>14, <1>15, <1>16, <1>17, <1>18, <1>19, <1>20
     DEF WriteSectors

(* What is written stays.                                                  *)
LEMMA ExtentsGrow == WriteSectors => extents \subseteq extents'
<1> SUFFICES ASSUME WriteSectors PROVE extents \subseteq extents'
  OBVIOUS
<1>1. CASE \/ WriteSystemArea \/ WriteVolumeDescriptors \/ WriteIntegrity
           \/ WriteAnchor \/ WritePathTables \/ WriteFileSet
  BY <1>1 DEF WriteSystemArea, WriteVolumeDescriptors, WriteIntegrity,
    WriteAnchor, WritePathTables, WriteFileSet, WriteAll, Write
<1>2. CASE \/ ThrowPathTable \/ OverrunRecord \/ StartIdentifiers
           \/ AddIdentifier \/ DirectoryEntriesDone \/ FileEntriesDone
  BY <1>2 DEF ThrowPathTable, OverrunRecord, StartIdentifiers, AddIdentifier,
    DirectoryEntriesDone, FileEntriesDone, image, writerVars
<1>3. CASE \/ WriteDirectory \/ FlushIdentifiers \/ WriteRootEntry
           \/ WriteDirectoryEntry \/ WriteFileEntry \/ WriteFileData
           \/ WritePads \/ WriteEndOfSession
  BY <1>3 DEF WriteDirectory, FlushIdentifiers, WriteRootEntry,
    WriteDirectoryEntry, WriteFileEntry, WriteFileData, WritePads,
    WriteEndOfSession, WriteEntry, Write
<1> QED  BY <1>1, <1>2, <1>3 DEF WriteSectors

(* At the start nothing is claimed of the fixed regions,                   *)
LEMMA HeaderInvInit == Init => HeaderInv
BY DEF Init, PlannerInit, HeaderInv, FromEnd, FromData, FromFileEntries,
       FromDirectoryEntries, FromRootEntry, FromIdentifiers, FromFileSet,
       FromDirectory, FromPathTables, FromAnchor, FromIntegrity,
       FromDescriptors

(* The fixed regions are where the standards want them, the partition where*)
(* the planner put it.                                                     *)
LEMMA HeaderInvStep ==
  ASSUME PlanInv, PlacesInv, LoopInv, PositionInv, HeaderInv, [Next]_vars
  PROVE  HeaderInv'
<1>1. CASE Plan /\ UNCHANGED writerVars
  <2>1. step' \in PlanSteps \cup {"header"}
    BY <1>1 DEF Plan, SizeVolume, SortNodes, PlaceDirectory,
      SkipFile, StartFiles, PlaceFile, SkipDirectory, Planned, PlanSteps
  <2> QED
    BY <2>1 DEF HeaderInv, PlanSteps, FromEnd, FromData, FromFileEntries,
       FromDirectoryEntries, FromRootEntry, FromIdentifiers, FromFileSet,
       FromDirectory, FromPathTables, FromAnchor, FromIntegrity,
       FromDescriptors
<1>2. CASE WriteSectors
  <2>1. current_sector \in Nat
    BY DEF PositionInv
  <2>2. ASSUME NEW what, NEW node, NEW start, Has(what, node, start)
        PROVE  Has(what, node, start)'
    BY <1>2, <2>2, ExtentsGrow DEF Has
  <2>3. ASSUME NEW what, NEW node, NEW start, Wrote(what, node, start)
        PROVE  Has(what, node, start)'
    BY <2>3 DEF Has, Wrote
  <2>4. step' \in FromDescriptors => Has("iso_pvd", Root, 16)'
    <3>1. CASE step \in FromDescriptors
      BY <2>2, <3>1 DEF HeaderInv
    <3>2. CASE WriteSystemArea
      <4>1. current_sector + 16 = 16
        BY <3>2 DEF PositionInv, WriteSystemArea, GoOn, PlanSteps
      <4>2. Wrote("iso_pvd", Root, 16)
        BY <2>1, <3>2, <4>1, SystemAreaLaid
      <4> QED  BY <2>3, <4>2
    <3> QED  BY <1>2, <3>1, <3>2, RegionsFollow
  <2>5. (step' = "volume_descriptors" /\ at' = 1) \/ step' \in FromIntegrity =>
          Has("main_vds", Root, 32)'
    <3>1. CASE step \in FromIntegrity
      BY <2>2, <3>1 DEF HeaderInv
    <3>2. CASE WriteVolumeDescriptors /\ at = 1
      BY <2>2, <3>2 DEF HeaderInv, WriteVolumeDescriptors
    <3>3. CASE WriteVolumeDescriptors /\ at = 0
      <4>1. current_sector + 0 = 32
        BY <3>3 DEF PositionInv, WriteVolumeDescriptors
      <4>2. Wrote("main_vds", Root, 32)
        BY <2>1, <3>3, <4>1, DescriptorsLaid
      <4> QED  BY <2>3, <4>2
    <3> QED  BY <1>2, <3>1, <3>2, <3>3, RegionsFollow
  <2>6. step' \in FromIntegrity => Has("reserve_vds", Root, 48)'
    <3>1. CASE step \in FromIntegrity
      BY <2>2, <3>1 DEF HeaderInv
    <3>2. CASE WriteVolumeDescriptors /\ at = 1
      <4>1. current_sector + 0 = 48
        BY <3>2 DEF PositionInv, WriteVolumeDescriptors
      <4>2. Wrote("reserve_vds", Root, 48)
        BY <2>1, <3>2, <4>1, DescriptorsLaid
      <4> QED  BY <2>3, <4>2
    <3> QED  BY <1>2, <3>1, <3>2, RegionsFollow
  <2>7. step' \in FromAnchor => Has("lvid", Root, 64)'
    <3>1. CASE step \in FromAnchor
      BY <2>2, <3>1 DEF HeaderInv
    <3>2. CASE WriteIntegrity
      <4>1. current_sector + 0 = 64
        BY <3>2 DEF PositionInv, WriteIntegrity, GoOn
      <4>2. Wrote("lvid", Root, 64)
        BY <2>1, <3>2, <4>1, IntegrityLaid
      <4> QED  BY <2>3, <4>2
    <3> QED  BY <1>2, <3>1, <3>2, RegionsFollow
  <2>8. step' \in FromPathTables => Has("anchor", Root, 256)'
    <3>1. CASE step \in FromPathTables
      BY <2>2, <3>1 DEF HeaderInv
    <3>2. CASE WriteAnchor
      <4>1. current_sector = 256
        BY <3>2 DEF PositionInv, WriteAnchor, GoOn
      <4>2. [what |-> "anchor", node |-> Root, len |-> 1, tag |-> NoTag,
             start |-> current_sector] \in extents'
        BY <3>2 DEF WriteAnchor, Write
      <4>3. Wrote("anchor", Root, 256)
        BY <4>1, <4>2 DEF Wrote
      <4> QED  BY <2>3, <4>3
    <3> QED  BY <1>2, <3>1, <3>2, RegionsFollow
  <2>9. step' \in FromDirectory => /\ Has("path_table_L", Root, 257)'
                                   /\ Has("path_table_opt_L", Root, 258)'
                                   /\ Has("path_table_M", Root, 259)'
                                   /\ Has("path_table_opt_M", Root, 260)'
    <3>1. CASE step \in FromDirectory
      BY <2>2, <3>1 DEF HeaderInv
    <3>2. CASE WritePathTables
      <4>1. current_sector = 257
        BY <3>2 DEF PositionInv, WritePathTables, GoOn
      <4>2. /\ current_sector + 0 = 257 /\ current_sector + 1 = 258
            /\ current_sector + 2 = 259 /\ current_sector + 3 = 260
        BY <4>1
      <4>3. /\ Wrote("path_table_L", Root, 257)
            /\ Wrote("path_table_opt_L", Root, 258)
            /\ Wrote("path_table_M", Root, 259)
            /\ Wrote("path_table_opt_M", Root, 260)
        BY <2>1, <3>2, <4>2, TablesLaid
      <4> QED  BY <2>3, <4>3
    <3> QED  BY <1>2, <3>1, <3>2, RegionsFollow
  <2>10. step' \in FromIdentifiers /\ NamesFit' =>
           Has("fsd", Root, partition_start_sector)'
    <3>1. NamesFit' = NamesFit /\ partition_start_sector' = partition_start_sector
      BY <1>2, PlanKept
    <3>2. CASE step \in FromIdentifiers
      <4>1. NamesFit => Has("fsd", Root, partition_start_sector)
        BY <3>2 DEF HeaderInv
      <4>2. NamesFit => Wrote("fsd", Root, partition_start_sector)
        BY <1>2, <4>1, ExtentsGrow DEF Has, Wrote
      <4> QED  BY <3>1, <4>2 DEF Has, Wrote
    <3>3. CASE WriteFileSet
      <4>1. NamesFit => current_sector + 0 = partition_start_sector
        BY <2>1, <3>3 DEF PositionInv, WriteFileSet, GoOn
      <4>2. Wrote("fsd", Root, current_sector + 0)
        BY <2>1, <3>3, FileSetLaid
      <4>3. NamesFit => Wrote("fsd", Root, partition_start_sector)
        BY <4>1, <4>2
      <4> QED  BY <3>1, <4>3 DEF Has, Wrote
    <3> QED  BY <1>2, <3>2, <3>3, RegionsFollow
  <2> QED  BY <2>4, <2>5, <2>6, <2>7, <2>8, <2>9, <2>10 DEF HeaderInv
<1>3. CASE UNCHANGED vars
  <2>1. /\ tree' = tree /\ step' = step /\ at' = at /\ extents' = extents
        /\ partition_start_sector' = partition_start_sector
    BY <1>3 DEF vars, plannerVars, sizes, writerVars, image
  <2>2. NamesFit' = NamesFit
    BY <2>1 DEF NamesFit
  <2> QED  BY <2>1, <2>2 DEF HeaderInv, Has
<1> QED  BY <1>1, <1>2, <1>3 DEF Next
-----------------------------------------------------------------------------
(* Before the writer has begun, nothing is claimed of what it writes.      *)
LEMMA NothingYet ==
  ASSUME step \in PlanSteps \cup {"header"}
  PROVE  /\ RecordsWritten = 0 /\ IdsWritten = 0 /\ DirectoryEntriesWritten = 0
         /\ FileEntriesWritten = 0 /\ FilesWritten = 0
BY DEF PlanSteps, RecordsWritten, IdsWritten, DirectoryEntriesWritten,
       FileEntriesWritten, FilesWritten, FromEnd, FromData, FromFileEntries,
       FromDirectoryEntries, FromRootEntry, FromIdentifiers, FromFileSet

(* nor of the directories' records,                                        *)
LEMMA RecordsInvInit == Init => RecordsInv
<1> SUFFICES ASSUME Init PROVE RecordsInv
  OBVIOUS
<1>1. RecordsWritten = 0
  BY NothingYet DEF Init, PlannerInit, PlanSteps
<1> QED  BY <1>1 DEF RecordsInv

(* nor of the partition.                                                   *)
LEMMA PartitionInvInit == Init => PartitionInv
<1> SUFFICES ASSUME Init PROVE PartitionInv
  OBVIOUS
<1>1. /\ IdsWritten = 0 /\ DirectoryEntriesWritten = 0
      /\ FileEntriesWritten = 0 /\ FilesWritten = 0
  BY NothingYet DEF Init, PlannerInit, PlanSteps
<1> QED  BY <1>1 DEF PartitionInv

(* What a step adds is where the writer was.                               *)
LEMMA WrittenHere ==
  ASSUME NEW what, NEW node, NEW len, NEW tag, Write(what, node, len, tag)
  PROVE  Wrote(what, node, current_sector)
<1>1. [what |-> what, node |-> node, len |-> len, tag |-> tag,
       start |-> current_sector] \in extents'
  BY DEF Write
<1> QED  BY <1>1 DEF Wrote

(* Every directory's records are where the planner's sizes add up to.      *)
LEMMA RecordsInvStep ==
  ASSUME PlanInv, PlacesInv, LoopInv, PositionInv, RecordsInv, LoopInv',
         [Next]_vars
  PROVE  RecordsInv'
<1> USE DEF DirRecordsStart
<1>1. CASE Plan /\ UNCHANGED writerVars
  <2>1. step' \in PlanSteps \cup {"header"}
    BY <1>1 DEF Plan, SizeVolume, SortNodes, PlaceDirectory,
      SkipFile, StartFiles, PlaceFile, SkipDirectory, Planned, PlanSteps
  <2>2. RecordsWritten' = 0
    BY <2>1 DEF PlanSteps, RecordsWritten, FromEnd, FromData, FromFileEntries,
      FromDirectoryEntries, FromRootEntry, FromIdentifiers, FromFileSet
  <2> QED  BY <2>2 DEF RecordsInv
<1>2. CASE WriteSectors
  <2> SUFFICES ASSUME NEW k \in 1 .. RecordsWritten', k = 1 \/ NamesFit'
               PROVE  Has("records", DirOrder(tree)[k],
                          DirRecordsStart + RecordsTo(tree, k - 1))'
    BY DEF RecordsInv
  <2> DEFINE d == DirOrder(tree)[k]
             s == DirRecordsStart + RecordsTo(tree, k - 1)
  <2>1. /\ RecordsWritten \in Nat /\ RecordsWritten' \in Nat
        /\ \/ RecordsWritten' <= RecordsWritten
           \/ WriteDirectory /\ RecordsWritten = at /\ RecordsWritten' = at + 1
    BY <1>2, WrittenAdvances DEF Advances
  <2>2. NamesFit' = NamesFit /\ tree' = tree
    BY <1>2, PlanKept
  <2>3. CASE k \in 1 .. RecordsWritten
    <3>1. Has("records", d, s)
      BY <2>2, <2>3 DEF RecordsInv
    <3>2. Wrote("records", d, s)
      BY <1>2, <3>1, ExtentsGrow DEF Has, Wrote
    <3> QED  BY <2>2, <3>2 DEF Has, Wrote
  <2>4. CASE k \notin 1 .. RecordsWritten
    <3>1. WriteDirectory /\ RecordsWritten = at /\ RecordsWritten' = at + 1
      BY <2>1, <2>4
    <3>2. k = at + 1 /\ k - 1 = at /\ at \in Nat
      BY <2>1, <2>4, <3>1
    <3>3. step = "directory" /\ step \notin PlanSteps
      BY <3>1 DEF WriteDirectory, PlanSteps
    <3>4. AllDirectories[at + 1] = d
      BY <3>2, <3>3, WriterFacts
    <3>5. Wrote("records", d, current_sector)
      <4>1. Write("records", d, SectorsOf(WrittenRecordBytes(d)), NoTag)
        BY <3>1, <3>4 DEF WriteDirectory
      <4> HIDE DEF d
      <4> QED  BY <4>1, WrittenHere
    <3>6. at = 0 \/ NamesFit
      BY <2>2, <3>2
    <3>7. current_sector = DirRecordsStart + RecordsTo(tree, at)
      BY <3>3, <3>6 DEF PositionInv
    <3>8. Wrote("records", d, s)
      BY <3>2, <3>5, <3>7
    <3> QED  BY <2>2, <3>8 DEF Has, Wrote
  <2> QED  BY <2>3, <2>4
<1>3. CASE UNCHANGED vars
  <2>1. /\ tree' = tree /\ step' = step /\ at' = at /\ extents' = extents
    BY <1>3 DEF vars, plannerVars, writerVars, image
  <2>2. NamesFit' = NamesFit
    BY <2>1 DEF NamesFit
  <2>3. RecordsWritten' = RecordsWritten
    BY <2>1 DEF RecordsWritten
  <2> QED  BY <2>1, <2>2, <2>3 DEF RecordsInv, Has
<1> QED  BY <1>1, <1>2, <1>3 DEF Next
(* In the partition what was written stays where it is,                    *)
LEMMA PartitionStays ==
  ASSUME WriteSectors, NEW k
  PROVE  /\ IdsHere(k) => IdsHere(k)'
         /\ DirectoryEntryHere(k) => DirectoryEntryHere(k)'
         /\ FileEntryHere(k) => FileEntryHere(k)'
         /\ DataHere(k) => DataHere(k)'
<1>1. /\ tree' = tree /\ partition_start_sector' = partition_start_sector
      /\ data_sector' = data_sector
  BY PlanKept
<1>2. extents \subseteq extents'
  BY ExtentsGrow
<1>3. IdsHere(k) => IdsHere(k)'
  BY <1>1, <1>2 DEF IdsHere, Has
<1>4. DirectoryEntryHere(k) => DirectoryEntryHere(k)'
  BY <1>1, <1>2 DEF DirectoryEntryHere, Has
<1>5. FileEntryHere(k) => FileEntryHere(k)'
  BY <1>1, <1>2 DEF FileEntryHere, Has
<1>6. DataHere(k) => DataHere(k)'
  BY <1>1, <1>2 DEF DataHere, Has
<1> QED  BY <1>3, <1>4, <1>5, <1>6

(* and what is written is where the plan says: identifiers,                *)
LEMMA NextIds ==
  ASSUME PlanInv, PlacesInv, LoopInv, PositionInv, FlushIdentifiers,
         NoExactFit, NEW k, k = at + 1
  PROVE  IdsHere(k)'
<1>1. step = "entries" /\ step \notin PlanSteps /\ WriteSectors
  BY DEF FlushIdentifiers, PlanSteps, WriteSectors
<1>2. at \in Nat /\ k - 1 = at
  BY DEF LoopInv
<1> DEFINE d == DirOrder(tree)[k]
<1>3. AllDirectories[at + 1] = d
  BY <1>1, WriterFacts
<1>4. Write("fids", d, needed_sectors, fi_root.tag)
  BY <1>3 DEF FlushIdentifiers
<1>5. Wrote("fids", d, current_sector)
  <2> HIDE DEF d
  <2> QED  BY <1>4, WrittenHere
<1>6. current_sector = partition_start_sector + (2 + IdsTo(tree, k - 1))
  BY <1>1, <1>2 DEF PositionInv
<1>7. tree' = tree /\ partition_start_sector' = partition_start_sector
  BY <1>1, PlanKept
<1> QED  BY <1>5, <1>6, <1>7 DEF IdsHere, Has, Wrote

(* the directories' entries,                                               *)
LEMMA NextDirectoryEntry ==
  ASSUME PlanInv, PlacesInv, LoopInv, PositionInv,
         WriteRootEntry \/ WriteDirectoryEntry, NoExactFit, NEW k, k = at + 1
  PROVE  DirectoryEntryHere(k)'
<1>1. /\ step \in {"root_entry", "directory_entries"} /\ step \notin PlanSteps
      /\ WriteSectors
  BY DEF WriteRootEntry, WriteDirectoryEntry, GoOn, PlanSteps, WriteSectors
<1>2. at \in Nat /\ k - 1 = at
  BY DEF LoopInv
<1> DEFINE d == DirOrder(tree)[k]
<1>3. Write("fe", d, 1, cur_spec_lba)
  <2>1. CASE WriteDirectoryEntry
    <3>1. AllDirectories[at + 1] = d
      BY <1>1, WriterFacts
    <3> QED  BY <2>1, <3>1 DEF WriteDirectoryEntry, WriteEntry
  <2>2. CASE WriteRootEntry
    <3>1. at = 0
      BY <2>2 DEF LoopInv, WriteRootEntry, GoOn
    <3>2. k = 1
      BY <3>1
    <3>3. d = Root
      BY <3>2, <1>1, WriterFacts, DirectoriesInOrder
    <3> QED  BY <2>2, <3>3 DEF WriteRootEntry, WriteEntry
  <2> QED  BY <2>1, <2>2
<1>4. Wrote("fe", d, current_sector)
  <2> HIDE DEF d
  <2> QED  BY <1>3, WrittenHere
<1>5. current_sector = partition_start_sector
                         + (2 + FileIdentifiersAmount(tree) + (k - 1))
  BY <1>1, <1>2 DEF PositionInv
<1>6. tree' = tree /\ partition_start_sector' = partition_start_sector
  BY <1>1, PlanKept
<1> QED  BY <1>4, <1>5, <1>6 DEF DirectoryEntryHere, Has, Wrote

(* the files' entries                                                      *)
LEMMA NextFileEntry ==
  ASSUME PlanInv, PlacesInv, LoopInv, PositionInv, WriteFileEntry,
         NoExactFit, NEW k, k = at + 1
  PROVE  FileEntryHere(k)'
<1>1. step = "file_entries" /\ step \notin PlanSteps /\ WriteSectors
  BY DEF WriteFileEntry, PlanSteps, WriteSectors
<1>2. at \in Nat /\ k - 1 = at
  BY DEF LoopInv
<1> DEFINE d == FileOrder(tree)[k]
<1>3. AllFiles[at + 1] = d
  BY <1>1, WriterFacts
<1>4. Write("fe", d, 1, cur_spec_lba)
  BY <1>3 DEF WriteFileEntry, WriteEntry
<1>5. Wrote("fe", d, current_sector)
  <2> HIDE DEF d
  <2> QED  BY <1>4, WrittenHere
<1>6. current_sector = partition_start_sector
        + (2 + FileIdentifiersAmount(tree) + (DirAmount(tree) + 1) + (k - 1))
  BY <1>1, <1>2 DEF PositionInv
<1>7. tree' = tree /\ partition_start_sector' = partition_start_sector
  BY <1>1, PlanKept
<1> QED  BY <1>5, <1>6, <1>7 DEF FileEntryHere, Has, Wrote

(* and their data.                                                         *)
LEMMA NextData ==
  ASSUME PlanInv, PlacesInv, LoopInv, PositionInv, WriteFileData,
         NoExactFit, NEW k, k = at + 1
  PROVE  DataHere(k)'
<1>1. step = "data" /\ step \notin PlanSteps /\ WriteSectors
  BY DEF WriteFileData, PlanSteps, WriteSectors
<1>2. at \in Nat /\ k - 1 = at
  BY DEF LoopInv
<1> DEFINE d == FileOrder(tree)[k]
<1>3. AllFiles[at + 1] = d
  BY <1>1, WriterFacts
<1>4. Write("data", d, tree[d].sectors, NoTag)
  BY <1>3 DEF WriteFileData
<1>5. Wrote("data", d, current_sector)
  <2> HIDE DEF d
  <2> QED  BY <1>4, WrittenHere
<1>6. current_sector = data_sector + DataTo(tree, k - 1)
  BY <1>1, <1>2 DEF PositionInv
<1>7. tree' = tree /\ data_sector' = data_sector
  BY <1>1, PlanKept
<1> QED  BY <1>5, <1>6, <1>7 DEF DataHere, Has, Wrote

(* Identifiers, file entries and data are where the planner's sizes add up *)
(* to, as long as no directory's identifiers fill their sectors exactly.   *)
LEMMA PartitionInvStep ==
  ASSUME PlanInv, PlacesInv, LoopInv, PositionInv, PartitionInv, LoopInv',
         [Next]_vars
  PROVE  PartitionInv'
<1>1. CASE Plan /\ UNCHANGED writerVars
  <2>1. step' \in PlanSteps \cup {"header"}
    BY <1>1 DEF Plan, SizeVolume, SortNodes, PlaceDirectory,
      SkipFile, StartFiles, PlaceFile, SkipDirectory, Planned, PlanSteps
  <2>2. /\ IdsWritten' = 0 /\ DirectoryEntriesWritten' = 0
        /\ FileEntriesWritten' = 0 /\ FilesWritten' = 0
    BY <2>1 DEF PlanSteps, IdsWritten, DirectoryEntriesWritten,
      FileEntriesWritten, FilesWritten, FromEnd, FromData, FromFileEntries,
      FromDirectoryEntries, FromRootEntry, FromIdentifiers, FromFileSet
  <2> QED  BY <2>2 DEF PartitionInv
<1>2. CASE WriteSectors
  <2>1. NoExactFit' = NoExactFit
    BY <1>2, PlanKept
  <2> SUFFICES ASSUME NoExactFit
               PROVE  /\ \A k \in 1 .. IdsWritten' : IdsHere(k)'
                      /\ \A k \in 1 .. DirectoryEntriesWritten' :
                           DirectoryEntryHere(k)'
                      /\ \A k \in 1 .. FileEntriesWritten' : FileEntryHere(k)'
                      /\ \A k \in 1 .. FilesWritten' : DataHere(k)'
    BY <2>1 DEF PartitionInv
  <2>2. at \in Nat
    BY DEF LoopInv
  <2>3. ASSUME NEW k \in 1 .. IdsWritten'
        PROVE  IdsHere(k)'
    <3>1. /\ IdsWritten \in Nat /\ IdsWritten' \in Nat
          /\ \/ IdsWritten' <= IdsWritten
             \/ /\ FlushIdentifiers
                /\ IdsWritten = at /\ IdsWritten' = at + 1
      BY <1>2, WrittenAdvances DEF Advances
    <3>2. CASE k \in 1 .. IdsWritten
      BY <1>2, <3>2, PartitionStays DEF PartitionInv
    <3>3. CASE k \notin 1 .. IdsWritten
      <4>1. (FlushIdentifiers) /\ k = at + 1
        BY <2>2, <3>1, <3>3
      <4> QED  BY <4>1, NextIds
    <3> QED  BY <3>2, <3>3
  <2>4. ASSUME NEW k \in 1 .. DirectoryEntriesWritten'
        PROVE  DirectoryEntryHere(k)'
    <3>1. /\ DirectoryEntriesWritten \in Nat /\ DirectoryEntriesWritten' \in Nat
          /\ \/ DirectoryEntriesWritten' <= DirectoryEntriesWritten
             \/ /\ WriteRootEntry \/ WriteDirectoryEntry
                /\ DirectoryEntriesWritten = at /\ DirectoryEntriesWritten' = at + 1
      BY <1>2, WrittenAdvances DEF Advances
    <3>2. CASE k \in 1 .. DirectoryEntriesWritten
      BY <1>2, <3>2, PartitionStays DEF PartitionInv
    <3>3. CASE k \notin 1 .. DirectoryEntriesWritten
      <4>1. (WriteRootEntry \/ WriteDirectoryEntry) /\ k = at + 1
        BY <2>2, <3>1, <3>3
      <4> QED  BY <4>1, NextDirectoryEntry
    <3> QED  BY <3>2, <3>3
  <2>5. ASSUME NEW k \in 1 .. FileEntriesWritten'
        PROVE  FileEntryHere(k)'
    <3>1. /\ FileEntriesWritten \in Nat /\ FileEntriesWritten' \in Nat
          /\ \/ FileEntriesWritten' <= FileEntriesWritten
             \/ /\ WriteFileEntry
                /\ FileEntriesWritten = at /\ FileEntriesWritten' = at + 1
      BY <1>2, WrittenAdvances DEF Advances
    <3>2. CASE k \in 1 .. FileEntriesWritten
      BY <1>2, <3>2, PartitionStays DEF PartitionInv
    <3>3. CASE k \notin 1 .. FileEntriesWritten
      <4>1. (WriteFileEntry) /\ k = at + 1
        BY <2>2, <3>1, <3>3
      <4> QED  BY <4>1, NextFileEntry
    <3> QED  BY <3>2, <3>3
  <2>6. ASSUME NEW k \in 1 .. FilesWritten'
        PROVE  DataHere(k)'
    <3>1. /\ FilesWritten \in Nat /\ FilesWritten' \in Nat
          /\ \/ FilesWritten' <= FilesWritten
             \/ /\ WriteFileData
                /\ FilesWritten = at /\ FilesWritten' = at + 1
      BY <1>2, WrittenAdvances DEF Advances
    <3>2. CASE k \in 1 .. FilesWritten
      BY <1>2, <3>2, PartitionStays DEF PartitionInv
    <3>3. CASE k \notin 1 .. FilesWritten
      <4>1. (WriteFileData) /\ k = at + 1
        BY <2>2, <3>1, <3>3
      <4> QED  BY <4>1, NextData
    <3> QED  BY <3>2, <3>3
  <2> QED  BY <2>3, <2>4, <2>5, <2>6
<1>3. CASE UNCHANGED vars
  <2>1. /\ tree' = tree /\ step' = step /\ at' = at /\ extents' = extents
        /\ partition_start_sector' = partition_start_sector
        /\ data_sector' = data_sector
    BY <1>3 DEF vars, plannerVars, sizes, writerVars, image
  <2>2. NoExactFit' = NoExactFit
    BY <2>1 DEF NoExactFit, NamesFit
  <2>3. /\ IdsWritten' = IdsWritten /\ FilesWritten' = FilesWritten
        /\ DirectoryEntriesWritten' = DirectoryEntriesWritten
        /\ FileEntriesWritten' = FileEntriesWritten
    BY <2>1 DEF IdsWritten, DirectoryEntriesWritten, FileEntriesWritten,
                FilesWritten
  <2>4. ASSUME NEW k
        PROVE  /\ IdsHere(k) => IdsHere(k)'
               /\ DirectoryEntryHere(k) => DirectoryEntryHere(k)'
               /\ FileEntryHere(k) => FileEntryHere(k)'
               /\ DataHere(k) => DataHere(k)'
    <3>1. IdsHere(k) => IdsHere(k)'
      BY <2>1 DEF IdsHere, Has
    <3>2. DirectoryEntryHere(k) => DirectoryEntryHere(k)'
      BY <2>1 DEF DirectoryEntryHere, Has
    <3>3. FileEntryHere(k) => FileEntryHere(k)'
      BY <2>1 DEF FileEntryHere, Has
    <3>4. DataHere(k) => DataHere(k)'
      BY <2>1 DEF DataHere, Has
    <3> QED  BY <3>1, <3>2, <3>3, <3>4
  <2> QED  BY <2>2, <2>3, <2>4 DEF PartitionInv
<1> QED  BY <1>1, <1>2, <1>3 DEF Next
-----------------------------------------------------------------------------
(* What a pointer names: a directory's records,                            *)
Header == {"iso_pvd", "lvd", "anchor", "end_of_session"}

(* Pointers that name the place their target was planned at: to a          *)
(* directory's records,                                                    *)
LEMMA RightRecords ==
  ASSUME PlanInv, PlacesInv, NEW d \in Directories(tree),
         NEW from, from \notin Header
  PROVE  Right(Points(from, "records", d, RecordsLocation(d)))
<1> DEFINE q == Points(from, "records", d, RecordsLocation(d))
<1>1. /\ q.from = from /\ q.to = "records" /\ q.target = d
      /\ q.sector = RecordsLocation(d)
  BY DEF Points
<1>2. d \in DOMAIN tree
  BY DEF Directories
<1>3. RecordsLocation(d) \in Nat
  BY <1>2, PlacesFacts DEF RecordsLocation, Entries, DirRecordsStart
<1> HIDE DEF q
<1>4. Right(q)
  BY <1>1, <1>2, <1>3 DEF Right, Header
<1> QED  BY <1>4 DEF q

(* a file's data,                                                          *)
LEMMA RightData ==
  ASSUME PlanInv, PlacesInv, NEW p \in PlainFiles(tree),
         NEW from, from \notin Header
  PROVE  Right(Points(from, "data", p, global_sector[p]))
<1> DEFINE q == Points(from, "data", p, global_sector[p])
<1>1. /\ q.from = from /\ q.to = "data" /\ q.target = p
      /\ q.sector = global_sector[p]
  BY DEF Points
<1>2. p \in DOMAIN tree /\ p # Root
  BY PlanFacts DEF PlainFiles, Directories, IsTree
<1>3. global_sector[p] \in Nat
  BY <1>2, PlacesFacts DEF Entries
<1> HIDE DEF q
<1>4. Right(q)
  BY <1>1, <1>2, <1>3 DEF Right, Header
<1> QED  BY <1>4 DEF q

(* a file entry,                                                           *)
LEMMA RightEntry ==
  ASSUME PlanInv, PlacesInv, NEW p \in DOMAIN tree,
         NEW from, from \notin Header, NEW block, block = EntryBlock(p)
  PROVE  Right(Points(from, "fe", p, InPartition(block)))
<1> DEFINE q == Points(from, "fe", p, InPartition(block))
<1>1. /\ q.from = from /\ q.to = "fe" /\ q.target = p
      /\ q.sector = partition_start_sector + EntryBlock(p)
  BY DEF Points, InPartition
<1>2. q.sector \in Nat
  BY <1>1, EntryBlocks, PlacesFacts
<1> HIDE DEF q
<1>3. Right(q)
  BY <1>1, <1>2 DEF Right, Header
<1> QED  BY <1>3 DEF q

(* a directory's identifiers,                                              *)
LEMMA RightIds ==
  ASSUME PlanInv, PlacesInv, NEW k \in 1 .. DirAmount(tree) + 1,
         NEW block \in Nat, RootIdsFit => block = 2 + IdsTo(tree, k - 1)
  PROVE  Right(Points("fe", "fids", DirOrder(tree)[k], InPartition(block)))
<1> DEFINE d == DirOrder(tree)[k]
           q == Points("fe", "fids", d, InPartition(block))
<1>1. /\ q.from = "fe" /\ q.to = "fids" /\ q.target = d
      /\ q.sector = partition_start_sector + block
  BY DEF Points, InPartition
<1>2. partition_start_sector \in Nat
  BY PlacesFacts
<1>3. /\ d \in Directories(tree)
      /\ \A i \in 1 .. DirAmount(tree) + 1 : DirOrder(tree)[i] = d => i = k
  <2>1. /\ DirOrder(tree) \in Seq(Directories(tree))
        /\ Len(DirOrder(tree)) = DirAmount(tree) + 1
        /\ \A i, j \in 1 .. DirAmount(tree) + 1 :
             DirOrder(tree)[i] = DirOrder(tree)[j] => i = j
    BY PlanFacts, DirectoriesInOrder
  <2>2. k \in 1 .. Len(DirOrder(tree))
    BY <2>1
  <2>3. d \in Directories(tree)
    BY <2>1, <2>2
  <2> QED  BY <2>1, <2>3
<1>4. d \in DOMAIN tree
  BY <1>3 DEF Directories
<1>5. RootIdsFit =>
        \A i \in 1 .. DirAmount(tree) + 1 : DirOrder(tree)[i] = d =>
          q.sector = partition_start_sector + (2 + IdsTo(tree, i - 1))
  BY <1>1, <1>3
<1>6. q.sector \in Nat
  BY <1>1, <1>2
<1> HIDE DEF q, d
<1>7. Right(q)
  BY <1>1, <1>3, <1>4, <1>5, <1>6 DEF Right
<1> QED  BY <1>7 DEF q, d

(* one of the fixed regions, or the file set.                              *)
LEMMA RightFixed ==
  ASSUME PlanInv, NEW from, NEW to, NEW sector \in Nat,
         to \notin {"data", "fe", "fids"},
         to = "records" => sector = DirRecordsStart,
         <<to, sector>> \in FixedPlaces \/ from \notin Header
  PROVE  Right(Points(from, to, Root, sector))
<1> DEFINE q == Points(from, to, Root, sector)
<1>1. /\ q.from = from /\ q.to = to /\ q.target = Root
      /\ q.sector = sector
  BY DEF Points
<1>2. Root \in DOMAIN tree /\ Root \in Directories(tree)
  BY PlanFacts DEF IsTree, Directories
<1>3. RecordsLocation(Root) = DirRecordsStart
  BY DEF RecordsLocation
<1> HIDE DEF q
<1>4. Right(q)
  BY <1>1, <1>2, <1>3 DEF Right, Header
<1> QED  BY <1>4 DEF q
(* Each step's new pointers name such a place: those of the fixed regions, *)
LEMMA FixedPointers ==
  ASSUME PlanInv, PlacesInv,
         \/ WriteSystemArea \/ WriteVolumeDescriptors \/ WriteAnchor
         \/ WriteFileSet \/ WriteEndOfSession
  PROVE  \A q \in pointers' : q \in pointers \/ Right(q)
<1>0. /\ DirRecordsStart \in Nat /\ partition_start_sector \in Nat
      /\ Root \in DOMAIN tree
  BY PlacesFacts, PlanFacts DEF DirRecordsStart, IsTree
<1>1. CASE WriteSystemArea
  <2>1. /\ Right(Points("iso_pvd", "records", Root, DirRecordsStart))
        /\ Right(Points("iso_pvd", "path_table_L", Root, 257))
        /\ Right(Points("iso_pvd", "path_table_opt_L", Root, 258))
        /\ Right(Points("iso_pvd", "path_table_M", Root, 259))
        /\ Right(Points("iso_pvd", "path_table_opt_M", Root, 260))
    BY <1>0, RightFixed DEF FixedPlaces
  <2> QED  BY <1>1, <2>1 DEF WriteSystemArea
<1>2. CASE WriteVolumeDescriptors
  <2>1. /\ Right(Points("pd", "fsd", Root, partition_start_sector))
        /\ Right(Points("lvd", "lvid", Root, 64))
    BY <1>0, RightFixed DEF FixedPlaces, Header
  <2> QED  BY <1>2, <2>1 DEF WriteVolumeDescriptors
<1>3. CASE WriteAnchor
  <2>1. /\ Right(Points("anchor", "main_vds", Root, 32))
        /\ Right(Points("anchor", "reserve_vds", Root, 48))
    BY <1>0, RightFixed DEF FixedPlaces
  <2> QED  BY <1>3, <2>1 DEF WriteAnchor
<1>4. CASE WriteFileSet
  <2>1. EntryBlock(Root) = 2 + FileIdentifiersAmount(tree)
    BY DEF EntryBlock
  <2>2. Right(Points("fsd", "fe", Root, InPartition(2 + FileIdentifiersAmount(tree))))
    <3> DEFINE b == 2 + FileIdentifiersAmount(tree)
    <3>1. b = EntryBlock(Root)
      BY <2>1
    <3> HIDE DEF b
    <3>2. Right(Points("fsd", "fe", Root, InPartition(b)))
      BY <1>0, <3>1, RightEntry DEF Header
    <3> QED  BY <3>2 DEF b
  <2> QED  BY <1>4, <2>2 DEF WriteFileSet
<1>5. CASE WriteEndOfSession
  <2>1. /\ Right(Points("end_of_session", "main_vds", Root, 32))
        /\ Right(Points("end_of_session", "reserve_vds", Root, 48))
    BY <1>0, RightFixed DEF FixedPlaces
  <2> QED  BY <1>5, <2>1 DEF WriteEndOfSession
<1> QED  BY <1>1, <1>2, <1>3, <1>4, <1>5

(* the path tables',                                                       *)
LEMMA TablePointers ==
  ASSUME PlanInv, PlacesInv, WritePathTables
  PROVE  \A q \in pointers' : q \in pointers \/ Right(q)
<1> DEFINE P(i) == Points("path_table", "records", Table[i].node, Table[i].sector)
<1>1. IsTree(tree) /\ DirAmount(tree) \in Nat
  BY PlanFacts, TreeSizes
<1>2. /\ DOMAIN Table = 1 .. DirAmount(tree) + 1
      /\ \A k \in 1 .. DirAmount(tree) + 1 :
           /\ Table[k].node = DirOrder(tree)[k]
           /\ Table[k].sector = RecordsLocation(DirOrder(tree)[k])
  <2> DEFINE R == [node: {DirOrder(tree)[k] : k \in 1 .. DirAmount(tree) + 1},
                   len: {EntryLen(tree, d) : d \in Directories(tree)},
                   name: Nat,
                   sector: {RecordsLocation(d) : d \in Directories(tree)},
                   parent: 1 .. DirAmount(tree) + 1]
  <2>1. /\ Table \in Seq(R) /\ Len(Table) = DirAmount(tree) + 1
        /\ \A k \in 1 .. DirAmount(tree) + 1 :
             /\ Table[k].node = DirOrder(tree)[k]
             /\ Table[k].sector = RecordsLocation(DirOrder(tree)[k])
    BY <1>1, TableEntries
  <2> HIDE DEF R
  <2> QED  BY ONLY <1>1, <2>1
<1>3. ASSUME NEW k \in DOMAIN Table
      PROVE  Right(P(k))
  <2>1. DirOrder(tree)[k] \in Directories(tree)
    <3>1. /\ DirOrder(tree) \in Seq(Directories(tree))
          /\ Len(DirOrder(tree)) = DirAmount(tree) + 1
      BY <1>1, DirectoriesInOrder
    <3> QED  BY <1>2, <1>3, <3>1
  <2>2. Right(Points("path_table", "records", DirOrder(tree)[k],
                     RecordsLocation(DirOrder(tree)[k])))
    <3> DEFINE d == DirOrder(tree)[k]
    <3>1. d \in Directories(tree)
      BY <2>1
    <3> HIDE DEF d
    <3>2. Right(Points("path_table", "records", d, RecordsLocation(d)))
      BY <3>1, RightRecords DEF Header
    <3> QED  BY <3>2 DEF d
  <2> QED  BY <1>2, <1>3, <2>2
<1>4. pointers' = pointers \cup {P(i) : i \in DOMAIN Table}
  BY DEF WritePathTables
<1> HIDE DEF P
<1> QED  BY <1>3, <1>4

(* a directory's records',                                                 *)
LEMMA RecordPointers ==
  ASSUME PlanInv, PlacesInv, LoopInv, IdentifiersInv, WriteDirectory
  PROVE  \A q \in pointers' : q \in pointers \/ Right(q)
<1> DEFINE d == DirOrder(tree)[at + 1]
           up == IF d = Root THEN Root ELSE Parent(d)
           P(p) == Points("record", IF tree[p].dir THEN "records" ELSE "data",
                          p, global_sector[p])
<1>1. step = "directory" /\ step \notin PlanSteps
  BY DEF WriteDirectory, PlanSteps
<1>2. IsTree(tree) /\ DirAmount(tree) \in Nat /\ at \in 0 .. DirAmount(tree)
  BY <1>1, WriterFacts DEF LoopInv
<1>3. AllDirectories[at + 1] = d /\ d \in Directories(tree)
  BY <1>1, <1>2, OneFurther
<1> HIDE DEF d
<1>4. up \in Directories(tree)
  <2>1. CASE d = Root
    BY <1>3, <2>1
  <2>2. CASE d # Root
    BY <1>2, <1>3, <2>2, ParentListsIt DEF Entries, Directories
  <2> QED  BY <2>1, <2>2
<1>5. /\ Right(Points(".", "records", d, RecordsLocation(d)))
      /\ Right(Points("..", "records", up, RecordsLocation(up)))
  <2> HIDE DEF up
  <2> QED  BY <1>3, <1>4, RightRecords DEF Header
<1>6. RecordsLocation(up)
        = IF d = Root THEN DirRecordsStart ELSE RecordsLocation(Parent(d))
  BY DEF RecordsLocation
<1>7. ASSUME NEW p \in Children(tree, d)
      PROVE  Right(P(p))
  <2>1. p \in DOMAIN tree /\ p # Root
    BY DEF Children, Entries
  <2>2. CASE tree[p].dir
    <3>1. p \in Directories(tree)
      BY <2>1, <2>2 DEF Directories
    <3>2. RecordsLocation(p) = global_sector[p]
      BY <2>1 DEF RecordsLocation
    <3>3. Right(Points("record", "records", p, RecordsLocation(p)))
      BY <3>1, RightRecords DEF Header
    <3> QED  BY <2>2, <3>2, <3>3
  <2>3. CASE ~tree[p].dir
    <3>1. p \in PlainFiles(tree)
      BY <2>1, <2>3 DEF PlainFiles, Directories
    <3>2. Right(Points("record", "data", p, global_sector[p]))
      BY <3>1, RightData DEF Header
    <3> QED  BY <2>3, <3>2
  <2> QED  BY <2>2, <2>3
<1>8. pointers' = pointers \cup
        {Points(".", "records", d, RecordsLocation(d)),
         Points("..", "records", up, RecordsLocation(up))}
        \cup {P(p) : p \in Children(tree, d)}
  BY <1>3, <1>6 DEF WriteDirectory
<1> HIDE DEF P, up
<1> QED  BY <1>5, <1>7, <1>8

(* an identifier's and, of a directory, its parent's,                      *)
LEMMA IdentifierPointers ==
  ASSUME PlanInv, PlacesInv, LoopInv, IdentifiersInv,
         AddIdentifier \/ FlushIdentifiers
  PROVE  \A q \in pointers' : q \in pointers \/ Right(q)
<1> DEFINE d == DirOrder(tree)[at + 1]
           p == IdentifierOrder(tree, d)[entry + 1]
<1>1. step = "entries" /\ step \notin PlanSteps
  BY DEF AddIdentifier, FlushIdentifiers, PlanSteps
<1>2. IsTree(tree) /\ DirAmount(tree) \in Nat /\ at \in 0 .. DirAmount(tree)
  BY <1>1, WriterFacts DEF LoopInv
<1>3. AllDirectories[at + 1] = d /\ d \in Directories(tree)
  BY <1>1, <1>2, OneFurther
<1>4. CASE AddIdentifier
  <2>1. /\ pointers' = pointers \cup {Points("fid", "fe", p, InPartition(lba[p]))}
        /\ entry < Len(Listing(tree, d)) /\ entry \in Nat
    BY <1>1, <1>3, <1>4 DEF AddIdentifier, IdentifiersInv
  <2>2. p \in Children(tree, d)
    <3> HIDE DEF d
    <3> QED  BY <1>2, <1>3, <2>1, IdBytesAlong
  <2> HIDE DEF p, d
  <2>3. p \in DOMAIN tree /\ p # Root
    BY <2>2 DEF Children, Entries
  <2>4. lba[p] = EntryBlock(p)
    BY <2>3 DEF EntryBlock
  <2>5. Right(Points("fid", "fe", p, InPartition(lba[p])))
    BY <2>3, <2>4, RightEntry DEF Header
  <2> QED  BY <2>1, <2>5
<1>5. CASE FlushIdentifiers
  <2>1. pointers' = pointers \cup
          {Points("parent_fid", "fe", d, InPartition(fi_root.icb))}
    BY <1>3, <1>5 DEF FlushIdentifiers
  <2>2. fi_root.icb = EntryBlock(d)
    BY <1>1 DEF IdentifiersInv, CurrentIdentifiers
  <2> HIDE DEF d
  <2>3. d \in DOMAIN tree
    BY <1>3 DEF Directories
  <2>4. Right(Points("parent_fid", "fe", d, InPartition(fi_root.icb)))
    BY <2>2, <2>3, RightEntry DEF Header
  <2> QED  BY <2>1, <2>4
<1> QED  BY <1>4, <1>5
(* and a file entry's.                                                     *)
LEMMA EntryPointers ==
  ASSUME PlanInv, PlacesInv, LoopInv, IdentifiersInv,
         WriteRootEntry \/ WriteDirectoryEntry \/ WriteFileEntry
  PROVE  \A q \in pointers' : q \in pointers \/ Right(q)
<1> DEFINE N == DirAmount(tree)
<1>1. /\ step \in {"root_entry", "directory_entries", "file_entries"}
      /\ step \notin PlanSteps
  BY DEF WriteRootEntry, WriteDirectoryEntry, WriteFileEntry, GoOn, PlanSteps
<1>2. /\ IsTree(tree) /\ N \in Nat /\ at \in Nat
      /\ AllDirectories = DirOrder(tree) /\ AllFiles = FileOrder(tree)
      /\ Len(AllDirectories) = N + 1 /\ Len(AllFiles) = FileAmount(tree)
  BY <1>1, WriterFacts DEF LoopInv
<1>3. CASE WriteRootEntry
  <2> DEFINE k == 1
             b == 2
  <2>1. DirOrder(tree)[k] = Root /\ IdsTo(tree, k - 1) = 0
    <3>1. DirOrder(tree)[1] = Root /\ IdsTo(tree, 0) = 0
      BY <1>2, DirectoriesInOrder, PartsMakeTheWhole
    <3>2. k = 1 /\ k - 1 = 0
      OBVIOUS
    <3> HIDE DEF k
    <3> QED  BY ONLY <3>1, <3>2
  <2>2. k \in 1 .. N + 1 /\ b \in Nat /\ b = 2 + IdsTo(tree, k - 1)
    BY <1>2, <2>1
  <2>3. pointers' = pointers \cup
          {Points("fe", "fids", DirOrder(tree)[k], InPartition(b))}
    BY <1>3, <2>1 DEF WriteRootEntry, WriteEntry
  <2> HIDE DEF k, b
  <2>4. Right(Points("fe", "fids", DirOrder(tree)[k], InPartition(b)))
    BY ONLY PlanInv, PlacesInv, <2>2, RightIds
  <2> QED  BY <2>3, <2>4
<1>4. CASE WriteDirectoryEntry
  <2> DEFINE k == at + 1
             b == log_block_num
  <2>1. /\ step = "directory_entries" /\ at < N + 1
        /\ AllDirectories[k] = DirOrder(tree)[k]
    BY <1>2, <1>4 DEF WriteDirectoryEntry
  <2>2. k \in 1 .. N + 1 /\ k - 1 = at
    BY <1>2, <2>1
  <2>3. b \in Nat /\ (RootIdsFit => b = 2 + IdsTo(tree, k - 1))
    BY <2>1, <2>2 DEF IdentifiersInv
  <2>4. pointers' = pointers \cup
          {Points("fe", "fids", DirOrder(tree)[k], InPartition(b))}
    BY <1>4, <2>1 DEF WriteDirectoryEntry, WriteEntry
  <2> HIDE DEF k, b
  <2>5. Right(Points("fe", "fids", DirOrder(tree)[k], InPartition(b)))
    BY ONLY PlanInv, PlacesInv, <2>2, <2>3, RightIds
  <2> QED  BY <2>4, <2>5
<1>5. CASE WriteFileEntry
  <2> DEFINE p == FileOrder(tree)[at + 1]
  <2>1. at < FileAmount(tree) /\ AllFiles[at + 1] = p
    BY <1>2, <1>5 DEF WriteFileEntry
  <2>2. p \in PlainFiles(tree)
    BY <1>2, <2>1, DataAlong
  <2>3. pointers' = pointers \cup
          {Points("fe", "data", p, InPartition(local_sector[p]))}
    BY <1>5, <2>1 DEF WriteFileEntry, WriteEntry
  <2> HIDE DEF p
  <2>4. InPartition(local_sector[p]) = global_sector[p]
    BY <1>1, <2>2 DEF PlanInv, IsoUdfAgree, InPartition
  <2>5. Right(Points("fe", "data", p, global_sector[p]))
    BY <2>2, RightData DEF Header
  <2> QED  BY <2>3, <2>4, <2>5
<1> QED  BY <1>3, <1>4, <1>5

(* At the start there are no pointers.                                     *)
LEMMA PointersInvInit == Init => PointersInv
BY DEF Init, PointersInv

(* Every step keeps them right.                                            *)
LEMMA PointersInvStep ==
  ASSUME PlanInv, PlacesInv, LoopInv, IdentifiersInv, PointersInv, [Next]_vars
  PROVE  PointersInv'
<1>1. CASE Plan /\ UNCHANGED writerVars
  <2>1. step \in PlanSteps /\ pointers' = pointers
    BY <1>1 DEF writerVars, image, Plan, SizeVolume, SortNodes, PlaceDirectory,
      SkipFile, StartFiles, PlaceFile, SkipDirectory, Planned, PlanSteps
  <2>2. pointers' = {}
    BY <2>1 DEF PointersInv
  <2> QED  BY <2>2 DEF PointersInv
<1>2. CASE WriteSectors
  <2>1. \A q \in pointers' : q \in pointers \/ Right(q)
    <3>1. CASE \/ WriteIntegrity \/ ThrowPathTable \/ OverrunRecord
               \/ StartIdentifiers \/ DirectoryEntriesDone \/ FileEntriesDone
               \/ WriteFileData \/ WritePads
      BY <3>1 DEF WriteIntegrity, ThrowPathTable, OverrunRecord,
        StartIdentifiers, DirectoryEntriesDone, FileEntriesDone, WriteFileData,
        WritePads, image, writerVars
    <3> QED
      BY <1>2, <3>1, FixedPointers, TablePointers, RecordPointers,
         IdentifierPointers, EntryPointers DEF WriteSectors
  <2>2. /\ step' \notin PlanSteps
        /\ tree' = tree /\ global_sector' = global_sector /\ lba' = lba
        /\ partition_start_sector' = partition_start_sector
        /\ RootIdsFit' = RootIdsFit
    BY <1>2, PlanKept, WriterKeepsPlan
  <2>3. ASSUME NEW q, Right(q)
        PROVE  Right(q)'
    BY <2>2, <2>3 DEF Right, RecordsLocation, EntryBlock
  <2>4. \A q \in pointers' : Right(q)'
    BY <2>1, <2>3 DEF PointersInv
  <2> QED  BY <2>2, <2>4 DEF PointersInv
<1>3. CASE UNCHANGED vars
  <2>1. /\ step' = step /\ pointers' = pointers
        /\ tree' = tree /\ global_sector' = global_sector /\ lba' = lba
        /\ partition_start_sector' = partition_start_sector
    BY <1>3 DEF vars, plannerVars, locations, sizes, writerVars, image
  <2>2. RootIdsFit' = RootIdsFit
    BY <2>1 DEF RootIdsFit
  <2>3. ASSUME NEW q, Right(q)
        PROVE  Right(q)'
    BY <2>1, <2>2, <2>3 DEF Right, RecordsLocation, EntryBlock
  <2> QED  BY <2>1, <2>3 DEF PointersInv
<1> QED  BY <1>1, <1>2, <1>3 DEF Next
-----------------------------------------------------------------------------
(* Counting round and round, one further.                                  *)
LEMMA LbaModulo ==
  ASSUME NEW n \in Int
  PROVE  /\ n % LbaMod \in 0 .. LbaMod - 1
         /\ ((n % LbaMod) + 1) % LbaMod = (n + 1) % LbaMod
<1> DEFINE m == n % LbaMod
<1>1. m \in Int /\ m >= 0 /\ m <= LbaMod - 1
  BY SMT DEF LbaMod
<1>2. LbaMod \in Int
  BY SMT DEF LbaMod
<1>3. ((n % LbaMod) + 1) % LbaMod = (n + 1) % LbaMod
  BY SMT DEF LbaMod
<1>4. m \in 0 .. LbaMod - 1
  <2> HIDE DEF m
  <2> QED  BY ONLY <1>1, <1>2, SMT
<1> HIDE DEF m
<1> QED  BY ONLY <1>3, <1>4, SMT DEF m

(* The tags' number goes round with the blocks'.                           *)
LEMMA NextBlock ==
  ASSUME NEW f, f.start \in Nat, NEW s \in Nat
  PROVE  /\ BlockOf(f, s) \in 0 .. LbaMod - 1
         /\ (BlockOf(f, s) + 1) % LbaMod = BlockOf(f, s + 1)
<1> DEFINE n == s - f.start
<1>1. n \in Int /\ s + 1 - f.start = n + 1
  BY SMT
<1>2. BlockOf(f, s) = n % LbaMod /\ BlockOf(f, s + 1) = (n + 1) % LbaMod
  BY <1>1, SMT DEF BlockOf
<1> HIDE DEF n
<1>3. /\ n % LbaMod \in 0 .. LbaMod - 1
      /\ ((n % LbaMod) + 1) % LbaMod = (n + 1) % LbaMod
  BY ONLY <1>1, LbaModulo, SMT
<1> QED  BY ONLY <1>2, <1>3, SMT

(* At the start there are no tags.                                         *)
LEMMA TagInvInit == Init => TagInv
BY DEF Init, PlannerInit, TagInv, FileSets, LbaMod, FromIdentifiers,
       FromRootEntry, FromDirectoryEntries, FromFileEntries, FromData, FromEnd

(* Before the partition no tag counts from it,                             *)
LEMMA TagsBefore ==
  ASSUME TagInv, step \notin FromIdentifiers, step' \notin FromIdentifiers,
         UNCHANGED <<cur_spec_lba, identifiers>>,
         \A e \in extents' : e \in extents \/
           /\ e.start \in Nat /\ e.len \in Nat
           /\ e.what \notin InPart
  PROVE  TagInv'
<1>1. /\ \A e \in extents' : e.start \in Nat /\ e.len \in Nat
      /\ \A e \in extents' : e.what \notin InPart
      /\ identifiers' = {} /\ cur_spec_lba' \in 0 .. LbaMod - 1
  BY DEF TagInv
<1>2. FileSets' = {}
  BY <1>1 DEF FileSets, InPart
<1> QED  BY <1>1, <1>2 DEF TagInv

(* behind it all have been handed out.                                     *)
LEMMA TagsBehind ==
  ASSUME TagInv, step \in FromIdentifiers, step # "entries",
         step' \in FromData,
         UNCHANGED <<cur_spec_lba, identifiers>>, extents \subseteq extents',
         \A e \in extents' : e \in extents \/
           /\ e.start \in Nat /\ e.len \in Nat
           /\ e.what \notin InPart
  PROVE  TagInv'
<1>1. /\ \A e \in extents' : e.start \in Nat /\ e.len \in Nat
      /\ \A e \in extents' : e.what \in InPart => e \in extents
      /\ cur_spec_lba' \in 0 .. LbaMod - 1
  BY DEF TagInv
<1>2. FileSets' = FileSets
  BY <1>1 DEF FileSets, InPart
<1>3. /\ step' \in FromIdentifiers
      /\ step' \notin {"identifiers", "root_entry", "directory_entries",
                       "file_entries", "entries"}
  BY DEF FromIdentifiers, FromRootEntry, FromDirectoryEntries,
         FromFileEntries, FromData, FromEnd
<1>4. ASSUME NEW f \in FileSets
      PROVE  /\ NextTag(f)'
             /\ \A e \in extents' : e.what \in {"fe", "fids"} => Tagged(e, f)
             /\ \A i \in identifiers : IdentifierTagged(i, f)'
  <2>1. NextTag(f)'
    BY <1>3 DEF NextTag
  <2>2. \A e \in extents' : e.what \in {"fe", "fids"} => Tagged(e, f)
    BY <1>1 DEF TagInv, InPart
  <2>3. ASSUME NEW i \in identifiers
        PROVE  IdentifierTagged(i, f)'
    <3>1. IdentifierTagged(i, f)
      BY DEF TagInv
    <3> QED  BY <3>1 DEF IdentifierTagged, BlockOf
  <2> QED  BY <2>1, <2>2, <2>3
<1>5. /\ FileSets # {} /\ \A e, f \in FileSets : e.start = f.start
      /\ \A i \in identifiers : i.offset \in Nat
  BY DEF TagInv
<1>6. \A f \in FileSets : \A e \in extents' : Tagged(e, f)' <=> Tagged(e, f)
  BY DEF Tagged, BlockOf
<1> QED  BY <1>1, <1>2, <1>3, <1>4, <1>5, <1>6 DEF TagInv
(* The file set descriptor is the block the others count from.             *)
LEMMA TagsFromFileSet ==
  ASSUME TagInv, current_sector \in Nat, WriteFileSet
  PROVE  TagInv'
<1>1. /\ current_sector' = current_sector + 2
      /\ \E e \in extents' : e.what = "fsd"
      /\ \A e \in extents' : e \in extents \/
           /\ e.start \in Nat /\ e.len \in Nat
           /\ \/ e.what \notin InPart
              \/ e.what = "fsd" /\ e.start = current_sector
  BY FileSetLaid DEF Lengthens, Wrote
<1>2. /\ step = "file_set" /\ step' = "identifiers"
      /\ cur_spec_lba' = 2 /\ identifiers' = identifiers
  BY DEF WriteFileSet, GoOn
<1>3. /\ step \notin FromIdentifiers /\ step' \in FromIdentifiers
  BY <1>2 DEF FromIdentifiers, FromRootEntry, FromDirectoryEntries,
              FromFileEntries, FromData, FromEnd
<1>4. /\ \A e \in extents : e.start \in Nat /\ e.len \in Nat
      /\ \A e \in extents : e.what \notin InPart
      /\ identifiers' = {}
  BY <1>2, <1>3 DEF TagInv
<1>5. /\ FileSets' # {}
      /\ \A f \in FileSets' : f.start = current_sector
      /\ \A e \in extents' : e.start \in Nat /\ e.len \in Nat
      /\ \A e \in extents' : e.what \notin {"fe", "fids"}
  BY <1>1, <1>4 DEF FileSets, InPart
<1>6. cur_spec_lba' \in 0 .. LbaMod - 1
  BY <1>2, SMT DEF LbaMod
<1>7. ASSUME NEW f, f.start = current_sector
      PROVE  cur_spec_lba' = BlockOf(f, current_sector')
  <2>1. current_sector' - f.start = 2
    BY <1>1, <1>7
  <2>2. 2 % LbaMod = 2
    BY SMT DEF LbaMod
  <2> QED  BY <1>2, <2>1, <2>2, SMT DEF BlockOf
<1>8. \A f \in FileSets' : NextTag(f)'
  BY <1>2, <1>5, <1>7 DEF NextTag, BlockOf
<1> QED  BY <1>3, <1>4, <1>5, <1>6, <1>8 DEF TagInv

(* A directory's identifiers begin with its parent's, in the block the     *)
(* directory's begin.                                                      *)
LEMMA TagsFromParent ==
  ASSUME TagInv, current_sector \in Nat, StartIdentifiers
  PROVE  TagInv'
<1>1. /\ step = "identifiers" /\ step' = "entries" /\ needed_sectors' = 1
      /\ fi_root'.tag = cur_spec_lba
      /\ cur_spec_lba' = cur_spec_lba /\ extents' = extents
      /\ identifiers' = identifiers /\ current_sector' = current_sector
  BY DEF StartIdentifiers, GoOn, image
<1>2. step \in FromIdentifiers /\ step' \in FromIdentifiers
  BY <1>1 DEF FromIdentifiers
<1>3. current_sector + (1 - 1) = current_sector
  OBVIOUS
<1>4. ASSUME NEW f \in FileSets
      PROVE  NextTag(f)'
  <2>1. cur_spec_lba = BlockOf(f, current_sector)
    BY <1>1 DEF TagInv, NextTag
  <2> QED  BY <1>1, <1>3, <2>1 DEF NextTag, BlockOf
<1>5. ASSUME NEW f \in FileSets, NEW i \in identifiers
      PROVE  IdentifierTagged(i, f)'
  <2>1. IdentifierTagged(i, f)
    BY DEF TagInv
  <2> QED  BY <1>1, <2>1 DEF IdentifierTagged, BlockOf
<1>6. FileSets' = FileSets
  BY <1>1 DEF FileSets
<1> QED  BY <1>1, <1>2, <1>4, <1>5, <1>6 DEF TagInv, Tagged, BlockOf

(* The next block is numbered when the identifiers reach it.               *)
LEMMA TagsOfIdentifiers ==
  ASSUME PlanInv, LoopInv, IdentifiersInv, TagInv, current_sector \in Nat,
         AddIdentifier
  PROVE  TagInv'
<1> DEFINE d == DirOrder(tree)[at + 1]
           new == [dir |-> d,
                   node |-> IdentifierOrder(tree, d)[entry + 1],
                   tag |-> cur_spec_lba, offset |-> needed_memory]
           s == current_sector + (needed_sectors - 1)
<1>1. AllDirectories[at + 1] = d
  BY WriterFacts DEF AddIdentifier, PlanSteps
<1>2. /\ step = "entries" /\ step' = "entries" /\ at' = at /\ tree' = tree
      /\ fi_root' = fi_root /\ extents' = extents
      /\ current_sector' = current_sector
      /\ identifiers' = identifiers \cup {new}
      /\ \/ /\ cur_spec_lba' = (cur_spec_lba + 1) % LbaMod
            /\ needed_sectors' = needed_sectors + 1
         \/ /\ cur_spec_lba' = cur_spec_lba
            /\ needed_sectors' = needed_sectors
  BY <1>1 DEF AddIdentifier, plan
<1>3. /\ needed_memory \in Nat /\ needed_sectors \in Nat
      /\ needed_sectors = needed_memory \div Sector + 1
      /\ needed_memory \div Sector \in Nat
  <2>1. needed_memory \in Nat /\ needed_sectors \in Nat
    BY DEF IdentifiersInv
  <2>2. needed_memory \div Sector \in Nat
    BY <2>1 DEF Sector
  <2> QED  BY <1>2, <2>1, <2>2 DEF IdentifiersInv, CurrentIdentifiers
<1>4. /\ s \in Nat /\ s = current_sector + (needed_memory \div Sector)
      /\ s + 1 = current_sector + (needed_sectors + 1 - 1)
  BY <1>3
<1>5. step \in FromIdentifiers /\ step' \in FromIdentifiers
  BY <1>2 DEF FromIdentifiers
<1>6. FileSets' = FileSets /\ FileSets # {}
  BY <1>2, <1>5 DEF FileSets, TagInv
<1> HIDE DEF s, d, new
<1>7. ASSUME NEW f \in FileSets
      PROVE  /\ NextTag(f)' /\ cur_spec_lba' \in 0 .. LbaMod - 1
             /\ \A i \in identifiers' : IdentifierTagged(i, f)'
  <2>1. /\ cur_spec_lba = BlockOf(f, s)
        /\ fi_root.tag = BlockOf(f, current_sector)
        /\ f.start \in Nat
    BY <1>2 DEF TagInv, NextTag, FileSets, s
  <2>2. /\ BlockOf(f, s) \in 0 .. LbaMod - 1
        /\ (BlockOf(f, s) + 1) % LbaMod = BlockOf(f, s + 1)
        /\ BlockOf(f, s + 1) \in 0 .. LbaMod - 1
    <3> DEFINE r == s + 1
    <3>1. r \in Nat
      BY <1>4
    <3> HIDE DEF r
    <3>2. BlockOf(f, r) \in 0 .. LbaMod - 1
      BY <2>1, <3>1, NextBlock
    <3> QED  BY <1>4, <2>1, <3>2, NextBlock DEF r
  <2>3. cur_spec_lba' = BlockOf(f, current_sector + (needed_sectors' - 1))
    <3>1. \/ /\ cur_spec_lba' = BlockOf(f, s + 1)
             /\ needed_sectors' = needed_sectors + 1
          \/ /\ cur_spec_lba' = BlockOf(f, s)
             /\ needed_sectors' = needed_sectors
      BY <1>2, <2>1, <2>2, Zenon
    <3>3. s = current_sector + (needed_sectors - 1)
      BY DEF s
    <3>4. CASE /\ cur_spec_lba' = BlockOf(f, s + 1)
               /\ needed_sectors' = needed_sectors + 1
      <4>1. s + 1 = current_sector + (needed_sectors' - 1)
        <5>1. needed_sectors' = needed_sectors + 1
          BY <3>4, Zenon
        <5> QED  BY ONLY <1>3, <3>3, <5>1, current_sector \in Nat, SMT
      <4> QED  BY <3>4, <4>1, Zenon
    <3>5. CASE /\ cur_spec_lba' = BlockOf(f, s)
               /\ needed_sectors' = needed_sectors
      BY <3>3, <3>5, Zenon
    <3> QED  BY <3>1, <3>4, <3>5, Zenon
  <2>4. NextTag(f)'
    BY <1>2, <2>1, <2>3, Zenon DEF NextTag, BlockOf
  <2>5. cur_spec_lba' \in 0 .. LbaMod - 1
    BY <1>2, <2>1, <2>2, Zenon
  <2>6. ASSUME NEW i, i = new
        PROVE  IdentifierTagged(i, f)'
    <3>1. i.dir = d /\ i.tag = cur_spec_lba /\ i.offset = needed_memory
      BY <2>6 DEF new
    <3>2. i.tag = BlockOf(f, current_sector + (i.offset \div Sector))
      <4>1. s = current_sector + (i.offset \div Sector)
        BY <1>4, <3>1, Zenon
      <4>2. i.tag = BlockOf(f, s)
        BY <2>1, <3>1, Zenon
      <4> QED  BY <4>1, <4>2, Zenon
    <3>3. DirOrder(tree')[at' + 1] = d
      BY <1>2 DEF d
    <3> QED  BY <1>2, <3>1, <3>2, <3>3, Zenon DEF IdentifierTagged, BlockOf
  <2>7. ASSUME NEW i \in identifiers
        PROVE  IdentifierTagged(i, f)'
    <3>1. IdentifierTagged(i, f)
      BY DEF TagInv
    <3> QED  BY <1>2, <3>1, Zenon DEF IdentifierTagged, BlockOf
  <2>8. \A i \in identifiers' : i \in identifiers \/ i = new
    BY <1>2
  <2> QED  BY <2>4, <2>5, <2>6, <2>7, <2>8, Zenon
<1>8. new.offset \in Nat
  BY <1>3 DEF new
<1>9. \A f \in FileSets : \A e \in extents' : Tagged(e, f)' <=> Tagged(e, f)
  BY DEF Tagged, BlockOf
<1>10. cur_spec_lba' \in 0 .. LbaMod - 1
  BY <1>6, <1>7, Zenon
<1>11. \A f \in FileSets' :
         NextTag(f)' /\ \A i \in identifiers' : IdentifierTagged(i, f)'
  BY <1>2, <1>6, <1>7, Zenon
<1> QED  BY <1>2, <1>5, <1>6, <1>8, <1>9, <1>10, <1>11 DEF TagInv

(* A directory's identifiers, once written, hold every tag of theirs.      *)
LEMMA TagsFlushed ==
  ASSUME PlanInv, LoopInv, IdentifiersInv, TagInv, current_sector \in Nat,
         FlushIdentifiers
  PROVE  TagInv'
<1> DEFINE d == DirOrder(tree)[at + 1]
           new == [what |-> "fids", node |-> d, len |-> needed_sectors,
                   tag |-> fi_root.tag, start |-> current_sector]
           s == current_sector + (needed_sectors - 1)
<1>1. AllDirectories[at + 1] = d
  BY WriterFacts DEF FlushIdentifiers, PlanSteps
<1>2. /\ step = "entries" /\ step' \in {"identifiers", "root_entry"}
      /\ extents' = extents \cup {new}
      /\ current_sector' = current_sector + needed_sectors
      /\ cur_spec_lba' = (cur_spec_lba + 1) % LbaMod
      /\ identifiers' = identifiers
  BY <1>1 DEF FlushIdentifiers, Write
<1>3. needed_sectors \in Nat /\ needed_sectors >= 1
  <2>1. needed_memory \in Nat /\ needed_sectors \in Nat
    BY DEF IdentifiersInv
  <2>2. needed_memory \div Sector \in Nat
    BY <2>1 DEF Sector
  <2>3. needed_sectors = needed_memory \div Sector + 1
    BY <1>2 DEF IdentifiersInv, CurrentIdentifiers
  <2> QED  BY <2>1, <2>2, <2>3
<1>4. s \in Nat /\ s + 1 = current_sector'
  BY <1>2, <1>3
<1>5. /\ step \in FromIdentifiers /\ step' \in FromIdentifiers
      /\ step' # "entries"
  BY <1>2 DEF FromIdentifiers, FromRootEntry
<1>6. /\ new.what = "fids" /\ new.node = d /\ new.tag = fi_root.tag
      /\ new.start = current_sector /\ new.len \in Nat
  BY <1>3
<1> HIDE DEF new
<1>7. FileSets' = FileSets /\ FileSets # {}
  BY <1>2, <1>5, <1>6 DEF FileSets, TagInv
<1> HIDE DEF s, d
<1>8. ASSUME NEW f \in FileSets
      PROVE  /\ NextTag(f)' /\ cur_spec_lba' \in 0 .. LbaMod - 1
             /\ \A e \in extents' : e.what \in {"fe", "fids"} => Tagged(e, f)
             /\ \A i \in identifiers : IdentifierTagged(i, f)'
  <2>1. /\ cur_spec_lba = BlockOf(f, s)
        /\ fi_root.tag = BlockOf(f, current_sector)
        /\ f.start \in Nat
    BY <1>2 DEF TagInv, NextTag, FileSets, s
  <2>2. current_sector' \in Nat
    BY <1>4
  <2>3. (BlockOf(f, s) + 1) % LbaMod = BlockOf(f, s + 1)
    BY <1>4, <2>1, NextBlock
  <2>4. cur_spec_lba' = BlockOf(f, current_sector')
    BY <1>2, <1>4, <2>1, <2>3, Zenon
  <2>5. NextTag(f)'
    BY <1>5, <2>4, Zenon DEF NextTag, BlockOf
  <2>6. cur_spec_lba' \in 0 .. LbaMod - 1
    <3> DEFINE r == current_sector'
    <3>1. r \in Nat
      BY <2>2
    <3> HIDE DEF r
    <3>2. BlockOf(f, r) \in 0 .. LbaMod - 1
      BY <2>1, <3>1, NextBlock
    <3> QED  BY <2>4, <3>2, Zenon DEF r
  <2>7. \A e \in extents' : e.what \in {"fe", "fids"} => Tagged(e, f)
    <3>1. Tagged(new, f)
      BY <1>6, <2>1, Zenon DEF Tagged
    <3>2. \A e \in extents : e.what \in {"fe", "fids"} => Tagged(e, f)
      BY DEF TagInv
    <3> QED  BY <1>2, <3>1, <3>2
  <2>8. ASSUME NEW i \in identifiers
        PROVE  IdentifierTagged(i, f)'
    <3>1. IdentifierTagged(i, f)
      BY DEF TagInv
    <3>2. CASE /\ i.dir = d
               /\ i.tag = BlockOf(f, current_sector + (i.offset \div Sector))
      <4>1. new \in extents' /\ new.what = "fids" /\ new.node = i.dir
        BY <1>2, <1>6, <3>2
      <4>2. i.tag = BlockOf(f, new.start + (i.offset \div Sector))
        BY <1>6, <3>2, Zenon
      <4>3. PICK n \in extents' : n = new
        BY <4>1
      <4>4. /\ n.what = "fids" /\ n.node = i.dir
            /\ i.tag = BlockOf(f, n.start + (i.offset \div Sector))
        BY <4>1, <4>2, <4>3, Zenon
      <4> QED  BY <4>4, Zenon DEF IdentifierTagged, BlockOf
    <3>3. CASE \E e \in extents :
                 /\ e.what = "fids" /\ e.node = i.dir
                 /\ i.tag = BlockOf(f, e.start + (i.offset \div Sector))
      BY <1>2, <3>3, Zenon DEF IdentifierTagged, BlockOf
    <3> QED  BY <3>1, <3>2, <3>3, Zenon DEF IdentifierTagged, d
  <2> QED  BY <2>5, <2>6, <2>7, <2>8
<1>9. /\ \A e \in extents' : e.start \in Nat /\ e.len \in Nat
      /\ \A i \in identifiers' : i.offset \in Nat
      /\ \A e, f \in FileSets' : e.start = f.start
  BY <1>2, <1>6, <1>7 DEF TagInv
<1>10. cur_spec_lba' \in 0 .. LbaMod - 1
  BY <1>7, <1>8, Zenon
<1>11. \A f \in FileSets' :
         /\ NextTag(f)'
         /\ \A e \in extents' : e.what \in {"fe", "fids"} => Tagged(e, f)'
         /\ \A i \in identifiers' : IdentifierTagged(i, f)'
  BY <1>2, <1>7, <1>8, Zenon DEF Tagged, BlockOf
<1> QED  BY <1>5, <1>7, <1>9, <1>10, <1>11 DEF TagInv

(* A file entry takes the next number.                                     *)
LEMMA TagsOfEntries ==
  ASSUME TagInv, current_sector \in Nat, NEW p,
         step \in {"root_entry", "directory_entries", "file_entries"},
         step' \in {"directory_entries", "file_entries"},
         Write("fe", p, 1, cur_spec_lba),
         cur_spec_lba' = (cur_spec_lba + 1) % LbaMod,
         UNCHANGED identifiers
  PROVE  TagInv'
<1> DEFINE new == [what |-> "fe", node |-> p, len |-> 1,
                   tag |-> cur_spec_lba, start |-> current_sector]
<1>1. /\ extents' = extents \cup {new} /\ identifiers' = identifiers
      /\ current_sector' = current_sector + 1
  BY DEF Write
<1>2. /\ new.what = "fe" /\ new.tag = cur_spec_lba
      /\ new.start = current_sector /\ new.len \in Nat
  OBVIOUS
<1> HIDE DEF new
<1>3. /\ step \in FromIdentifiers /\ step' \in FromIdentifiers
      /\ step # "entries" /\ step' # "entries"
  BY DEF FromIdentifiers, FromRootEntry, FromDirectoryEntries,
         FromFileEntries
<1>4. FileSets' = FileSets /\ FileSets # {}
  BY <1>1, <1>2, <1>3 DEF FileSets, TagInv
<1>5. ASSUME NEW f \in FileSets
      PROVE  /\ NextTag(f)' /\ cur_spec_lba' \in 0 .. LbaMod - 1
             /\ \A e \in extents' : e.what \in {"fe", "fids"} => Tagged(e, f)
             /\ \A i \in identifiers : IdentifierTagged(i, f)'
  <2>1. /\ cur_spec_lba = BlockOf(f, current_sector)
        /\ f.start \in Nat
    BY DEF TagInv, NextTag, FileSets
  <2>2. (BlockOf(f, current_sector) + 1) % LbaMod
          = BlockOf(f, current_sector + 1)
    BY <2>1, NextBlock
  <2>3. cur_spec_lba' = BlockOf(f, current_sector')
    BY <1>1, <2>1, <2>2, Zenon
  <2>4. NextTag(f)'
    BY <1>3, <2>3, Zenon DEF NextTag, BlockOf
  <2>5. cur_spec_lba' \in 0 .. LbaMod - 1
    <3> DEFINE r == current_sector + 1
    <3>1. r \in Nat
      OBVIOUS
    <3> HIDE DEF r
    <3>2. BlockOf(f, r) \in 0 .. LbaMod - 1
      BY <2>1, <3>1, NextBlock
    <3> QED  BY <1>1, <2>3, <3>2, Zenon DEF r
  <2>6. \A e \in extents' : e.what \in {"fe", "fids"} => Tagged(e, f)
    <3>1. Tagged(new, f)
      BY <1>2, <2>1, Zenon DEF Tagged
    <3>2. \A e \in extents : e.what \in {"fe", "fids"} => Tagged(e, f)
      BY DEF TagInv
    <3> QED  BY <1>1, <3>1, <3>2
  <2>7. ASSUME NEW i \in identifiers
        PROVE  IdentifierTagged(i, f)'
    <3>1. IdentifierTagged(i, f)
      BY DEF TagInv
    <3> QED  BY <1>1, <1>3, <3>1, Zenon DEF IdentifierTagged, BlockOf
  <2> QED  BY <2>4, <2>5, <2>6, <2>7
<1>6. /\ \A e \in extents' : e.start \in Nat /\ e.len \in Nat
      /\ \A i \in identifiers' : i.offset \in Nat
      /\ \A e, f \in FileSets' : e.start = f.start
  BY <1>1, <1>2, <1>4 DEF TagInv
<1>7. cur_spec_lba' \in 0 .. LbaMod - 1
  BY <1>4, <1>5, Zenon
<1>8. \A f \in FileSets' :
         /\ NextTag(f)'
         /\ \A e \in extents' : e.what \in {"fe", "fids"} => Tagged(e, f)'
         /\ \A i \in identifiers' : IdentifierTagged(i, f)'
  BY <1>1, <1>4, <1>5, Zenon DEF Tagged, BlockOf
<1> QED  BY <1>3, <1>4, <1>6, <1>7, <1>8 DEF TagInv
(* A region outside the partition, written by itself.                      *)
LEMMA NewOutside ==
  ASSUME NEW what, NEW node, NEW len, NEW tag, Write(what, node, len, tag),
         current_sector \in Nat, len \in Nat, what \notin InPart
  PROVE  /\ extents \subseteq extents'
         /\ \A e \in extents' : e \in extents \/
              /\ e.start \in Nat /\ e.len \in Nat
              /\ e.what \notin InPart
<1> DEFINE new == [what |-> what, node |-> node, len |-> len, tag |-> tag,
                   start |-> current_sector]
<1>1. extents' = extents \cup {new}
  BY DEF Write
<1>2. new.start \in Nat /\ new.len \in Nat /\ new.what \notin InPart
  OBVIOUS
<1> HIDE DEF new
<1> QED  BY <1>1, <1>2

(* Ahead of the partition, no step writes into it;                         *)
LEMMA AheadOfPartition ==
  ASSUME PlanInv, LoopInv, PositionInv,
         \/ WriteSystemArea \/ WriteVolumeDescriptors \/ WriteIntegrity
         \/ WriteAnchor \/ WritePathTables \/ ThrowPathTable
         \/ WriteDirectory \/ OverrunRecord
  PROVE  \A e \in extents' : e \in extents \/
           /\ e.start \in Nat /\ e.len \in Nat
           /\ e.what \notin InPart
<1>1. current_sector \in Nat
  BY DEF PositionInv
<1>2. CASE \/ WriteSystemArea \/ WriteVolumeDescriptors \/ WriteIntegrity
           \/ WritePathTables
  BY <1>1, <1>2, SystemAreaLaid, DescriptorsLaid, IntegrityLaid, TablesLaid
<1>3. CASE WriteAnchor
  <2>1. Write("anchor", Root, 1, NoTag) /\ "anchor" \notin InPart /\ 1 \in Nat
    BY <1>3 DEF WriteAnchor, InPart
  <2> QED  BY <1>1, <2>1, NewOutside
<1>4. CASE ThrowPathTable \/ OverrunRecord
  BY <1>4 DEF ThrowPathTable, OverrunRecord, image
<1>5. CASE WriteDirectory
  <2> DEFINE d == AllDirectories[at + 1]
             n == SectorsOf(WrittenRecordBytes(d))
  <2>1. step \notin PlanSteps /\ \A p \in Children(tree, d) : ~Overruns(p)
    BY <1>5 DEF WriteDirectory, PlanSteps
  <2>2. n \in Nat
    <3>1. IsTree(tree)
      BY PlanFacts
    <3> HIDE DEF d
    <3> QED  BY <2>1, <3>1, RecordsAsPlanned
  <2>3. Write("records", d, n, NoTag) /\ "records" \notin InPart
    BY <1>5 DEF WriteDirectory, InPart
  <2> HIDE DEF d, n
  <2> QED  BY <1>1, <2>2, <2>3, NewOutside
<1> QED  BY <1>2, <1>3, <1>4, <1>5

(* nor behind it.                                                          *)
LEMMA BehindPartition ==
  ASSUME PlanInv, PlacesInv, LoopInv, PositionInv,
         WriteFileData \/ WritePads \/ WriteEndOfSession
  PROVE  /\ extents \subseteq extents'
         /\ \A e \in extents' : e \in extents \/
              /\ e.start \in Nat /\ e.len \in Nat
              /\ e.what \notin InPart
<1>1. current_sector \in Nat
  BY DEF PositionInv
<1>2. CASE WriteFileData
  <2> DEFINE p == AllFiles[at + 1]
             n == tree[p].sectors
  <2>1. step \notin PlanSteps /\ at < Len(AllFiles)
    BY <1>2 DEF WriteFileData, PlanSteps
  <2>2. n \in Nat
    <3>1. /\ IsTree(tree) /\ AllFiles = FileOrder(tree)
          /\ at \in Nat /\ at < FileAmount(tree)
      BY <2>1, WriterFacts DEF LoopInv
    <3> QED  BY <3>1, DataAlong
  <2>3. Write("data", p, n, NoTag) /\ "data" \notin InPart
    BY <1>2 DEF WriteFileData, InPart
  <2> HIDE DEF p, n
  <2> QED  BY <1>1, <2>2, <2>3, NewOutside
<1>3. CASE WritePads
  <2>1. /\ Write("pad", Root, pad_sectors, NoTag) /\ "pad" \notin InPart
        /\ pad_sectors \in Nat
    BY <1>3, PlacesFacts DEF WritePads, InPart
  <2> QED  BY <1>1, <2>1, NewOutside
<1>4. CASE WriteEndOfSession
  <2>1. /\ Write("end_of_session", Root, 1, total_sectors - 1)
        /\ "end_of_session" \notin InPart /\ 1 \in Nat
    BY <1>4 DEF WriteEndOfSession, InPart
  <2> QED  BY <1>1, <2>1, NewOutside
<1> QED  BY <1>2, <1>3, <1>4

(* The tags count the blocks of the partition.                             *)
LEMMA TagInvStep ==
  ASSUME PlanInv, PlacesInv, LoopInv, IdentifiersInv, PositionInv, TagInv,
         [Next]_vars
  PROVE  TagInv'
<1>1. CASE Plan /\ UNCHANGED writerVars
  <2>1. /\ step \in PlanSteps /\ step' \in PlanSteps \cup {"header"}
        /\ cur_spec_lba' = cur_spec_lba /\ identifiers' = identifiers
        /\ extents' = extents
    BY <1>1 DEF writerVars, image, fidVars, Plan, SizeVolume, SortNodes,
      PlaceDirectory, SkipFile, StartFiles, PlaceFile, SkipDirectory, Planned,
      PlanSteps
  <2>2. step \notin FromIdentifiers /\ step' \notin FromIdentifiers
    BY <2>1 DEF PlanSteps, FromIdentifiers, FromRootEntry,
      FromDirectoryEntries, FromFileEntries, FromData, FromEnd
  <2> QED  BY <2>1, <2>2, TagsBefore
<1>2. CASE \/ WriteSystemArea \/ WriteVolumeDescriptors \/ WriteIntegrity
           \/ WriteAnchor \/ WritePathTables \/ ThrowPathTable
           \/ WriteDirectory \/ OverrunRecord
  <2>1. /\ step \in {"header", "volume_descriptors", "integrity", "anchor",
                     "path_tables", "directory"}
        /\ step' \in {"volume_descriptors", "integrity", "anchor",
                      "path_tables", "directory", "file_set", "terminated"}
        /\ cur_spec_lba' = cur_spec_lba /\ identifiers' = identifiers
    BY <1>2 DEF WriteSystemArea, WriteVolumeDescriptors, WriteIntegrity,
      WriteAnchor, WritePathTables, ThrowPathTable, WriteDirectory,
      OverrunRecord, GoOn, fidVars
  <2>2. step \notin FromIdentifiers /\ step' \notin FromIdentifiers
    BY <2>1 DEF FromIdentifiers, FromRootEntry,
      FromDirectoryEntries, FromFileEntries, FromData, FromEnd
  <2>3. \A e \in extents' : e \in extents \/
          /\ e.start \in Nat /\ e.len \in Nat
          /\ e.what \notin InPart
    BY <1>2, AheadOfPartition
  <2> QED  BY <2>1, <2>2, <2>3, TagsBefore
<1>3. CASE \/ WriteFileSet \/ StartIdentifiers \/ AddIdentifier
           \/ FlushIdentifiers
  BY <1>3, TagsFromFileSet, TagsFromParent, TagsOfIdentifiers, TagsFlushed
     DEF PositionInv
<1>4. CASE WriteRootEntry \/ WriteDirectoryEntry \/ WriteFileEntry
  <2>1. /\ step \in {"root_entry", "directory_entries", "file_entries"}
        /\ step' \in {"directory_entries", "file_entries"}
        /\ cur_spec_lba' = (cur_spec_lba + 1) % LbaMod
        /\ identifiers' = identifiers
    BY <1>4 DEF WriteRootEntry, WriteDirectoryEntry, WriteFileEntry,
      WriteEntry, GoOn, fidVars
  <2>2. \E p : Write("fe", p, 1, cur_spec_lba)
    BY <1>4 DEF WriteRootEntry, WriteDirectoryEntry, WriteFileEntry, WriteEntry
  <2>3. PICK p : Write("fe", p, 1, cur_spec_lba)
    BY <2>2
  <2> QED  BY <2>1, <2>3, TagsOfEntries DEF PositionInv
<1>5. CASE DirectoryEntriesDone
  <2>1. /\ step = "directory_entries" /\ step' = "file_entries"
        /\ extents' = extents /\ identifiers' = identifiers
        /\ cur_spec_lba' = cur_spec_lba /\ current_sector' = current_sector
    BY <1>5 DEF DirectoryEntriesDone, GoOn, writerVars, image, fidVars
  <2>2. step \in FromIdentifiers /\ step' \in FromIdentifiers
    BY <2>1 DEF FromIdentifiers, FromRootEntry, FromDirectoryEntries,
      FromFileEntries
  <2>3. FileSets' = FileSets
    BY <2>1 DEF FileSets
  <2>4. ASSUME NEW f \in FileSets
        PROVE  /\ NextTag(f)'
               /\ \A i \in identifiers : IdentifierTagged(i, f)'
    <3>1. NextTag(f) /\ \A i \in identifiers : IdentifierTagged(i, f)
      BY DEF TagInv
    <3> QED  BY <2>1, <3>1, Zenon DEF NextTag, IdentifierTagged, BlockOf
  <2> QED  BY <2>1, <2>2, <2>3, <2>4 DEF TagInv, Tagged, BlockOf
<1>6. CASE FileEntriesDone \/ WriteFileData \/ WritePads \/ WriteEndOfSession
  <2>1. /\ step \in {"file_entries", "data", "end"}
        /\ step' \in {"data", "end", "done"}
        /\ cur_spec_lba' = cur_spec_lba /\ identifiers' = identifiers
    BY <1>6 DEF FileEntriesDone, WriteFileData, WritePads, WriteEndOfSession,
      GoOn, writerVars, fidVars
  <2>2. step \in FromIdentifiers /\ step # "entries" /\ step' \in FromData
    BY <2>1 DEF FromIdentifiers, FromRootEntry, FromDirectoryEntries,
      FromFileEntries, FromData, FromEnd
  <2>3. /\ extents \subseteq extents'
        /\ \A e \in extents' : e \in extents \/
             /\ e.start \in Nat /\ e.len \in Nat
             /\ e.what \notin InPart
    <3>1. CASE FileEntriesDone
      BY <3>1 DEF FileEntriesDone, writerVars, image
    <3>2. CASE WriteFileData \/ WritePads \/ WriteEndOfSession
      BY <3>2, BehindPartition
    <3> QED  BY <1>6, <3>1, <3>2
  <2> QED  BY <2>1, <2>2, <2>3, TagsBehind
<1>7. CASE UNCHANGED vars
  <2>1. /\ tree' = tree /\ step' = step /\ at' = at /\ extents' = extents
        /\ identifiers' = identifiers /\ cur_spec_lba' = cur_spec_lba
        /\ current_sector' = current_sector /\ fi_root' = fi_root
        /\ needed_sectors' = needed_sectors
    BY <1>7 DEF vars, plannerVars, writerVars, image, fidVars
  <2>2. FileSets' = FileSets
    BY <2>1 DEF FileSets
  <2>3. ASSUME NEW f \in FileSets
        PROVE  /\ NextTag(f)'
               /\ \A i \in identifiers : IdentifierTagged(i, f)'
    <3>1. NextTag(f) /\ \A i \in identifiers : IdentifierTagged(i, f)
      BY DEF TagInv
    <3> QED  BY <2>1, <3>1, Zenon DEF NextTag, IdentifierTagged, BlockOf
  <2> QED  BY <2>1, <2>2, <2>3 DEF TagInv, Tagged, BlockOf
<1> QED
  BY <1>1, <1>2, <1>3, <1>4, <1>5, <1>6, <1>7 DEF Next, WriteSectors
(* The list of nodes is empty until it is sorted.                          *)
OrderInv == step \in {"size", "sort"} => order = <<>>

(* Only the sort fills it.                                                 *)
LEMMA OrderInvStep == OrderInv /\ [Next]_vars => OrderInv'
<1> SUFFICES ASSUME OrderInv, [Next]_vars PROVE OrderInv'
  OBVIOUS
<1>1. CASE Plan
  BY <1>1 DEF OrderInv, Plan, SizeVolume, SortNodes, PlaceDirectory, SkipFile,
    StartFiles, PlaceFile, SkipDirectory, Planned
<1>2. CASE WriteSectors
  <2>1. step' \notin PlanSteps
    BY <1>2, WriterKeepsPlan
  <2> QED  BY <2>1 DEF OrderInv, PlanSteps
<1>3. CASE UNCHANGED vars
  BY <1>3 DEF vars, plannerVars, OrderInv
<1> QED  BY <1>1, <1>2, <1>3 DEF Next

(* The writer's invariant: where its loops are, where it is in the image,  *)
(* and what it has put there, against the plan.                            *)
LEMMA WriterInvStep ==
  PlanInv /\ PlacesInv /\ WriterInv /\ [Next]_vars => WriterInv'
<1> SUFFICES ASSUME PlanInv, PlacesInv, WriterInv, [Next]_vars
             PROVE  WriterInv'
  OBVIOUS
<1>1. /\ LoopInv /\ IdentifiersInv /\ PositionInv /\ HeaderInv /\ RecordsInv
      /\ PartitionInv /\ PointersInv /\ TagInv
  BY DEF WriterInv
<1>2. LoopInv'
  BY <1>1, LoopInvStep
<1>3. IdentifiersInv'
  BY <1>1, <1>2, IdentifiersInvStep
<1>4. PositionInv'
  BY <1>1, PositionInvStep
<1>5. HeaderInv'
  BY <1>1, HeaderInvStep
<1>6. RecordsInv'
  BY <1>1, <1>2, RecordsInvStep
<1>7. PartitionInv'
  BY <1>1, <1>2, PartitionInvStep
<1>8. PointersInv'
  BY <1>1, PointersInvStep
<1>9. TagInv'
  BY <1>1, TagInvStep
<1> QED  BY <1>2, <1>3, <1>4, <1>5, <1>6, <1>7, <1>8, <1>9 DEF WriterInv

(* Every behaviour keeps the plan, the places it gives, and what the writer*)
(* makes of them.                                                          *)
AllInv == PlanInv /\ PlacesInv /\ OrderInv /\ WriterInv

(* It is inductive.                                                        *)
LEMMA AllInvHolds == Spec => []AllInv
<1>1. Init => AllInv
  <2>1. Init => OrderInv
    BY DEF Init, PlannerInit, OrderInv
  <2> QED
    BY <2>1, PlanInvInit, PlacesInvInit, LoopInvInit, IdentifiersInvInit,
       PositionInvInit, HeaderInvInit, RecordsInvInit, PartitionInvInit,
       PointersInvInit, TagInvInit DEF AllInv, WriterInv
<1>2. AllInv /\ [Next]_vars => AllInv'
  BY PlanInvStep, PlacesInvStep, OrderInvStep, WriterInvStep DEF AllInv
<1> QED  BY <1>1, <1>2, PTL DEF Spec
-----------------------------------------------------------------------------
(* The variables hold what their C++ types and the control flow allow, for *)
(* every set of trees.                                                     *)
LEMMA AllTyped == AllInv => TypeOK
<1> SUFFICES ASSUME AllInv PROVE TypeOK
  OBVIOUS
<1>1. PlanInv /\ PlacesInv /\ OrderInv /\ WriterInv
  BY DEF AllInv
<1>2. tree \in Trees /\ IsTree(tree)
  BY <1>1, PlanFacts
<1>3. order \in Seq(Entries(tree))
  <2>1. CASE step \in {"size", "sort"}
    <3>1. order = <<>>
      BY <1>1, <2>1 DEF OrderInv
    <3> QED  BY ONLY <3>1
  <2>2. CASE step \notin {"size", "sort"}
    <3>1. order = Sorted(tree)
      BY <1>1, <2>2 DEF PlanInv, Ordered
    <3> QED  BY <1>2, <3>1, SortedIsOrder
  <2> QED  BY <2>1, <2>2
<1>4. /\ global_sector \in [Entries(tree) -> Nat]
      /\ local_sector \in [Entries(tree) -> Nat]
      /\ lba \in [Entries(tree) -> Nat]
      /\ next_sector \in Nat /\ next_local \in Nat /\ next_lba \in Nat
      /\ data_sector \in Nat /\ partition_start_sector \in Nat
      /\ total_sectors \in Nat /\ pad_sectors \in Nat
  BY <1>1, PlacesFacts
<1>5. /\ entry \in Nat /\ needed_memory \in Nat /\ needed_sectors \in Nat
      /\ log_block_num \in Nat
      /\ ident_sizes \in [Directories(tree) -> Nat]
      /\ current_sector \in Nat /\ at \in Nat
  BY <1>1 DEF WriterInv, IdentifiersInv, PositionInv, LoopInv
<1>6. /\ cur_spec_lba \in 0 .. LbaMod - 1
      /\ \A e \in extents : e.start \in Nat /\ e.len \in Nat
  BY <1>1 DEF WriterInv, TagInv
<1>7. \A q \in pointers : q.sector \in Nat /\ q.target \in DOMAIN tree
  BY <1>1 DEF WriterInv, PointersInv, Right
<1> QED  BY <1>2, <1>3, <1>4, <1>5, <1>6, <1>7 DEF TypeOK

(* TypeOK: the variables hold what their types allow, for every set of     *)
(* trees.                                                                  *)
THEOREM TypeCorrect == Spec => []TypeOK
BY AllInvHolds, AllTyped, PTL
(* What the writer has done when it is done.                               *)
LEMMA AllWritten ==
  ASSUME AllInv, Written
  PROVE  /\ step \notin PlanSteps /\ IsTree(tree)
         /\ DirAmount(tree) \in Nat /\ FileAmount(tree) \in Nat
         /\ RecordsWritten = DirAmount(tree) + 1
         /\ IdsWritten = DirAmount(tree) + 1
         /\ DirectoryEntriesWritten = DirAmount(tree) + 1
         /\ FileEntriesWritten = FileAmount(tree)
         /\ FilesWritten = FileAmount(tree)
         /\ \A k \in 1 .. DirAmount(tree) : DirectoryPlanned(k)
         /\ \A k \in 1 .. FileAmount(tree) : FilePlanned(k)
<1>1. step = "done" /\ step \notin PlanSteps
  BY DEF Written, PlanSteps
<1>2. /\ RecordsWritten = DirAmount(tree) + 1
      /\ IdsWritten = DirAmount(tree) + 1
      /\ DirectoryEntriesWritten = DirAmount(tree) + 1
      /\ FileEntriesWritten = FileAmount(tree)
      /\ FilesWritten = FileAmount(tree)
  BY <1>1 DEF RecordsWritten, IdsWritten, DirectoryEntriesWritten,
    FileEntriesWritten, FilesWritten, FromEnd, FromData, FromFileEntries,
    FromDirectoryEntries, FromRootEntry, FromIdentifiers, FromFileSet
<1>3. /\ \A k \in 1 .. DirAmount(tree) : DirectoryPlanned(k)
      /\ \A k \in 1 .. FileAmount(tree) : FilePlanned(k)
  BY <1>1 DEF AllInv, PlacesInv, DirectoriesPlanned, FilesPlanned
<1>4. /\ IsTree(tree) /\ DirAmount(tree) \in Nat /\ FileAmount(tree) \in Nat
  BY <1>1, WriterFacts DEF AllInv
<1> QED  BY <1>1, <1>2, <1>3, <1>4

(* Every directory is one of the list, every file one of the other.        *)
LEMMA NodesListed ==
  ASSUME NEW t, IsTree(t), NEW p \in DOMAIN t
  PROVE  /\ p \in Directories(t) =>
              \E k \in 1 .. DirAmount(t) + 1 : DirOrder(t)[k] = p
         /\ p \in PlainFiles(t) =>
              \E k \in 1 .. FileAmount(t) : FileOrder(t)[k] = p
         /\ p \in Directories(t) \/ p \in PlainFiles(t)
<1>1. \A d \in Directories(t) :
        \E k \in 1 .. DirAmount(t) + 1 : DirOrder(t)[k] = d
  BY DirectoriesInOrder
<1>2. \A f \in PlainFiles(t) :
        \E k \in 1 .. FileAmount(t) : FileOrder(t)[k] = f
  BY FilesInOrder
<1>3. p \in Directories(t) \/ p \in PlainFiles(t)
  BY DEF PlainFiles
<1> QED  BY ONLY <1>1, <1>2, <1>3

(* The planner's place for the k-th directory, in the terms of the writer. *)
LEMMA DirectoryPlace ==
  ASSUME AllInv, Written, NEW k \in 1 .. DirAmount(tree) + 1
  PROVE  LET d == DirOrder(tree)[k]
         IN  /\ EntryBlock(d) = 2 + FileIdentifiersAmount(tree) + (k - 1)
             /\ RecordSectors(tree, Root) = 1 =>
                  RecordsLocation(d) = DirRecordsStart + RecordsTo(tree, k - 1)
<1> DEFINE d == DirOrder(tree)[k]
           F == FileIdentifiersAmount(tree)
<1>1. /\ IsTree(tree) /\ DirAmount(tree) \in Nat /\ F \in Nat
      /\ \A i \in 1 .. DirAmount(tree) : DirectoryPlanned(i)
      /\ RecordsTo(tree, 0) = 0
  BY AllWritten, PlanSums DEF AllInv
<1>2. /\ DirOrder(tree)[1] = Root
      /\ \A i \in 1 .. DirAmount(tree) :
           DirOrder(tree)[i + 1] \in Directories(tree) \ {Root}
  BY <1>1, DirectoriesInOrder
<1>3. CASE k = 1
  <2>1. d = Root /\ k - 1 = 0
    BY <1>2, <1>3
  <2>2. EntryBlock(d) = 2 + F + (k - 1)
    BY <1>1, <2>1 DEF EntryBlock
  <2>3. RecordsLocation(d) = DirRecordsStart + RecordsTo(tree, k - 1)
    BY <1>1, <2>1 DEF RecordsLocation, DirRecordsStart
  <2> QED  BY <2>2, <2>3
<1>4. CASE k # 1
  <2> DEFINE i == k - 1
  <2>1. i \in 1 .. DirAmount(tree) /\ i + 1 = k /\ i \in Nat
    BY <1>1, <1>4
  <2> HIDE DEF i
  <2>2. d # Root
    BY <1>2, <2>1
  <2>3. /\ global_sector[d] = DirRecordsStart + 1
                              + (RecordsTo(tree, i) - RecordSectors(tree, Root))
        /\ lba[d] = 3 + F + (i - 1)
    BY <1>1, <2>1 DEF DirectoryPlanned
  <2>4. RecordsTo(tree, i) \in Nat
    BY <1>1, <2>1, RecordsAlong
  <2>5. EntryBlock(d) = 2 + F + i
    BY <1>1, <2>1, <2>2, <2>3 DEF EntryBlock
  <2>6. RecordSectors(tree, Root) = 1 =>
          RecordsLocation(d) = DirRecordsStart + RecordsTo(tree, i)
    BY <2>2, <2>3, <2>4 DEF RecordsLocation, DirRecordsStart
  <2> QED  BY <2>5, <2>6 DEF i
<1> QED  BY <1>3, <1>4

(* and for the k-th file.                                                  *)
LEMMA FilePlace ==
  ASSUME AllInv, Written, NEW k \in 1 .. FileAmount(tree)
  PROVE  LET p == FileOrder(tree)[k]
         IN  /\ EntryBlock(p)
                  = 2 + FileIdentifiersAmount(tree) + (DirAmount(tree) + 1) + (k - 1)
             /\ global_sector[p] = data_sector + DataTo(tree, k - 1)
<1> DEFINE p == FileOrder(tree)[k]
<1>1. IsTree(tree) /\ FilePlanned(k)
  BY AllWritten
<1>2. p # Root
  <2>1. p \in PlainFiles(tree)
    BY <1>1, FilesInOrder
  <2> QED  BY <1>1, <2>1 DEF PlainFiles, Directories, IsTree
<1> QED  BY <1>1, <1>2 DEF FilePlanned, EntryBlock
-----------------------------------------------------------------------------
(* What there is resolves a pointer to it.                                 *)
LEMMA HasResolves ==
  ASSUME NEW q, Has(q.to, q.target, q.sector)
  PROVE  Resolves(q)
BY DEF Has, Resolves

(* Every directory is where the path tables, the records and "." and ".."  *)
(* say.                                                                    *)
LEMMA RecordsFound == AllInv => DirectoriesPlaced
<1> SUFFICES ASSUME AllInv, Written, RootFits,
                    NEW q \in pointers, q.to = "records"
             PROVE  Resolves(q)
  BY DEF DirectoriesPlaced
<1>1. q.target \in Directories(tree) /\ q.sector = RecordsLocation(q.target)
  BY DEF AllInv, WriterInv, PointersInv, Right
<1>2. /\ IsTree(tree) /\ DirAmount(tree) \in Nat
      /\ RecordsWritten = DirAmount(tree) + 1
  BY AllWritten
<1>3. PICK k \in 1 .. DirAmount(tree) + 1 : DirOrder(tree)[k] = q.target
  BY <1>1, <1>2, NodesListed DEF Directories
<1>4. NamesFit /\ RecordSectors(tree, Root) = 1
  BY DEF RootFits
<1>5. Has("records", DirOrder(tree)[k],
          DirRecordsStart + RecordsTo(tree, k - 1))
  BY <1>2, <1>4 DEF AllInv, WriterInv, RecordsInv
<1>6. RecordsLocation(DirOrder(tree)[k])
        = DirRecordsStart + RecordsTo(tree, k - 1)
  BY <1>4, DirectoryPlace
<1>7. Has(q.to, q.target, q.sector)
  BY <1>1, <1>3, <1>5, <1>6
<1> QED  BY <1>7, HasResolves

(* DirectoriesPlaced, for every tree whose root records take one sector:   *)
(* the directory loop of write_sectors keeps to _fill_file_sectors.        *)
THEOREM DirectoriesAreFound == Spec => []DirectoriesPlaced
BY AllInvHolds, RecordsFound, PTL

(* Every file's data is where its record and its file entry say.           *)
LEMMA DataFound == AllInv => FileDataPlaced
<1> SUFFICES ASSUME AllInv, Written, NoExactFit,
                    NEW q \in pointers, q.to = "data"
             PROVE  Resolves(q)
  BY DEF FileDataPlaced
<1>1. q.target \in PlainFiles(tree) /\ q.sector = global_sector[q.target]
  BY DEF AllInv, WriterInv, PointersInv, Right
<1>2. IsTree(tree) /\ FilesWritten = FileAmount(tree)
  BY AllWritten
<1>3. PICK k \in 1 .. FileAmount(tree) : FileOrder(tree)[k] = q.target
  BY <1>1, <1>2, NodesListed DEF PlainFiles
<1>4. DataHere(k)
  BY <1>2 DEF AllInv, WriterInv, PartitionInv
<1>5. global_sector[FileOrder(tree)[k]] = data_sector + DataTo(tree, k - 1)
  BY FilePlace
<1>6. Has(q.to, q.target, q.sector)
  BY <1>1, <1>3, <1>4, <1>5 DEF DataHere
<1> QED  BY <1>6, HasResolves

(* FileDataPlaced, for every tree without an exact fit: write_file_tree    *)
(* keeps to the sectors planned for each file.                             *)
THEOREM FileDataIsFound == Spec => []FileDataPlaced
BY AllInvHolds, DataFound, PTL

(* Every file identifier and the file set lead to their file entry.        *)
LEMMA EntriesFound == AllInv => EntriesPlaced
<1> SUFFICES ASSUME AllInv, Written, NoExactFit,
                    NEW q \in pointers, q.to = "fe"
             PROVE  Resolves(q)
  BY DEF EntriesPlaced
<1>1. /\ q.target \in DOMAIN tree
      /\ q.sector = partition_start_sector + EntryBlock(q.target)
  BY DEF AllInv, WriterInv, PointersInv, Right
<1>2. /\ IsTree(tree)
      /\ DirectoryEntriesWritten = DirAmount(tree) + 1
      /\ FileEntriesWritten = FileAmount(tree)
  BY AllWritten
<1>3. CASE q.target \in Directories(tree)
  <2>1. PICK k \in 1 .. DirAmount(tree) + 1 : DirOrder(tree)[k] = q.target
    BY <1>1, <1>2, <1>3, NodesListed
  <2>2. DirectoryEntryHere(k)
    BY <1>2 DEF AllInv, WriterInv, PartitionInv
  <2>3. EntryBlock(DirOrder(tree)[k])
          = 2 + FileIdentifiersAmount(tree) + (k - 1)
    BY DirectoryPlace
  <2>4. Has(q.to, q.target, q.sector)
    BY <1>1, <2>1, <2>2, <2>3 DEF DirectoryEntryHere
  <2> QED  BY <2>4, HasResolves
<1>4. CASE q.target \in PlainFiles(tree)
  <2>1. PICK k \in 1 .. FileAmount(tree) : FileOrder(tree)[k] = q.target
    BY <1>1, <1>2, <1>4, NodesListed
  <2>2. FileEntryHere(k)
    BY <1>2 DEF AllInv, WriterInv, PartitionInv
  <2>3. EntryBlock(FileOrder(tree)[k])
          = 2 + FileIdentifiersAmount(tree) + (DirAmount(tree) + 1) + (k - 1)
    BY FilePlace
  <2>4. Has(q.to, q.target, q.sector)
    BY <1>1, <2>1, <2>2, <2>3 DEF FileEntryHere
  <2> QED  BY <2>4, HasResolves
<1> QED  BY <1>1, <1>2, <1>3, <1>4, NodesListed

(* EntriesPlaced, for every tree without an exact fit: the loops over file *)
(* entries keep to the blocks the planner gave.                            *)
THEOREM EntriesAreFound == Spec => []EntriesPlaced
BY AllInvHolds, EntriesFound, PTL

(* Every directory's file entry leads to its identifiers.                  *)
LEMMA IdentifiersFound == AllInv => IdentifiersPlaced
<1> SUFFICES ASSUME AllInv, Written, NoExactFit, RootIdsFit,
                    NEW q \in pointers, q.to = "fids"
             PROVE  Resolves(q)
  BY DEF IdentifiersPlaced
<1>1. /\ q.target \in Directories(tree)
      /\ \A k \in 1 .. DirAmount(tree) + 1 : DirOrder(tree)[k] = q.target =>
           q.sector = partition_start_sector + (2 + IdsTo(tree, k - 1))
  BY DEF AllInv, WriterInv, PointersInv, Right
<1>2. IsTree(tree) /\ IdsWritten = DirAmount(tree) + 1
  BY AllWritten
<1>3. PICK k \in 1 .. DirAmount(tree) + 1 : DirOrder(tree)[k] = q.target
  BY <1>1, <1>2, NodesListed DEF Directories
<1>4. IdsHere(k)
  BY <1>2 DEF AllInv, WriterInv, PartitionInv
<1>5. Has(q.to, q.target, q.sector)
  BY <1>1, <1>3, <1>4 DEF IdsHere
<1> QED  BY <1>5, HasResolves

(* IdentifiersPlaced, for every tree without an exact fit whose root       *)
(* identifiers take one block: the log_block_num of the directories' file  *)
(* entries keeps to the blocks their identifiers were written in.          *)
THEOREM IdentifiersAreFound == Spec => []IdentifiersPlaced
BY AllInvHolds, IdentifiersFound, PTL
(* The fixed part of the image is where the standards, and the descriptors *)
(* at either end of it, say.                                               *)
LEMMA HeaderFound == AllInv => HeaderPlaced
<1> SUFFICES ASSUME AllInv, Written PROVE HeaderPlaced
  BY DEF HeaderPlaced
<1>1. step = "done"
  BY DEF Written
<1>2. /\ step \in FromDescriptors /\ step \in FromIntegrity
      /\ step \in FromAnchor /\ step \in FromPathTables
      /\ step \in FromDirectory /\ step \in FromIdentifiers
  BY <1>1 DEF FromEnd, FromData, FromFileEntries, FromDirectoryEntries,
    FromRootEntry, FromIdentifiers, FromFileSet, FromDirectory,
    FromPathTables, FromAnchor, FromIntegrity, FromDescriptors
<1>3. /\ Has("iso_pvd", Root, 16) /\ Has("main_vds", Root, 32)
      /\ Has("reserve_vds", Root, 48) /\ Has("lvid", Root, 64)
      /\ Has("anchor", Root, 256)
      /\ Has("path_table_L", Root, 257) /\ Has("path_table_opt_L", Root, 258)
      /\ Has("path_table_M", Root, 259) /\ Has("path_table_opt_M", Root, 260)
      /\ NamesFit => Has("fsd", Root, partition_start_sector)
  BY <1>2 DEF AllInv, WriterInv, HeaderInv
<1>4. Has("records", Root, DirRecordsStart)
  <2>1. /\ IsTree(tree) /\ DirAmount(tree) \in Nat
        /\ RecordsWritten = DirAmount(tree) + 1 /\ RecordsTo(tree, 0) = 0
    BY AllWritten, PlanSums DEF AllInv
  <2>2. DirOrder(tree)[1] = Root
    BY <2>1, DirectoriesInOrder
  <2> DEFINE k == 1
  <2>3. k \in 1 .. RecordsWritten /\ k = 1 /\ k - 1 = 0
    BY <2>1
  <2> HIDE DEF k
  <2>4. Has("records", DirOrder(tree)[k],
            DirRecordsStart + RecordsTo(tree, k - 1))
    BY <2>3 DEF AllInv, WriterInv, RecordsInv
  <2> QED  BY <2>1, <2>2, <2>3, <2>4 DEF DirRecordsStart
<1>5. ASSUME NEW q \in pointers,
             q.from \in {"iso_pvd", "lvd", "anchor", "end_of_session"}
      PROVE  Resolves(q)
  <2>1. q.target = Root /\ <<q.to, q.sector>> \in FixedPlaces
    BY <1>5 DEF AllInv, WriterInv, PointersInv, Right
  <2>2. Has(q.to, Root, q.sector)
    BY <1>3, <1>4, <2>1 DEF FixedPlaces
  <2> QED  BY <2>1, <2>2, HasResolves
<1>6. /\ \E e \in extents : e.what = "iso_pvd" /\ e.start = 16
      /\ \E e \in extents : e.what = "anchor" /\ e.start = 256
      /\ NamesFit =>
           \E e \in extents : e.what = "fsd" /\ e.start = partition_start_sector
  BY <1>3 DEF Has
<1> QED  BY <1>5, <1>6 DEF HeaderPlaced

(* HeaderPlaced, for every tree: the hard-coded sectors of the descriptors *)
(* are the ones their targets are written in.                              *)
THEOREM HeaderIsFound == Spec => []HeaderPlaced
BY AllInvHolds, HeaderFound, PTL

(* The image is as long as its descriptors claim.                          *)
LEMMA VolumeSizeMet == AllInv => VolumeSizeHolds
<1> SUFFICES ASSUME AllInv, Written, NoExactFit, PadAssigned, NoWrap
             PROVE  total_sectors = current_sector /\ total_sectors % 16 = 0
  BY DEF VolumeSizeHolds
<1> DEFINE sum == SumFunction([p \in PlainFiles(tree) |-> tree[p].sectors])
           size == FilesSize(tree, SectorsMod)
           total == data_sector + size + 1
<1>1. step = "done" /\ step \notin PlanSteps
  BY DEF Written, PlanSteps
<1>2. /\ data_sector \in Nat /\ pad_sectors \in Nat /\ size \in Nat
      /\ IsTree(tree)
  BY <1>1, PlanSums, SizesAreNat, PlanFacts DEF AllInv
<1>3. size = sum
  <2>1. sum < SectorsMod
    BY DEF NoWrap
  <2>2. DataTo(tree, FileAmount(tree)) = sum
    BY <1>2, PartsMakeTheWhole
  <2>3. size = sum % SectorsMod
    BY DEF FilesSize
  <2>4. sum \in Nat
    <3>1. IsFiniteSet(PlainFiles(tree))
      BY <1>2, FS_Subset DEF PlainFiles, IsTree
    <3>2. [p \in PlainFiles(tree) |-> tree[p].sectors]
            \in [PlainFiles(tree) -> Nat]
      BY <1>2 DEF PlainFiles, IsTree, Attributes
    <3> QED  BY <3>1, <3>2, SumIsNat
  <2> HIDE DEF sum, size
  <2> QED  BY <2>1, <2>3, <2>4, PlannerAssumption
<1>4. current_sector = data_sector + sum + pad_sectors + 1
  <2>1. current_sector
          = data_sector + DataTo(tree, FileAmount(tree)) + pad_sectors + 1
    BY <1>1 DEF AllInv, WriterInv, PositionInv
  <2>2. DataTo(tree, FileAmount(tree)) = sum
    BY <1>2, PartsMakeTheWhole
  <2> QED  BY <2>1, <2>2
<1>5. total % 16 # 0
  BY DEF PadAssigned
<1>6. /\ total_sectors = total + (16 - (total % 16))
      /\ pad_sectors = 16 - (total % 16)
  BY <1>1, <1>5 DEF AllInv, PlacesInv, VolumeSized, PlanSteps
<1>7. total \in Nat /\ total = data_sector + size + 1
  BY <1>2
<1> HIDE DEF sum, size, total
<1>8. total_sectors = current_sector
  BY <1>2, <1>3, <1>4, <1>6, <1>7
<1>9. (total + (16 - (total % 16))) % 16 = 0
  <2>1. \A n \in Nat : (n + (16 - (n % 16))) % 16 = 0
    BY SMT
  <2> QED  BY ONLY <1>7, <2>1, Zenon
<1> QED  BY <1>6, <1>8, <1>9

(* VolumeSizeHolds: the size the planner computed before a byte was        *)
(* written is the size write_sectors ends with, for every tree without an  *)
(* exact fit whose volume is padded and does not wrap.                     *)
THEOREM VolumeSizeIsMet == Spec => []VolumeSizeHolds
BY AllInvHolds, VolumeSizeMet, PTL

(* Every tag location is the block its descriptor is in.                   *)
LEMMA TagsCount == AllInv => TagsPlaced
<1> SUFFICES ASSUME AllInv PROVE TagsPlaced
  OBVIOUS
<1>1. TagInv
  BY DEF AllInv, WriterInv
<1> DEFINE f == CHOOSE e \in extents : e.what = "fsd"
<1>2. FileSets # {} => f \in FileSets
  BY DEF FileSets
<1>3. FileSetStart = f.start
  BY DEF FileSetStart
<1> HIDE DEF f
<1>4. ASSUME NEW e \in extents, e.what \in {"fe", "fids"}
      PROVE  e.tag = (e.start - FileSetStart) % LbaMod
  <2>1. step \in FromIdentifiers
    BY <1>1, <1>4 DEF TagInv, InPart
  <2>2. f \in FileSets
    BY <1>1, <1>2, <2>1 DEF TagInv
  <2> QED  BY <1>1, <1>3, <1>4, <2>2 DEF TagInv, Tagged, BlockOf
<1>5. ASSUME Written, NEW i \in identifiers
      PROVE  \E e \in extents :
               /\ e.what = "fids" /\ e.node = i.dir
               /\ i.tag
                    = (e.start - FileSetStart + (i.offset \div Sector)) % LbaMod
  <2>1. step = "done" /\ step \in FromIdentifiers
    BY <1>5 DEF Written, FromIdentifiers, FromRootEntry, FromDirectoryEntries,
      FromFileEntries, FromData, FromEnd
  <2>2. f \in FileSets /\ f.start \in Nat
    BY <1>1, <1>2, <2>1 DEF TagInv, FileSets
  <2>3. IdentifierTagged(i, f)
    BY <1>1, <2>2 DEF TagInv
  <2>4. PICK e \in extents :
          /\ e.what = "fids" /\ e.node = i.dir
          /\ i.tag = BlockOf(f, e.start + (i.offset \div Sector))
    BY <2>1, <2>3 DEF IdentifierTagged
  <2>5. e.start \in Nat /\ i.offset \in Nat
    BY <1>1 DEF TagInv
  <2> DEFINE b == i.offset \div Sector
  <2>6. b \in Nat
    BY <2>5 DEF Sector
  <2>7. i.tag = BlockOf(f, e.start + b)
    BY <2>4, Zenon DEF b
  <2> HIDE DEF b
  <2>8. i.tag = ((e.start + b) - f.start) % LbaMod
    BY <2>7, Zenon DEF BlockOf
  <2>9. (e.start + b) - f.start = e.start - f.start + b
    BY <2>2, <2>5, <2>6
  <2>10. i.tag = (e.start - FileSetStart + b) % LbaMod
    BY <1>3, <2>8, <2>9, Zenon
  <2>11. i.tag = (e.start - FileSetStart + (i.offset \div Sector)) % LbaMod
    BY <2>10, Zenon DEF b
  <2> WITNESS e \in extents
  <2> QED  BY <2>4, <2>11, Zenon
<1> QED  BY <1>4, <1>5 DEF TagsPlaced

(* TagsPlaced, for every tree: the increments of cur_spec_lba keep up with *)
(* those of current_sector.                                                *)
THEOREM TagsCountBlocks == Spec => []TagsPlaced
BY AllInvHolds, TagsCount, PTL
=============================================================================
