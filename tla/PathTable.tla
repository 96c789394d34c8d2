----------------------------- MODULE PathTable -----------------------------
(***************************************************************************)
(* The ISO path table (get_path_table_size, _explore_tree, fill_path_table *)
(* of API.cpp): one entry per directory, by depth and then by the names    *)
(* along the path, with the number of its parent's entry.                  *)
(*                                                                         *)
(* The table is sorted by a comparison of its own, apart from the one that *)
(* placed the directories' records, and the parent numbers are handed out  *)
(* by position in the sorted list.                                         *)
(***************************************************************************)
EXTENDS FileTree

(* Fault: by path alone, so that a directory is followed by its own.       *)
EntryBeforeDeep(t, p, q) ==
  LET shorter == IF Len(p) < Len(q) THEN Len(p) ELSE Len(q)
      differ == {k \in 1 .. shorter : RankAt(t, p, k) # RankAt(t, q, k)}
  IN  \/ differ = {} /\ Len(p) < Len(q)
      \/ \E k \in differ : /\ \A j \in differ : k <= j
                           /\ RankAt(t, p, k) < RankAt(t, q, k)

(* The lambda of fill_path_table's std::sort.                              *)
EntryBefore(t, p, q) ==
  \/ Len(p) < Len(q)
  \/ /\ Len(p) = Len(q)
     /\ \E k \in 1 .. Len(p) :
          /\ RankAt(t, p, k) < RankAt(t, q, k)
          /\ \A j \in 1 .. k - 1 : RankAt(t, p, j) = RankAt(t, q, j)

SubDirectories(t) == Directories(t) \ {Root}

(* depths, sorted.                                                         *)
Depths(t) ==
  [i \in 1 .. DirAmount(t) |->
     CHOOSE d \in SubDirectories(t) :
       Cardinality({e \in SubDirectories(t) : EntryBefore(t, e, d)}) = i - 1]

(* Fault: the first directory of the list takes the root's number.         *)
ParIndexFromRoot(t, depths, d) ==
  IF Parent(d) = Root THEN 1
                      ELSE CHOOSE i \in DOMAIN depths : depths[i] = Parent(d)

(* par_index_map: 1 below the root; the i-th directory of the list gives   *)
(* its own i + 1.                                                          *)
ParIndex(t, depths, d) ==
  IF Parent(d) = Root
    THEN 1
    ELSE 1 + CHOOSE i \in DOMAIN depths : depths[i] = Parent(d)

(* Fault: the padding of odd names is left out.                            *)
EntryLenUnpadded(t, d) == IF d = Root THEN 10 ELSE 8 + t[d].len

(* The bytes of an entry: the name, padded to an even length, behind 8.    *)
EntryLen(t, d) == IF d = Root THEN 10 ELSE 8 + t[d].len + (t[d].len % 2)

(* The name written: in upper case, although the sort compares the original*)
(* ones; the root's is a byte 0.                                           *)
EntryName(t, d) == IF d = Root THEN 0 ELSE t[d].upper

TableEntry(t, sector, parent, d) ==
  [node |-> d, len |-> EntryLen(t, d), name |-> EntryName(t, d),
   sector |-> sector, parent |-> parent]

(* The table, for the sectors the planner gave the directories.            *)
FilledPathTable(t, rootSector, sectors) ==
  LET depths == Depths(t)
  IN  <<TableEntry(t, rootSector, 1, Root)>> \o
      [i \in DOMAIN depths |->
         TableEntry(t, sectors[depths[i]], ParIndex(t, depths, depths[i]),
                    depths[i])]
=============================================================================
