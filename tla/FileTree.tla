------------------------------ MODULE FileTree ------------------------------
(***************************************************************************)
(* The directory tree that Directory::get_files builds (Directory.h,       *)
(* Directory.cpp) and the sizes that are computed from it.                 *)
(*                                                                         *)
(* A node is the path of readdir positions that leads to it: <<>> is the   *)
(* root, Append(d, i) the i-th entry listed in directory d.  A tree maps   *)
(* each node to                                                            *)
(*   dir      whether it is a directory,                                   *)
(*   rank     the place of its name among its siblings' in strcmp order,   *)
(*   upper    the same for the names in upper case: two siblings whose     *)
(*            names differ in case only have the same,                       *)
(*   len      the length of its name in bytes,                             *)
(*   sectors  for a file, its size in whole sectors.                       *)
(* Sizes in bytes are kept for names and records, whose arithmetic decides *)
(* the layout; of a file's size only the sectors it occupies matter to it. *)
(* The sorts split paths at / and at \ alike: names with a \ in them are   *)
(* outside the model.                                                      *)
(***************************************************************************)
EXTENDS Integers, Sequences, FiniteSets, Functions

Sector == 2048

Root == <<>>

Parent(p) == SubSeq(p, 1, Len(p) - 1)

(* A name has at most as many bytes as a dirent holds.                     *)
NameMax == 255

Attributes ==
  [dir: BOOLEAN, rank: Nat, upper: Nat, len: 1 .. NameMax, sectors: Nat]

Prefix(p, k) == SubSeq(p, 1, k)

(* Every entry is in a directory, entries are numbered without gaps, and   *)
(* names differ within a directory.                                        *)
IsTree(t) ==
  /\ IsFiniteSet(DOMAIN t)
  /\ Root \in DOMAIN t /\ t[Root].dir
  /\ \A p \in DOMAIN t : p \in Seq(Nat \ {0}) /\ t[p] \in Attributes
  /\ \A p \in DOMAIN t : \A k \in 0 .. Len(p) - 1 :
       Prefix(p, k) \in DOMAIN t /\ t[Prefix(p, k)].dir
  /\ \A p \in DOMAIN t \ {Root} :
       /\ p[Len(p)] > 1 => [p EXCEPT ![Len(p)] = @ - 1] \in DOMAIN t
       /\ \A q \in DOMAIN t \ {Root, p} :
            Parent(p) = Parent(q) => t[p].rank # t[q].rank

Entries(t) == DOMAIN t \ {Root}
Directories(t) == {p \in DOMAIN t : t[p].dir}
PlainFiles(t) == DOMAIN t \ Directories(t)
Children(t, d) == {p \in Entries(t) : Parent(p) = d}

(* get_dir_amount, get_file_amount: the root is not counted.               *)
DirAmount(t) == Cardinality(Directories(t) \ {Root})
FileAmount(t) == Cardinality(PlainFiles(t))

SectorsOf(bytes) == (bytes + Sector - 1) \div Sector

(* An ISO directory record: even-sized name, ";1" behind a file's name.    *)
RecordLen(t, p) ==
  48 + t[p].len - (t[p].len % 2) + (IF t[p].dir THEN 0 ELSE 2)

(* A directory's records, "." and ".." first, as the planner sums them.    *)
RecordBytes(t, d) ==
  96 + SumFunction([p \in Children(t, d) |-> RecordLen(t, p)])

RecordSectors(t, d) == SectorsOf(RecordBytes(t, d))

DirectoryRecordsAmount(t) ==
  SumFunction([d \in Directories(t) |-> RecordSectors(t, d)])

(* A UDF file identifier: 40 bytes with a one-byte name field, which the   *)
(* compression id and two bytes per character, in pairs, replace.          *)
FidBase == 40
FidLen(t, p) == FidBase - 1 + (2 * t[p].len + 1) + 2 * (t[p].len % 2)

FidBytes(t, d) ==
  FidBase + SumFunction([p \in Children(t, d) |-> FidLen(t, p)])

FidSectors(t, d) == SectorsOf(FidBytes(t, d))

FileIdentifiersAmount(t) ==
  SumFunction([d \in Directories(t) |-> FidSectors(t, d)])

(* get_files_size in sectors: an unsigned int of bytes, each file padded to*)
(* a whole number of sectors.                                              *)
FilesSize(t, sectorsMod) ==
  SumFunction([p \in PlainFiles(t) |-> t[p].sectors]) % sectorsMod

PathTableSize(t) ==
  10 + SumFunction([d \in Directories(t) \ {Root} |->
                      8 + t[d].len + (t[d].len % 2)])

(* The order of SectorManager::_fill_file_sectors: by depth, then by the   *)
(* names along the path.                                                   *)
RankAt(t, p, k) == t[Prefix(p, k)].rank

Before(t, p, q) ==
  \/ Len(p) < Len(q)
  \/ /\ Len(p) = Len(q)
     /\ \E k \in 1 .. Len(p) :
          /\ RankAt(t, p, k) < RankAt(t, q, k)
          /\ \A j \in 1 .. k - 1 : RankAt(t, p, j) = RankAt(t, q, j)

Place(t, p) == Cardinality({q \in Entries(t) : Before(t, q, p)})

Sorted(t) ==
  [i \in 1 .. Cardinality(Entries(t)) |->
     CHOOSE p \in Entries(t) : Place(t, p) = i - 1]

(* The members of S among the first n elements of a list, in its order.    *)
Kept(s, S, n) ==
  LET kept[i \in 0 .. Len(s)] ==
        IF i = 0 THEN <<>>
        ELSE IF s[i] \in S THEN Append(kept[i - 1], s[i]) ELSE kept[i - 1]
  IN  kept[n]
=============================================================================
