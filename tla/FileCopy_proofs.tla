-------------------------- MODULE FileCopy_proofs --------------------------
(***************************************************************************)
(* The enumeration and the copy of the files, for every source directory,  *)
(* every change to it and every sequence of calls: the enumeration lists   *)
(* every entry nobody changed, the buffer is large enough unless           *)
(* set_file_buffer raised its size after it was allocated, the image grows *)
(* by the sectors that were planned, and a file nobody changed is in it    *)
(* byte for byte.                                                          *)
(*                                                                         *)
(* UntouchedListed only speaks of the end.  EnumInv, behind it, says where *)
(* an entry is that is not listed yet: unread in an open directory, read   *)
(* but without its lstat, or in a directory about to be opened.            *)
(*                                                                         *)
(* OverrunOnlyIfRaised is not inductive: a turn of the loop reads as many  *)
(* bytes as write_file's parameter says, which was ::buffer_size when the  *)
(* file was opened, which is bounded by the buffer allocated before.       *)
(* SectorsAgree and UntouchedCopied speak of the files that are copied;    *)
(* SpaceInv and ContentInv say what they need of the one being copied.     *)
(***************************************************************************)
EXTENDS FileCopy, SumLemmas, SequenceTheorems, TLAPS

(* The enumeration: get_files and its calls of readdir and lstat.          *)
Entry == [path : Seq(Nat), kind : Kinds]
OpenDir == [path : Seq(Nat), unread : SUBSET Entry]

Levels == 1 .. Len(open_dirs)
Unread == UNION {open_dirs[i].unread : i \in Levels}

(* The entries readdir has returned or will, that lstat has not seen.      *)
Pending == Unread \cup (IF step = "lstat" THEN {entry} ELSE {})

(* The root, or a directory of the tree.                                   *)
InTree(p) == p = Root \/ (p \in DOMAIN listed /\ listed[p].directory)

EnumTypes ==
  /\ open_dirs \in Seq(OpenDir)
  /\ entry \in Entry
  /\ opening \in Seq(Nat)
  /\ touched \subseteq Seq(Nat)
  /\ \A p \in DOMAIN listed :
       /\ p \in Seq(Nat) \ {Root}
       /\ listed[p].directory \in BOOLEAN /\ listed[p].size \in Int
  /\ step \in {"readdir", "lstat"} => open_dirs # <<>>
  /\ step = "enum" \/ step \notin Enumerating => open_dirs = <<>>
  /\ step = "enum" => DOMAIN listed = {} /\ opening = Root

(* Each entry is read once, and the tree grows below its directories.      *)
PendingInv ==
  /\ \A i, j \in Levels :
       \A e \in open_dirs[i].unread, f \in open_dirs[j].unread :
         e.path = f.path => i = j /\ e = f
  /\ step = "lstat" => \A e \in Unread : e.path # entry.path
  /\ \A e \in Pending : /\ e.path \notin DOMAIN listed \cup {Root}
                        /\ InTree(Parent(e.path))
  /\ \A p \in DOMAIN listed : InTree(Parent(p))
  /\ step = "opendir" =>
       /\ InTree(opening)
       /\ \A p \in DOMAIN listed : Parent(p) # opening
       /\ \A e \in Pending : Parent(e.path) # opening

(* What is recorded of a path that still exists is what it is.             *)
KindInv ==
  /\ \A e \in Pending : e.path \in DOMAIN disk => disk[e.path].kind = e.kind
  /\ \A p \in DOMAIN listed : p \in DOMAIN disk =>
       /\ listed[p].directory = IsDirectory(disk[p].kind)
       /\ disk[p].kind = "socket" =>
            step = "terminated" \/ (step = "opendir" /\ opening = p)
       /\ Untouched(p) => listed[p].size = disk[p].size
  /\ touched = {} => /\ \A e \in Pending : e.path \in DOMAIN disk
                     /\ \A p \in DOMAIN listed : p \in DOMAIN disk

(* An entry nobody changed is in the tree, or on its way there, once its   *)
(* directory is in the tree.                                               *)
OnItsWay(p) ==
  \/ p \in DOMAIN listed
  \/ \E e \in Pending : e.path = p
  \/ step = "opendir" /\ opening = Parent(p)
  \/ step \in {"enum", "failed", "terminated"}

CompleteInv ==
  \A p \in DOMAIN disk \ {Root} :
    Untouched(p) /\ (Parent(p) = Root \/ Parent(p) \in DOMAIN listed)
      => OnItsWay(p)

EnumInv == IsDisk(disk) /\ EnumTypes /\ PendingInv /\ KindInv /\ CompleteInv

-----------------------------------------------------------------------------
(* The first k elements of a sequence.                                     *)
LEMMA FrontOf ==
  ASSUME NEW S, NEW s \in Seq(S), NEW k \in 0 .. Len(s)
  PROVE  /\ SubSeq(s, 1, k) \in Seq(S)
         /\ Len(SubSeq(s, 1, k)) = k
         /\ \A i \in 1 .. k : SubSeq(s, 1, k)[i] = s[i]
<1>1. Len(s) \in Nat /\ k \in Int /\ 1 \in Int
  OBVIOUS
<1>2. \A i \in 1 .. k : s[i] \in S
  BY <1>1
<1>3. /\ SubSeq(s, 1, k) \in Seq(S)
      /\ Len(SubSeq(s, 1, k)) = IF 1 <= k THEN k - 1 + 1 ELSE 0
      /\ \A i \in 1 .. k - 1 + 1 : SubSeq(s, 1, k)[i] = s[1 + i - 1]
  BY <1>1, <1>2, SubSeqProperties
<1> QED BY <1>1, <1>3

(* Paths.                                                                  *)
LEMMA ParentIsPath ==
  ASSUME NEW p \in Seq(Nat), p # Root
  PROVE  /\ Parent(p) \in Seq(Nat)
         /\ Len(p) \in Nat \ {0}
         /\ Len(Parent(p)) = Len(p) - 1
         /\ \A k \in 1 .. Len(p) - 1 : Parent(p)[k] = p[k]
<1>1. Len(p) \in Nat \ {0}
  BY EmptySeq DEF Root
<1>2. /\ SubSeq(p, 1, Len(p) - 1) \in Seq(Nat)
      /\ Len(SubSeq(p, 1, Len(p) - 1)) = Len(p) - 1
      /\ \A k \in 1 .. Len(p) - 1 : SubSeq(p, 1, Len(p) - 1)[k] = p[k]
  <2>1. Len(p) - 1 \in 0 .. Len(p)
    BY <1>1
  <2> QED BY <2>1, FrontOf
<1> QED BY <1>1, <1>2 DEF Parent

(* What a directory is below of, its entries are.                          *)
LEMMA BelowParent ==
  ASSUME NEW p \in Seq(Nat), NEW q \in Seq(Nat), q # Root, Below(p, Parent(q))
  PROVE  Below(p, q)
<1> DEFINE d == Parent(q)
<1>1. /\ d \in Seq(Nat) /\ Len(d) = Len(q) - 1 /\ Len(q) \in Nat
      /\ \A k \in 1 .. Len(q) - 1 : d[k] = q[k]
  BY ParentIsPath
<1>2. Len(p) \in Nat /\ Len(p) <= Len(d) /\ SubSeq(d, 1, Len(p)) = p
  BY DEF Below
<1> HIDE DEF d
<1>3. SubSeq(d, 1, Len(p)) = SubSeq(q, 1, Len(p))
  <2>1. Len(p) \in 0 .. Len(d) /\ Len(p) \in 0 .. Len(q)
    BY <1>1, <1>2
  <2>2. \A k \in 1 .. Len(p) : d[k] = q[k]
    BY <1>1, <2>1
  <2> DEFINE a == SubSeq(d, 1, Len(p))
             b == SubSeq(q, 1, Len(p))
  <2>3. /\ a \in Seq(Nat) /\ Len(a) = Len(p)
        /\ \A k \in 1 .. Len(p) : a[k] = d[k]
    BY <1>1, <2>1, FrontOf
  <2>4. /\ b \in Seq(Nat) /\ Len(b) = Len(p)
        /\ \A k \in 1 .. Len(p) : b[k] = q[k]
    BY <2>1, FrontOf
  <2> HIDE DEF a, b
  <2>5. a = b
    BY <2>2, <2>3, <2>4, SeqEqual
  <2> QED BY <2>5 DEF a, b
<1>4. Len(p) <= Len(q)
  BY <1>1, <1>2
<1> QED BY <1>2, <1>3, <1>4 DEF Below

(* A path is at or below itself.                                           *)
LEMMA BelowItself == ASSUME NEW p \in Seq(Nat) PROVE Below(p, p)
<1>1. Len(p) \in 0 .. Len(p) /\ Len(p) \in Nat
  OBVIOUS
<1> DEFINE a == SubSeq(p, 1, Len(p))
<1>2. /\ a \in Seq(Nat) /\ Len(a) = Len(p)
      /\ \A i \in 1 .. Len(p) : a[i] = p[i]
  BY <1>1, FrontOf
<1> HIDE DEF a
<1>3. a = p
  BY <1>1, <1>2, SeqEqual
<1> QED BY <1>1, <1>3 DEF Below, a

(* So an entry nobody changed is in a directory nobody changed.            *)
LEMMA ParentUntouched ==
  ASSUME touched \subseteq Seq(Nat), NEW p \in Seq(Nat), p # Root, Untouched(p)
  PROVE  Untouched(Parent(p))
BY BelowParent DEF Untouched

-----------------------------------------------------------------------------
(* The stack of open directories, step by step.                            *)
NewUnread ==
  {[path |-> q, kind |-> disk[q].kind] : q \in Children(opening)}

(* What opendir pushes,                                                    *)
LEMMA OpenPushes ==
  ASSUME IsDisk(disk), EnumTypes, OpenDirectory
  PROVE  /\ open_dirs' \in Seq(OpenDir)
         /\ Len(open_dirs) \in Nat
         /\ Len(open_dirs') = Len(open_dirs) + 1
         /\ open_dirs'[Len(open_dirs) + 1].unread = NewUnread
         /\ \A i \in Levels : open_dirs'[i] = open_dirs[i]
         /\ Unread' = Unread \cup NewUnread
<1> DEFINE new == [path |-> opening, unread |-> NewUnread]
<1>1. NewUnread \subseteq Entry
  BY DEF NewUnread, Children, IsDisk, Entry, Inode
<1>2. new \in OpenDir
  BY <1>1 DEF EnumTypes, OpenDir
<1>3. open_dirs' = Append(open_dirs, new) /\ open_dirs \in Seq(OpenDir)
  BY DEF OpenDirectory, NewUnread, EnumTypes
<1> HIDE DEF new
<1>4. /\ open_dirs' \in Seq(OpenDir)
      /\ Len(open_dirs) \in Nat
      /\ Len(open_dirs') = Len(open_dirs) + 1
      /\ open_dirs'[Len(open_dirs) + 1] = new
      /\ \A i \in 1 .. Len(open_dirs) : open_dirs'[i] = open_dirs[i]
  BY <1>2, <1>3
<1>5. Levels' = Levels \cup {Len(open_dirs) + 1}
  BY <1>4 DEF Levels
<1>6. new.unread = NewUnread
  BY DEF new
<1>7. Unread' = Unread \cup NewUnread
  BY <1>4, <1>5, <1>6 DEF Unread, Levels
<1> QED BY <1>4, <1>6, <1>7 DEF Levels

(* what readdir takes,                                                     *)
LEMMA ReadTakes ==
  ASSUME EnumTypes, ReadEntry
  PROVE  /\ open_dirs' \in Seq(OpenDir)
         /\ Len(open_dirs) \in Nat \ {0}
         /\ Levels' = Levels
         /\ entry' \in open_dirs[Len(open_dirs)].unread
         /\ open_dirs'[Len(open_dirs)].unread
              = open_dirs[Len(open_dirs)].unread \ {entry'}
         /\ \A i \in Levels :
              i # Len(open_dirs) => open_dirs'[i] = open_dirs[i]
         /\ entry' \in Unread
         /\ Unread \subseteq Unread' \cup {entry'}
         /\ Unread' \subseteq Unread
<1> DEFINE n == Len(open_dirs)
<1>1. open_dirs \in Seq(OpenDir) /\ open_dirs # <<>>
  BY DEF EnumTypes, ReadEntry
<1>2. n \in Nat \ {0}
  BY <1>1, EmptySeq
<1>3. /\ entry' \in open_dirs[n].unread
      /\ open_dirs' = [open_dirs EXCEPT ![n].unread = @ \ {entry'}]
  BY DEF ReadEntry, Innermost
<1>4. open_dirs[n] \in OpenDir /\ n \in DOMAIN open_dirs
  BY <1>1, <1>2
<1> DEFINE top == [open_dirs[n] EXCEPT !.unread = @ \ {entry'}]
<1>5. top \in OpenDir /\ top.unread = open_dirs[n].unread \ {entry'}
  BY <1>4 DEF OpenDir
<1>6. open_dirs' = [open_dirs EXCEPT ![n] = top]
  BY <1>3
<1> HIDE DEF top
<1>7. /\ open_dirs' \in Seq(OpenDir) /\ Len(open_dirs') = n
      /\ open_dirs'[n] = top
      /\ \A i \in 1 .. n : i # n => open_dirs'[i] = open_dirs[i]
  BY <1>1, <1>2, <1>4, <1>5, <1>6
<1>8. Levels' = Levels /\ n \in Levels
  BY <1>2, <1>7 DEF Levels
<1>9. entry' \in Unread
  BY <1>3, <1>8 DEF Unread
<1>10. /\ Unread \subseteq Unread' \cup {entry'}
       /\ Unread' \subseteq Unread
  <2>1. \A i \in Levels : /\ open_dirs'[i].unread \subseteq open_dirs[i].unread
                          /\ open_dirs[i].unread
                               \subseteq open_dirs'[i].unread \cup {entry'}
    BY <1>5, <1>7 DEF Levels
  <2> QED BY <1>8, <2>1 DEF Unread
<1> QED BY <1>2, <1>3, <1>5, <1>7, <1>8, <1>9, <1>10 DEF Levels

(* and what closedir pops.                                                 *)
LEMMA EndPops ==
  ASSUME EnumTypes, EndDirectory
  PROVE  /\ open_dirs' \in Seq(OpenDir)
         /\ Len(open_dirs) \in Nat \ {0}
         /\ Len(open_dirs') = Len(open_dirs) - 1
         /\ Levels' \subseteq Levels
         /\ \A i \in Levels' : open_dirs'[i] = open_dirs[i]
         /\ Unread' \subseteq Unread
         /\ Unread \subseteq Unread' \cup Innermost.unread
<1> DEFINE n == Len(open_dirs)
<1>1. open_dirs \in Seq(OpenDir) /\ open_dirs # <<>>
  BY DEF EnumTypes, EndDirectory
<1>2. n \in Nat \ {0}
  BY <1>1, EmptySeq
<1>3. open_dirs' = SubSeq(open_dirs, 1, n - 1)
  BY DEF EndDirectory
<1>4. /\ open_dirs' \in Seq(OpenDir) /\ Len(open_dirs') = n - 1
      /\ \A i \in 1 .. n - 1 : open_dirs'[i] = open_dirs[i]
  <2>1. n - 1 \in 0 .. Len(open_dirs)
    BY <1>2
  <2> QED BY <1>1, <1>3, <2>1, FrontOf
<1>5. Levels = Levels' \cup {n}
  BY <1>2, <1>4 DEF Levels
<1>6. \A i \in Levels' : open_dirs'[i] = open_dirs[i]
  BY <1>4 DEF Levels
<1>7. Unread = Unread' \cup Innermost.unread
  BY <1>5, <1>6 DEF Unread, Innermost
<1> QED BY <1>2, <1>4, <1>5, <1>6, <1>7

-----------------------------------------------------------------------------
(* Without open directories nothing is unread.                             *)
LEMMA NoLevels == ASSUME open_dirs = <<>> PROVE Unread = {}
<1>1. Len(open_dirs) = 0
  BY EmptySeq
<1>2. Levels = {}
  BY <1>1 DEF Levels
<1> QED BY <1>2 DEF Unread

(* The listing starts in the invariant.                                    *)
LEMMA EnumStart == EnumInit => EnumInv
<1> SUFFICES ASSUME EnumInit PROVE EnumInv
  OBVIOUS
<1>1. IsDisk(disk)
  BY EnumAssumption DEF EnumInit
<1>2. Unread = {} /\ Pending = {}
  BY NoLevels DEF EnumInit, Pending
<1>3. EnumTypes
  <2>1. open_dirs \in Seq(OpenDir) /\ opening \in Seq(Nat)
    BY EmptySeq DEF EnumInit, Root
  <2>2. entry \in Entry
    BY EmptySeq DEF EnumInit, NoEntry, Root, Entry, Kinds
  <2> QED BY <2>1, <2>2 DEF EnumInit, EnumTypes, Enumerating
<1>4. PendingInv
  <2>1. Levels = {}
    BY EmptySeq DEF EnumInit, Levels
  <2> QED BY <1>2, <2>1 DEF PendingInv, EnumInit
<1>5. KindInv
  BY <1>2 DEF KindInv, EnumInit
<1>6. CompleteInv
  BY DEF CompleteInv, OnItsWay, EnumInit
<1> QED BY <1>1, <1>3, <1>4, <1>5, <1>6 DEF EnumInv

(* The check of get_files.                                                 *)
LEMMA GetFilesKeeps == ASSUME EnumInv, GetFiles PROVE EnumInv'
<1> USE DEF source, enumVars
<1>1. /\ step = "enum" /\ step' \in {"opendir", "failed"}
      /\ UNCHANGED <<disk, touched, opening, open_dirs, entry, listed>>
      /\ open_dirs = <<>> /\ DOMAIN listed = {} /\ opening = Root
  BY DEF GetFiles, EnumInv, EnumTypes
<1>2. Unread = {} /\ Unread' = {}
  BY <1>1, NoLevels DEF Unread, Levels
<1>3. Pending' = {}
  BY <1>1, <1>2 DEF Pending
<1>4. EnumTypes'
  BY <1>1 DEF EnumInv, EnumTypes, Enumerating
<1>5. PendingInv'
  <2>1. Levels' = {}
    BY <1>1, EmptySeq DEF Levels
  <2> QED BY <1>1, <1>2, <1>3, <2>1 DEF PendingInv, InTree
<1>6. KindInv'
  BY <1>1, <1>3 DEF KindInv
<1>7. CompleteInv'
  BY <1>1 DEF CompleteInv, OnItsWay
<1> QED BY <1>1, <1>4, <1>5, <1>6, <1>7 DEF EnumInv

(* opendir.                                                                *)
LEMMA OpenDirectoryKeeps == ASSUME EnumInv, OpenDirectory PROVE EnumInv'
<1> USE DEF EnumInv
<1>1. /\ step = "opendir" /\ step' = "readdir"
      /\ UNCHANGED <<disk, touched, opening, entry, listed>>
      /\ opening \in DOMAIN disk /\ disk[opening].kind = "directory"
  BY DEF OpenDirectory, source, IsDirectoryOnDisk
<1>2. /\ open_dirs' \in Seq(OpenDir)
      /\ Len(open_dirs) \in Nat
      /\ Len(open_dirs') = Len(open_dirs) + 1
      /\ open_dirs'[Len(open_dirs) + 1].unread = NewUnread
      /\ \A i \in Levels : open_dirs'[i] = open_dirs[i]
      /\ Unread' = Unread \cup NewUnread
  BY OpenPushes
<1>3. Pending = Unread /\ Pending' = Unread \cup NewUnread
  BY <1>1, <1>2 DEF Pending
<1>4. ASSUME NEW e \in NewUnread
      PROVE  /\ e.path \in DOMAIN disk \ {Root}
             /\ Parent(e.path) = opening
             /\ e.kind = disk[e.path].kind
             /\ \A f \in NewUnread : f.path = e.path => f = e
             /\ e.path \notin DOMAIN listed
             /\ \A f \in Unread : f.path # e.path
  <2>1. \A f \in NewUnread : \E q \in Children(opening) :
                               f = [path |-> q, kind |-> disk[q].kind]
    BY DEF NewUnread
  <2>2. /\ e.path \in DOMAIN disk \ {Root}
        /\ Parent(e.path) = opening
        /\ e.kind = disk[e.path].kind
    BY <2>1 DEF Children
  <2>3. \A f \in NewUnread : f.path = e.path => f = e
    BY <2>1
  <2>4. e.path \notin DOMAIN listed /\ \A f \in Unread : f.path # e.path
    BY <1>1, <1>3, <2>2 DEF PendingInv
  <2> QED BY <2>2, <2>3, <2>4
<1>5. EnumTypes'
  <2>1. open_dirs' # <<>>
    BY <1>2, EmptySeq
  <2> QED BY <1>1, <1>2, <2>1 DEF EnumTypes, Enumerating
<1>6. PendingInv'
  <2> DEFINE n == Len(open_dirs) + 1
  <2>1. Levels' = Levels \cup {n} /\ n \notin Levels
    BY <1>2 DEF Levels
  <2>2. ASSUME NEW i \in Levels', NEW j \in Levels',
               NEW e \in open_dirs'[i].unread, NEW f \in open_dirs'[j].unread,
               e.path = f.path
        PROVE  i = j /\ e = f
    <3>1. \A k \in Levels : \A g \in open_dirs'[k].unread :
            g \in open_dirs[k].unread /\ g \in Unread
      BY <1>2 DEF Unread
    <3>2. CASE i \in Levels /\ j \in Levels
      BY <2>2, <3>1, <3>2 DEF PendingInv
    <3>3. CASE i = n /\ j = n
      BY <1>2, <1>4, <2>2, <3>3
    <3>4. CASE i \in Levels /\ j = n
      BY <1>2, <1>4, <2>2, <3>1, <3>4
    <3>5. CASE i = n /\ j \in Levels
      BY <1>2, <1>4, <2>2, <3>1, <3>5
    <3> QED BY <2>1, <3>2, <3>3, <3>4, <3>5
  <2>3. \A e \in Pending' : /\ e.path \notin DOMAIN listed' \cup {Root}
                            /\ InTree(Parent(e.path))'
    <3>1. InTree(opening)
      BY <1>1 DEF PendingInv
    <3>2. \A e \in Pending : /\ e.path \notin DOMAIN listed \cup {Root}
                             /\ InTree(Parent(e.path))
      BY DEF PendingInv
    <3>3. \A e \in NewUnread : /\ e.path \notin DOMAIN listed \cup {Root}
                               /\ InTree(Parent(e.path))
      BY <1>4, <3>1
    <3> QED BY <1>1, <1>3, <3>2, <3>3 DEF InTree
  <2>4. \A p \in DOMAIN listed' : InTree(Parent(p))'
    BY <1>1 DEF PendingInv, InTree
  <2> QED BY <1>1, <2>2, <2>3, <2>4 DEF PendingInv
<1>7. KindInv'
  <2>1. \A e \in Pending' : /\ e.path \in DOMAIN disk => disk[e.path].kind = e.kind
                            /\ touched = {} => e.path \in DOMAIN disk
    BY <1>3, <1>4 DEF KindInv
  <2>2. \A p \in DOMAIN listed : p \in DOMAIN disk => disk[p].kind # "socket"
    BY <1>1 DEF KindInv
  <2> QED BY <1>1, <2>1, <2>2 DEF KindInv, Untouched
<1>8. CompleteInv'
  <2> SUFFICES ASSUME NEW p \in DOMAIN disk \ {Root}, Untouched(p),
                      Parent(p) = Root \/ Parent(p) \in DOMAIN listed
               PROVE  OnItsWay(p)'
    BY <1>1 DEF CompleteInv, Untouched
  <2>1. OnItsWay(p)
    BY DEF CompleteInv
  <2>2. CASE Parent(p) = opening
    <3>1. [path |-> p, kind |-> disk[p].kind] \in NewUnread
      BY <2>2 DEF NewUnread, Children
    <3> QED BY <1>3, <3>1 DEF OnItsWay
  <2>3. CASE Parent(p) # opening
    BY <1>1, <1>3, <2>1, <2>3 DEF OnItsWay
  <2> QED BY <2>2, <2>3
<1> QED BY <1>1, <1>5, <1>6, <1>7, <1>8

(* readdir(NULL).                                                          *)
LEMMA OpenFailsKeeps == ASSUME EnumInv, OpenFails PROVE EnumInv'
<1> USE DEF EnumInv
<1>1. /\ step = "opendir" /\ step' = "terminated"
      /\ UNCHANGED <<disk, touched, opening, open_dirs, entry, listed>>
  BY DEF OpenFails, source, enumVars
<1>2. Levels' = Levels /\ Unread' = Unread /\ Pending' = Pending
  BY <1>1 DEF Levels, Unread, Pending
<1>3. EnumTypes'
  BY <1>1 DEF EnumTypes, Enumerating
<1>4. PendingInv'
  BY <1>1, <1>2 DEF PendingInv, InTree
<1>5. KindInv'
  BY <1>1, <1>2 DEF KindInv, Untouched
<1>6. CompleteInv'
  BY <1>1 DEF CompleteInv, OnItsWay
<1> QED BY <1>1, <1>3, <1>4, <1>5, <1>6

(* readdir.                                                                *)
LEMMA ReadEntryKeeps == ASSUME EnumInv, ReadEntry PROVE EnumInv'
<1> USE DEF EnumInv
<1> DEFINE n == Len(open_dirs)
<1>1. /\ step = "readdir" /\ step' = "lstat"
      /\ UNCHANGED <<disk, touched, opening, listed>>
  BY DEF ReadEntry, source
<1>2. /\ open_dirs' \in Seq(OpenDir)
      /\ n \in Nat \ {0}
      /\ Levels' = Levels
      /\ entry' \in open_dirs[n].unread
      /\ open_dirs'[n].unread = open_dirs[n].unread \ {entry'}
      /\ \A i \in Levels : i # n => open_dirs'[i] = open_dirs[i]
      /\ entry' \in Unread
      /\ Unread \subseteq Unread' \cup {entry'}
      /\ Unread' \subseteq Unread
  BY ReadTakes
<1>3. Pending = Unread /\ Pending' = Pending
  BY <1>1, <1>2 DEF Pending
<1>4. n \in Levels /\ \A i \in Levels : open_dirs[i] \in OpenDir
  BY <1>2 DEF Levels, EnumTypes
<1>5. EnumTypes'
  <2>1. entry' \in Entry
    BY <1>2, <1>4 DEF OpenDir
  <2>2. open_dirs' # <<>>
    <3>1. Levels' # {}
      BY <1>2, <1>4
    <3> QED BY <3>1, EmptySeq DEF Levels
  <2> QED BY <1>1, <1>2, <2>1, <2>2 DEF EnumTypes, Enumerating
<1>6. PendingInv'
  <2>1. \A i \in Levels : open_dirs'[i].unread \subseteq open_dirs[i].unread
    BY <1>2
  <2>2. ASSUME NEW i \in Levels, NEW j \in Levels,
               NEW e \in open_dirs[i].unread, NEW f \in open_dirs[j].unread,
               e.path = f.path
        PROVE  i = j /\ e = f
    BY <2>2 DEF PendingInv
  <2>3. \A e \in Unread' : e.path # entry'.path
    <3> SUFFICES ASSUME NEW i \in Levels, NEW e \in open_dirs'[i].unread,
                        e.path = entry'.path
                 PROVE  FALSE
      BY <1>2 DEF Unread
    <3>1. i = n /\ e = entry'
      BY <1>2, <1>4, <2>1, <2>2
    <3> QED BY <1>2, <3>1
  <2>4. \A i, j \in Levels' :
          \A e \in open_dirs'[i].unread, f \in open_dirs'[j].unread :
            e.path = f.path => i = j /\ e = f
    BY <1>2, <2>1, <2>2
  <2>5. \A e \in Pending' : /\ e.path \notin DOMAIN listed' \cup {Root}
                            /\ InTree(Parent(e.path))'
    BY <1>1, <1>3 DEF PendingInv, InTree
  <2>6. \A p \in DOMAIN listed' : InTree(Parent(p))'
    BY <1>1 DEF PendingInv, InTree
  <2> QED BY <1>1, <2>3, <2>4, <2>5, <2>6 DEF PendingInv
<1>7. KindInv'
  BY <1>1, <1>3 DEF KindInv, Untouched
<1>8. CompleteInv'
  BY <1>1, <1>3 DEF CompleteInv, OnItsWay, Untouched
<1> QED BY <1>1, <1>5, <1>6, <1>7, <1>8

(* lstat: the entry is put into the tree, and a directory's own entries are*)
(* on their way from then on.                                              *)
LEMMA StatEntryKeeps == ASSUME EnumInv, StatEntry PROVE EnumInv'
<1> USE DEF EnumInv
<1> DEFINE new == entry.path
<1>1. /\ step = "lstat" /\ step' \in {"opendir", "readdir"}
      /\ UNCHANGED <<disk, touched, open_dirs, entry>>
      /\ step' = "opendir" <=> IsDirectory(entry.kind)
      /\ opening' = IF step' = "opendir" THEN new ELSE opening
  BY DEF StatEntry, source
<1>2. PICK size \in IF new \in DOMAIN disk THEN {disk[new].size} ELSE Garbage :
        listed' = [p \in DOMAIN listed \cup {new} |->
                     IF p = new
                       THEN [directory |-> IsDirectory(entry.kind),
                             size |-> size]
                       ELSE listed[p]]
  BY DEF StatEntry
<1>3. /\ Unread' = Unread /\ Levels' = Levels
      /\ Pending = Unread \cup {entry} /\ Pending' = Unread
  BY <1>1 DEF Unread, Levels, Pending
<1>4. /\ new \in Seq(Nat) \ {Root} /\ new \notin DOMAIN listed
      /\ InTree(Parent(new))
      /\ \A e \in Unread : e.path # new
  BY <1>1, <1>3 DEF PendingInv, EnumTypes, Entry
<1>5. /\ DOMAIN listed' = DOMAIN listed \cup {new}
      /\ listed'[new].directory = IsDirectory(entry.kind)
      /\ listed'[new].size = size
      /\ \A p \in DOMAIN listed : listed'[p] = listed[p]
  BY <1>2, <1>4
<1>6. \A p : InTree(p) => p # new /\ InTree(p)'
  BY <1>4, <1>5 DEF InTree
<1>7. EnumTypes'
  <2>1. size \in Int
    <3>1. CASE new \in DOMAIN disk
      <4>1. disk[new] \in Inode
        BY <3>1 DEF IsDisk
      <4> QED BY <1>2, <3>1, <4>1 DEF Inode
    <3>2. CASE new \notin DOMAIN disk
      BY <1>2, <3>2, EnumAssumption
    <3> QED BY <3>1, <3>2
  <2>2. listed'[new].directory \in BOOLEAN
    BY <1>5 DEF IsDirectory
  <2>3. opening' \in Seq(Nat)
    BY <1>1, <1>4 DEF EnumTypes
  <2>4. \A p \in DOMAIN listed' :
          /\ p \in Seq(Nat) \ {Root}
          /\ listed'[p].directory \in BOOLEAN /\ listed'[p].size \in Int
    BY <1>4, <1>5, <2>1, <2>2 DEF EnumTypes
  <2>5. /\ open_dirs' \in Seq(OpenDir) /\ entry' \in Entry
        /\ touched' \subseteq Seq(Nat) /\ open_dirs' # <<>>
    BY <1>1 DEF EnumTypes
  <2> QED BY <1>1, <2>3, <2>4, <2>5 DEF EnumTypes, Enumerating
<1>8. PendingInv'
  <2>1. \A e \in Unread : /\ e.path \notin DOMAIN listed \cup {Root}
                          /\ InTree(Parent(e.path))
    BY <1>3 DEF PendingInv
  <2>2. \A e \in Pending' : /\ e.path \notin DOMAIN listed' \cup {Root}
                            /\ InTree(Parent(e.path))'
    BY <1>3, <1>4, <1>5, <1>6, <2>1
  <2>3. \A p \in DOMAIN listed' : Parent(p) # new /\ InTree(Parent(p))'
    BY <1>4, <1>5, <1>6 DEF PendingInv
  <2>4. step' = "opendir" => /\ opening' = new /\ InTree(new)'
                             /\ \A e \in Pending' : Parent(e.path) # new
    BY <1>1, <1>3, <1>5, <1>6, <2>1 DEF InTree
  <2>5. \A i, j \in Levels' :
          \A e \in open_dirs'[i].unread, f \in open_dirs'[j].unread :
            e.path = f.path => i = j /\ e = f
    BY <1>1, <1>3 DEF PendingInv
  <2> QED BY <1>1, <2>2, <2>3, <2>4, <2>5 DEF PendingInv
<1>9. KindInv'
  <2>1. \A e \in Pending' :
          /\ e.path \in DOMAIN disk => disk[e.path].kind = e.kind
          /\ touched = {} => e.path \in DOMAIN disk
    BY <1>3 DEF KindInv
  <2>2. ASSUME new \in DOMAIN disk
        PROVE  /\ listed'[new].directory = IsDirectory(disk[new].kind)
               /\ disk[new].kind = "socket" =>
                    step' = "opendir" /\ opening' = new
               /\ listed'[new].size = disk[new].size
    <3>1. disk[new].kind = entry.kind
      BY <1>3, <2>2 DEF KindInv
    <3> QED BY <1>1, <1>2, <1>5, <2>2, <3>1 DEF IsDirectory
  <2>3. ASSUME NEW p \in DOMAIN listed, p \in DOMAIN disk
        PROVE  /\ listed'[p].directory = IsDirectory(disk[p].kind)
               /\ disk[p].kind # "socket"
               /\ Untouched(p) => listed'[p].size = disk[p].size
    BY <1>1, <1>5, <2>3 DEF KindInv
  <2>4. touched = {} => \A p \in DOMAIN listed' : p \in DOMAIN disk
    BY <1>3, <1>5 DEF KindInv
  <2> QED BY <1>1, <1>5, <2>1, <2>2, <2>3, <2>4 DEF KindInv, Untouched
<1>10. CompleteInv'
  <2> SUFFICES ASSUME NEW p \in DOMAIN disk \ {Root}, Untouched(p),
                      Parent(p) = Root \/ Parent(p) \in DOMAIN listed'
               PROVE  OnItsWay(p)'
    BY <1>1 DEF CompleteInv, Untouched
  <2>1. CASE Parent(p) = Root \/ Parent(p) \in DOMAIN listed
    <3>1. OnItsWay(p)
      BY <2>1 DEF CompleteInv
    <3>2. p \in DOMAIN listed \/ \E e \in Unread \cup {entry} : e.path = p
      BY <1>1, <1>3, <3>1 DEF OnItsWay
    <3> QED BY <1>3, <1>5, <3>2 DEF OnItsWay
  <2>2. CASE Parent(p) = new
    <3>1. new \in DOMAIN disk /\ disk[new].kind = "directory"
      BY <2>2 DEF IsDisk
    <3>2. entry.kind = "directory"
      BY <1>3, <3>1 DEF KindInv
    <3> QED BY <1>1, <2>2, <3>2 DEF OnItsWay, IsDirectory
  <2> QED BY <1>5, <2>1, <2>2
<1> QED BY <1>1, <1>7, <1>8, <1>9, <1>10

(* closedir.                                                               *)
LEMMA EndDirectoryKeeps == ASSUME EnumInv, EndDirectory PROVE EnumInv'
<1> USE DEF EnumInv
<1>1. /\ step = "readdir" /\ step' \in {"readdir", "plan"}
      /\ UNCHANGED <<disk, touched, opening, entry, listed>>
      /\ \A e \in Innermost.unread : e.path \notin DOMAIN disk
      /\ step' = IF Len(open_dirs) > 1 THEN "readdir" ELSE "plan"
  BY DEF EndDirectory, source, AllRead
<1>2. /\ open_dirs' \in Seq(OpenDir)
      /\ Len(open_dirs) \in Nat \ {0}
      /\ Len(open_dirs') = Len(open_dirs) - 1
      /\ Levels' \subseteq Levels
      /\ \A i \in Levels' : open_dirs'[i] = open_dirs[i]
      /\ Unread' \subseteq Unread
      /\ Unread \subseteq Unread' \cup Innermost.unread
  BY EndPops
<1>3. Pending = Unread /\ Pending' = Unread'
  BY <1>1 DEF Pending
<1>4. EnumTypes'
  <2>1. step' = "readdir" => open_dirs' # <<>>
    <3>1. Len(open_dirs) > 1 => Len(open_dirs') # 0
      BY <1>2, SMTT(30)
    <3> QED BY <1>1, <3>1, EmptySeq
  <2>2. step' = "plan" => open_dirs' = <<>>
    <3>1. ~(Len(open_dirs) > 1) => Len(open_dirs') = 0
      BY <1>2
    <3> QED BY <1>1, <1>2, <3>1, EmptySeq
  <2>3. /\ open_dirs' \in Seq(OpenDir) /\ entry' \in Entry
        /\ opening' \in Seq(Nat) /\ touched' \subseteq Seq(Nat)
    BY <1>1, <1>2 DEF EnumTypes
  <2> QED BY <1>1, <2>1, <2>2, <2>3 DEF EnumTypes, Enumerating
<1>5. PendingInv'
  <2>1. \A i, j \in Levels' :
          \A e \in open_dirs'[i].unread, f \in open_dirs'[j].unread :
            e.path = f.path => i = j /\ e = f
    BY <1>2 DEF PendingInv
  <2>2. \A e \in Pending' : /\ e.path \notin DOMAIN listed' \cup {Root}
                            /\ InTree(Parent(e.path))'
    BY <1>1, <1>2, <1>3 DEF PendingInv, InTree
  <2>3. \A p \in DOMAIN listed' : InTree(Parent(p))'
    BY <1>1 DEF PendingInv, InTree
  <2> QED BY <1>1, <2>1, <2>2, <2>3 DEF PendingInv
<1>6. KindInv'
  BY <1>1, <1>2, <1>3 DEF KindInv, Untouched
<1>7. CompleteInv'
  <2> SUFFICES ASSUME NEW p \in DOMAIN disk \ {Root}, Untouched(p),
                      Parent(p) = Root \/ Parent(p) \in DOMAIN listed
               PROVE  OnItsWay(p)'
    BY <1>1 DEF CompleteInv, Untouched
  <2>1. p \in DOMAIN listed \/ \E e \in Unread : e.path = p
    BY <1>1, <1>3 DEF CompleteInv, OnItsWay
  <2> QED BY <1>1, <1>2, <1>3, <2>1 DEF OnItsWay
<1> QED BY <1>1, <1>4, <1>5, <1>6, <1>7

(* Every step of get_files.                                                *)
LEMMA EnumerateKeeps == ASSUME EnumInv, Enumerate PROVE EnumInv'
BY GetFilesKeeps, OpenDirectoryKeeps, OpenFailsKeeps, ReadEntryKeeps,
   StatEntryKeeps, EndDirectoryKeeps DEF Enumerate

-----------------------------------------------------------------------------
(* What the rest of pack does: it leaves the tree and the disk alone.      *)
LEMMA LaterStepsKeep ==
  ASSUME EnumInv, step \notin Enumerating,
         step' \notin Enumerating \/ step' = "terminated",
         UNCHANGED <<source, enumVars>>
  PROVE  EnumInv'
<1> USE DEF EnumInv, source, enumVars
<1>1. /\ UNCHANGED <<disk, touched, opening, open_dirs, entry, listed>>
      /\ step \notin {"lstat", "opendir", "readdir", "enum", "terminated",
                      "failed"}
      /\ step' \notin {"lstat", "opendir", "readdir", "enum", "failed"}
  BY DEF Enumerating
<1>2. Levels' = Levels /\ Unread' = Unread /\ Pending' = Pending
  BY <1>1 DEF Levels, Unread, Pending
<1>3. EnumTypes'
  BY <1>1 DEF EnumTypes
<1>4. PendingInv'
  BY <1>1, <1>2 DEF PendingInv, InTree
<1>5. KindInv'
  BY <1>1, <1>2 DEF KindInv, Untouched
<1>6. CompleteInv'
  BY <1>1, <1>2 DEF CompleteInv, OnItsWay, Untouched
<1> QED BY <1>1, <1>3, <1>4, <1>5, <1>6

(* What other programs do.  `gone` is what is no longer there or no longer *)
(* what it was; what is left is as it was and in directories that are left.*)
LEMMA ChangeKeeps ==
  ASSUME EnumInv, UNCHANGED <<step, enumVars>>,
         NEW q \in Seq(Nat), touched' = touched \cup {q},
         IsDisk(disk'), DOMAIN disk' \subseteq DOMAIN disk,
         \A p \in DOMAIN disk' : disk'[p].kind = disk[p].kind,
         \A p \in DOMAIN disk' : ~Below(q, p) => disk'[p] = disk[p]
  PROVE  EnumInv'
<1> USE DEF EnumInv, enumVars
<1>1. UNCHANGED <<step, opening, open_dirs, entry, listed>>
  OBVIOUS
<1>2. Levels' = Levels /\ Unread' = Unread /\ Pending' = Pending
  BY <1>1 DEF Levels, Unread, Pending
<1>3. touched' # {} /\ \A p : Untouched(p)' => Untouched(p) /\ ~Below(q, p)
  BY DEF Untouched
<1>4. EnumTypes'
  BY <1>1 DEF EnumTypes
<1>5. PendingInv'
  BY <1>1, <1>2 DEF PendingInv, InTree
<1>6. KindInv'
  <2>1. \A e \in Pending' :
          e.path \in DOMAIN disk' => disk'[e.path].kind = e.kind
    BY <1>2 DEF KindInv
  <2>2. \A p \in DOMAIN listed : p \in DOMAIN disk' =>
          /\ listed[p].directory = IsDirectory(disk'[p].kind)
          /\ disk'[p].kind = "socket" =>
               step = "terminated" \/ (step = "opendir" /\ opening = p)
          /\ Untouched(p)' => listed[p].size = disk'[p].size
    BY <1>3 DEF KindInv
  <2> QED BY <1>1, <1>3, <2>1, <2>2 DEF KindInv
<1>7. CompleteInv'
  <2> SUFFICES ASSUME NEW p \in DOMAIN disk' \ {Root}, Untouched(p)',
                      Parent(p) = Root \/ Parent(p) \in DOMAIN listed
               PROVE  OnItsWay(p)'
    BY <1>1 DEF CompleteInv
  <2>1. OnItsWay(p)
    BY <1>3 DEF CompleteInv
  <2> QED BY <1>1, <1>2, <2>1 DEF OnItsWay
<1> QED BY <1>4, <1>5, <1>6, <1>7

(* A path that is removed, with what is below it.                          *)
LEMMA RemoveKeeps ==
  ASSUME EnumInv, NEW q \in DOMAIN disk, Remove(q), UNCHANGED <<step, enumVars>>
  PROVE  EnumInv'
<1>1. /\ touched' = touched \cup {q}
      /\ disk' = [p \in {p \in DOMAIN disk : ~Below(q, p)} |-> disk[p]]
  BY DEF Remove, Change
<1>2. q \in Seq(Nat) /\ IsDisk(disk)
  BY DEF EnumInv, IsDisk
<1>3. /\ DOMAIN disk' = {p \in DOMAIN disk : ~Below(q, p)}
      /\ \A p \in DOMAIN disk' : disk'[p] = disk[p]
  BY <1>1
<1>4. IsDisk(disk')
  <2>1. ASSUME NEW p \in DOMAIN disk' \ {Root}
        PROVE  Parent(p) \in DOMAIN disk' /\ disk'[Parent(p)].kind = "directory"
    <3>1. /\ p \in Seq(Nat) /\ Parent(p) \in DOMAIN disk
          /\ disk[Parent(p)].kind = "directory"
      BY <1>2, <1>3 DEF IsDisk
    <3>2. ~Below(q, Parent(p))
      BY <1>2, <1>3, <3>1, BelowParent
    <3> QED BY <1>3, <3>1, <3>2
  <2> QED BY <1>2, <1>3, <2>1 DEF IsDisk
<1> QED BY <1>1, <1>2, <1>3, <1>4, ChangeKeeps

(* A file that is written again.                                           *)
LEMMA RewriteKeeps ==
  ASSUME EnumInv, NEW q \in DOMAIN disk, NEW size \in Sizes, Rewrite(q, size),
         changes \in Nat, UNCHANGED <<step, enumVars>>
  PROVE  EnumInv'
<1> DEFINE new == [kind |-> "file", size |-> size, data |-> size,
                   version |-> changes + 1]
<1>1. /\ touched' = touched \cup {q}
      /\ disk' = [disk EXCEPT ![q] = new]
      /\ disk[q].kind = "file"
  BY DEF Rewrite, Change
<1>2. q \in Seq(Nat) /\ IsDisk(disk)
  BY DEF EnumInv, IsDisk
<1>3. new \in Inode /\ new.kind = "file" /\ new.data = new.size
  BY EnumAssumption DEF Inode, Kinds
<1> HIDE DEF new
<1>4. /\ DOMAIN disk' = DOMAIN disk
      /\ disk'[q] = new
      /\ \A p \in DOMAIN disk : p # q => disk'[p] = disk[p]
      /\ \A p \in DOMAIN disk : disk'[p].kind = disk[p].kind
  BY <1>1, <1>3
<1>5. IsDisk(disk')
  BY <1>2, <1>3, <1>4 DEF IsDisk
<1>6. Below(q, q)
  BY <1>2, BelowItself
<1>7. \A p \in DOMAIN disk' : ~Below(q, p) => disk'[p] = disk[p]
  BY <1>4, <1>6
<1> QED BY <1>1, <1>2, <1>4, <1>5, <1>7, ChangeKeeps

-----------------------------------------------------------------------------
(* At the end nothing is pending, so by the depth of a path: its parent is *)
(* in the tree, and it was listed when that was read.                      *)
THEOREM ListsTheUntouched == EnumInv => UntouchedListed
<1> SUFFICES ASSUME EnumInv, step \notin Enumerating
             PROVE  /\ \A p \in DOMAIN disk \ {Root} : Untouched(p) =>
                         /\ p \in DOMAIN listed
                         /\ listed[p].directory = (disk[p].kind = "directory")
                         /\ listed[p].size = disk[p].size
                    /\ touched = {} => DOMAIN listed = DOMAIN disk \ {Root}
  BY DEF UntouchedListed
<1> USE DEF EnumInv
<1>1. /\ step \notin {"enum", "failed", "opendir", "readdir", "lstat",
                      "terminated"}
      /\ open_dirs = <<>>
  BY DEF Enumerating, EnumTypes
<1>2. Pending = {}
  BY <1>1, NoLevels DEF Pending
<1> DEFINE Missing == {p \in DOMAIN disk \ {Root} :
                         Untouched(p) /\ p \notin DOMAIN listed}
           Depths == {Len(p) : p \in Missing}
<1>3. Missing = {}
  <2> SUFFICES ASSUME Missing # {} PROVE FALSE
    OBVIOUS
  <2>1. \A p \in DOMAIN disk : p \in Seq(Nat) /\ Len(p) \in Nat
    BY DEF IsDisk
  <2>2. PICK n \in Depths : \A m \in Depths : n <= m
    <3>1. Depths \in SUBSET Nat /\ Depths # {}
      BY <2>1
    <3> HIDE DEF Depths
    <3> QED BY <3>1, SmallestNat
  <2>3. PICK p \in Missing : Len(p) = n
    BY <2>2
  <2>4. /\ p \in Seq(Nat) \ {Root} /\ p \in DOMAIN disk \ {Root}
        /\ Untouched(p) /\ p \notin DOMAIN listed
        /\ Parent(p) \in DOMAIN disk
    BY <2>1, <2>3 DEF IsDisk
  <2>5. Parent(p) # Root /\ Parent(p) \notin DOMAIN listed
    BY <1>1, <1>2, <2>4 DEF CompleteInv, OnItsWay
  <2>6. Untouched(Parent(p))
    BY <2>4, ParentUntouched DEF EnumTypes
  <2>7. Len(Parent(p)) = Len(p) - 1 /\ Len(p) \in Nat \ {0}
    BY <2>4, ParentIsPath
  <2>8. Len(Parent(p)) \in Depths
    BY <2>4, <2>5, <2>6
  <2> QED BY <2>2, <2>3, <2>7, <2>8
<1>4. ASSUME NEW p \in DOMAIN disk \ {Root}, Untouched(p)
      PROVE  /\ p \in DOMAIN listed
             /\ listed[p].directory = (disk[p].kind = "directory")
             /\ listed[p].size = disk[p].size
  <2>1. p \in DOMAIN listed
    BY <1>3, <1>4
  <2>2. /\ listed[p].directory = IsDirectory(disk[p].kind)
        /\ disk[p].kind # "socket"
        /\ listed[p].size = disk[p].size
    BY <1>1, <1>4, <2>1 DEF KindInv
  <2> QED BY <2>1, <2>2 DEF IsDirectory
<1>5. ASSUME touched = {}
      PROVE  DOMAIN listed = DOMAIN disk \ {Root}
  <2>1. \A p \in DOMAIN disk \ {Root} : p \in DOMAIN listed
    BY <1>4, <1>5 DEF Untouched
  <2>2. \A p \in DOMAIN listed : p \in DOMAIN disk /\ p # Root
    BY <1>5 DEF KindInv, EnumTypes
  <2> QED BY <2>1, <2>2
<1> QED BY <1>4, <1>5

-----------------------------------------------------------------------------
(* The copy, and the buffer it reads into.                                  *)
Allocated == step \in {"file", "chunk"}

(* Sizes are integers, from the disk to the loop's counter.                *)
SizesTyped ==
  /\ \A p \in DOMAIN disk : disk[p].size \in Int
  /\ \A p \in DOMAIN listed : listed[p].size \in Int
  /\ step \in {"allocate", "file", "chunk"} =>
       \A i \in DOMAIN files : files[i] \in DOMAIN listed
  /\ step = "chunk" => write_left \in Int

(* What the buffer holds at least, as long as its size was not raised.     *)
BufferFits ==
  /\ buffer_size \in Nat
  /\ raised \in BOOLEAN
  /\ step = "chunk" => chunk \in Nat
  /\ Allocated /\ ~raised => /\ Len(buffer) \in Nat
                             /\ buffer_size <= Len(buffer)
  /\ step = "chunk" /\ ~raised => chunk <= Len(buffer)

(* Nothing is read before the buffer is allocated.                         *)
NoReadsBefore ==
  overrun => step \in {"file", "chunk", "done", "terminated"}

BufferInv ==
  SizesTyped /\ BufferFits /\ NoReadsBefore /\ OverrunOnlyIfRaised

-----------------------------------------------------------------------------
(* The types of the copy, and what its steps are started with.             *)
Byte == {Zero, Stale} \cup (Seq(Nat) \X Nat \X Nat)

CopyTypes ==
  /\ step \in Steps
  /\ buffer_size \in BufferSizes /\ chunk \in BufferSizes \cup {0}
  /\ write_left \in Int /\ current_sector \in Int
  /\ buffer \in Seq(Byte) /\ out \in Seq(Byte)
  /\ in_file \in [path : Seq(Nat), bytes : Seq(Byte), read : Nat]
  /\ files \in Seq(Seq(Nat)) /\ at \in 0 .. Len(files)
  /\ changes \in Nat
  /\ IsFiniteSet(DOMAIN listed)

CopyPlace ==
  /\ step \in {"enum", "opendir", "readdir", "lstat", "plan", "allocate"} =>
       at = 0 /\ out = <<>> /\ current_sector = 0
  /\ step \in {"allocate", "file", "chunk"} =>
       \A i \in DOMAIN files : files[i] \in DOMAIN listed
  /\ step = "chunk" => /\ at + 1 \in DOMAIN files
                       /\ in_file.path = files[at + 1]

CopyInv == EnumInv /\ CopyTypes /\ CopyPlace

(* The bytes of the file being copied that are out, and those still to     *)
(* come, are its size.                                                     *)
SpaceInv ==
  SizesInRange =>
    /\ step = "file" => /\ Len(out) = Sector * SectorsUpTo(at)
                        /\ current_sector = SectorsUpTo(at)
    /\ step = "chunk" =>
         /\ write_left <= Size(at + 1)
         /\ write_left >= 0
         /\ Len(out) + write_left = Sector * SectorsUpTo(at) + Size(at + 1)
         /\ current_sector = SectorsUpTo(at + 1)

SameFile(i) ==
  files[i] \in DOMAIN disk /\ Untouched(files[i]) /\ disk[files[i]].kind = "file"

(* The bytes of file i, from its first sector on.                          *)
ByteOf(i, k) == <<files[i], disk[files[i]].version, k>>
OutOf(i, k) == out[Sector * SectorsUpTo(i - 1) + k]

Copied(i) ==
  /\ Sector * SectorsUpTo(i) <= Len(out)
  /\ SameFile(i) =>
       /\ \A k \in 1 .. Size(i) : OutOf(i, k) = ByteOf(i, k)
       /\ \A k \in 1 .. Padding(Size(i)) : OutOf(i, Size(i) + k) = Zero

BeingCopied(i) ==
  SameFile(i) =>
    /\ in_file.bytes = Bytes(disk, files[i])
    /\ in_file.read + write_left = Size(i)
    /\ \A k \in 1 .. in_file.read : OutOf(i, k) = ByteOf(i, k)

ContentInv ==
  SizesInRange =>
    /\ step \in {"file", "chunk"} => \A i \in 1 .. at : Copied(i)
    /\ step = "chunk" => \A i \in {at + 1} : BeingCopied(i)

-----------------------------------------------------------------------------
(* The length of a table of n entries.                                     *)
LEMMA TableLen ==
  ASSUME NEW n \in Nat, NEW f, NEW S, f \in [1 .. n -> S]
  PROVE  f \in Seq(S) /\ Len(f) = n
<1>1. f \in Seq(S)
  BY SeqDef
<1>2. DOMAIN f = 1 .. Len(f) /\ Len(f) \in Nat
  BY <1>1, LenProperties
<1>3. DOMAIN f = 1 .. n
  OBVIOUS
<1> QED BY <1>1, <1>2, <1>3

(* read_buf has the length it was allocated with.                          *)
LEMMA AllocatedLen ==
  ASSUME NEW n \in Nat
  PROVE  Len([i \in 1 .. n |-> Stale]) = n
<1> DEFINE f == [i \in 1 .. n |-> Stale]
<1>1. f \in [1 .. n -> {Stale}]
  OBVIOUS
<1> QED BY <1>1, TableLen

(* A read that fits leaves the buffer as long as it was.                   *)
LEMMA ReadKeepsLen ==
  ASSUME Len(buffer) \in Nat, NEW size \in Int, size <= Len(buffer)
  PROVE  Len(ReadInto(size)) = Len(buffer)
<1> DEFINE Cell(i) == IF i <= size /\ in_file.read + i <= Len(in_file.bytes)
                        THEN in_file.bytes[in_file.read + i]
                        ELSE IF i <= Len(buffer) THEN buffer[i] ELSE Stale
           f == [i \in 1 .. Len(buffer) |-> Cell(i)]
           S == {Cell(i) : i \in 1 .. Len(buffer)}
<1>1. ~(size > Len(buffer))
  OBVIOUS
<1>2. ReadInto(size) = f
  BY <1>1 DEF ReadInto
<1>3. f \in [1 .. Len(buffer) -> S]
  OBVIOUS
<1> QED BY <1>2, <1>3, TableLen

(* The buffer's sizes start as the constants say,                          *)
LEMMA BufferInit == Init => BufferInv
<1> SUFFICES ASSUME Init PROVE BufferInv
  OBVIOUS
<1>1. \A p \in DOMAIN disk : disk[p].size \in Int
  BY EnumAssumption DEF Init, EnumInit, IsDisk, Inode
<1>2. SizesTyped
  BY <1>1 DEF Init, EnumInit, SizesTyped
<1>3. BufferFits
  BY CopyAssumption DEF Init, EnumInit, BufferFits, Allocated
<1> QED BY <1>2, <1>3 DEF BufferInv, Init, OverrunOnlyIfRaised, NoReadsBefore

(* and every step keeps their relation.                                    *)
LEMMA BufferNext == BufferInv /\ [Next]_vars => BufferInv'
<1> SUFFICES ASSUME BufferInv, [Next]_vars PROVE BufferInv'
  OBVIOUS
<1> USE DEF BufferInv, OverrunOnlyIfRaised, NoReadsBefore
<1>1. CASE Enumerate /\ UNCHANGED <<settings, copyVars>>
  <2> USE <1>1 DEF settings, copyVars, source, enumVars
  <2>1. /\ step \notin {"allocate", "file", "chunk", "done", "terminated"}
        /\ step' \notin {"allocate", "file", "chunk"}
        /\ disk' = disk
    BY DEF Enumerate, GetFiles, OpenDirectory, OpenFails, ReadEntry,
           StatEntry, EndDirectory
  <2>2. \A p \in DOMAIN listed' : listed'[p].size \in Int
    <3>1. CASE StatEntry
      <4>1. PICK size \in Int :
              listed' = [p \in DOMAIN listed \cup {entry.path} |->
                           IF p = entry.path
                             THEN [directory |-> IsDirectory(entry.kind),
                                   size |-> size]
                             ELSE listed[p]]
        BY <3>1, EnumAssumption DEF StatEntry, SizesTyped
      <4> QED BY <4>1 DEF SizesTyped
    <3>2. CASE ~StatEntry
      <4>1. listed' = listed
        BY <3>2 DEF Enumerate, GetFiles, OpenDirectory, OpenFails, ReadEntry,
                    EndDirectory
      <4> QED BY <4>1 DEF SizesTyped
    <3> QED BY <3>1, <3>2
  <2>3. SizesTyped'
    BY <2>1, <2>2 DEF SizesTyped
  <2>4. BufferFits' /\ overrun' = overrun /\ raised' = raised
    BY <2>1 DEF BufferFits, Allocated
  <2> QED BY <2>1, <2>3, <2>4
<1>2. CASE Plan
  <2>1. /\ \A i \in DOMAIN files' : files'[i] \in DOMAIN listed
        /\ step' = "allocate"
    BY <1>2 DEF Plan, ListedFiles
  <2> QED BY <1>2, <2>1 DEF Plan, SizesTyped, BufferFits, Allocated, source,
                            enumVars, settings
<1>3. CASE Allocate
  <2>1. Len(buffer') = buffer_size /\ buffer_size \in Nat
    BY <1>3, AllocatedLen DEF Allocate, BufferFits
  <2>2. BufferFits'
    <3>1. /\ step' = "file" /\ raised' = FALSE /\ buffer_size' = buffer_size
          /\ Len(buffer') \in Nat /\ buffer_size' <= Len(buffer')
      BY <1>3, <2>1 DEF Allocate
    <3> QED BY <2>1, <3>1 DEF BufferFits, Allocated
  <2>3. SizesTyped'
    BY <1>3 DEF Allocate, SizesTyped, source, enumVars
  <2>4. ~overrun'
    BY <1>3 DEF Allocate
  <2> QED BY <2>2, <2>3, <2>4
<1>4. CASE OpenFile
  <2>1. Size(at + 1) \in Int
    BY <1>4 DEF OpenFile, SizesTyped, Size
  <2>2. SizesTyped'
    BY <1>4, <2>1 DEF OpenFile, SizesTyped, source, enumVars
  <2>3. BufferFits'
    BY <1>4 DEF OpenFile, BufferFits, Allocated, settings
  <2> QED BY <1>4, <2>2, <2>3 DEF OpenFile, settings
<1>5. CASE FileMissing \/ OverrunEnds
  <2>1. /\ step' = "terminated"
        /\ UNCHANGED <<source, enumVars, settings, copyVars>>
    BY <1>5 DEF FileMissing, OverrunEnds
  <2>2. SizesTyped'
    BY <2>1 DEF SizesTyped, source, enumVars, copyVars
  <2>3. BufferFits'
    BY <2>1 DEF BufferFits, Allocated, settings, copyVars
  <2> QED BY <2>1, <2>2, <2>3 DEF settings, copyVars
<1>6. CASE CopyChunk
  <2>1. /\ step = "chunk" /\ step' = "chunk"
        /\ write_left \in Int /\ chunk \in Nat /\ chunk' = chunk
        /\ UNCHANGED <<source, enumVars, settings, files>>
    BY <1>6 DEF CopyChunk, SizesTyped, BufferFits
  <2>2. WriteSize \in Int /\ WriteSize <= chunk
    BY <2>1 DEF WriteSize
  <2>3. SizesTyped'
    <3>1. write_left' \in Int
      BY <1>6, <2>1, <2>2 DEF CopyChunk
    <3> QED BY <2>1, <3>1 DEF SizesTyped, source, enumVars
  <2>4. CASE raised
    BY <1>6, <2>1, <2>3, <2>4 DEF BufferFits, Allocated, settings
  <2>5. CASE ~raised
    <3>1. Len(buffer) \in Nat /\ WriteSize <= Len(buffer)
      BY <2>1, <2>2, <2>5 DEF BufferFits, Allocated
    <3>2. Len(buffer') = Len(buffer)
      BY <1>6, <2>2, <3>1, ReadKeepsLen DEF CopyChunk
    <3>3. overrun' => overrun
      <4>1. ~(WriteSize > Len(buffer))
        BY <2>2, <3>1
      <4>2. overrun' = (overrun \/ WriteSize > Len(buffer))
        BY <1>6 DEF CopyChunk
      <4> QED BY <4>1, <4>2
    <3>4. BufferFits'
      BY <2>1, <3>2 DEF BufferFits, Allocated, settings
    <3> QED BY <2>1, <2>3, <3>3, <3>4 DEF settings
  <2> QED BY <2>4, <2>5
<1>7. CASE PadFile
  <2>1. SizesTyped'
    BY <1>7 DEF PadFile, SizesTyped, source, enumVars
  <2>2. BufferFits'
    BY <1>7 DEF PadFile, BufferFits, Allocated, settings
  <2> QED BY <1>7, <2>1, <2>2 DEF PadFile, settings
<1>8. CASE FilesCopied
  <2>1. SizesTyped'
    BY <1>8 DEF FilesCopied, SizesTyped, source, enumVars
  <2>2. BufferFits'
    BY <1>8 DEF FilesCopied, BufferFits, Allocated, settings
  <2> QED BY <1>8, <2>1, <2>2 DEF FilesCopied, settings
<1>9. CASE SetFileBuffer
  <2>1. PICK size \in BufferSizes :
          /\ buffer_size' = size
          /\ raised' = (raised \/ size > Len(buffer))
          /\ UNCHANGED <<source, step, enumVars, copyVars>>
    BY <1>9 DEF SetFileBuffer
  <2>2. size \in Nat
    BY CopyAssumption
  <2>3. SizesTyped'
    BY <2>1 DEF SizesTyped, source, enumVars, copyVars
  <2>4. BufferFits'
    <3>1. UNCHANGED <<step, buffer, chunk>>
      BY <2>1 DEF copyVars
    <3>2. raised' \in BOOLEAN
      BY <2>1
    <3>3. CASE raised'
      BY <2>1, <2>2, <3>1, <3>2, <3>3 DEF BufferFits, Allocated
    <3>4. CASE ~raised'
      <4>1. ~raised /\ ~(size > Len(buffer))
        BY <2>1, <3>4
      <4>2. Allocated => Len(buffer) \in Nat /\ size <= Len(buffer)
        BY <2>2, <4>1 DEF BufferFits
      <4> QED BY <2>1, <2>2, <3>1, <3>2, <4>1, <4>2 DEF BufferFits, Allocated
    <3> QED BY <3>3, <3>4
  <2> QED BY <2>1, <2>3, <2>4 DEF copyVars
<1>10. CASE ChangeSource
  <2>1. /\ UNCHANGED <<step, enumVars, settings, buffer, files, chunk,
                       write_left, overrun>>
        /\ \A p \in DOMAIN disk' : disk'[p].size \in Int
    <3>1. CASE /\ \E p \in DOMAIN disk : Remove(p)
               /\ UNCHANGED <<step, enumVars, settings, copyVars>>
      BY <3>1 DEF Remove, Change, copyVars, SizesTyped
    <3>2. CASE \E p \in DOMAIN disk, size \in Sizes : Rewrite(p, size)
      <4>1. PICK p \in DOMAIN disk, size \in Sizes : Rewrite(p, size)
        BY <3>2
      <4>2. size \in Int
        BY EnumAssumption
      <4>3. \A q \in DOMAIN disk' : disk'[q].size \in Int
        BY <4>1, <4>2 DEF Rewrite, Change, SizesTyped
      <4>4. CASE UNCHANGED <<step, enumVars, settings, buffer, files, at,
                             chunk, write_left, overrun, out, current_sector>>
        BY <4>3, <4>4
      <4>5. CASE UNCHANGED <<step, enumVars, settings, copyVars>>
        BY <4>3, <4>5 DEF copyVars
      <4> QED BY <1>10, <4>4, <4>5 DEF ChangeSource
    <3> QED BY <1>10, <3>1, <3>2 DEF ChangeSource
  <2>2. SizesTyped'
    BY <2>1 DEF SizesTyped, enumVars
  <2>3. BufferFits'
    BY <2>1 DEF BufferFits, Allocated, settings
  <2> QED BY <2>1, <2>2, <2>3 DEF settings
<1>11. CASE UNCHANGED vars
  <2>1. UNCHANGED <<source, step, enumVars, settings, copyVars>>
    BY <1>11 DEF vars
  <2>2. SizesTyped'
    BY <2>1 DEF SizesTyped, source, enumVars, copyVars
  <2>3. BufferFits'
    BY <2>1 DEF BufferFits, Allocated, settings, copyVars
  <2> QED BY <2>1, <2>2, <2>3 DEF settings, copyVars
<1> QED
  BY <1>1, <1>2, <1>3, <1>4, <1>5, <1>6, <1>7, <1>8, <1>9, <1>10, <1>11
  DEF Next, Pack

(* A read past the end of read_buf happens only if set_file_buffer raised  *)
(* the size after `new char[buffer_size]` (API.cpp, lines 1089 and 1093),  *)
(* whatever the files were and became.                                     *)
THEOREM ReadsFitUnlessRaised == Spec => []OverrunOnlyIfRaised
<1>1. BufferInv => OverrunOnlyIfRaised
  BY DEF BufferInv
<1> QED BY BufferInit, BufferNext, <1>1, PTL DEF Spec

-----------------------------------------------------------------------------
(* Division by the size of a sector.                                       *)
LEMMA QuotientBounds ==
  ASSUME NEW a \in Int
  PROVE  /\ a \div Sector \in Int
         /\ a >= 0 => a \div Sector \in Nat
         /\ a % Sector \in 0 .. Sector - 1
         /\ a = Sector * (a \div Sector) + (a % Sector)
<1>1. Sector \in Nat /\ Sector > 0
  BY CopyAssumption
<1> QED BY <1>1, SMTT(60)

(* A quotient is known by the multiples of the sector around the number.   *)
LEMMA DivIsQuotient ==
  ASSUME NEW a \in Int, NEW q \in Int, Sector * q <= a, a < Sector * q + Sector
  PROVE  a \div Sector = q /\ a % Sector = a - Sector * q
<1> DEFINE d == a \div Sector
           r == a % Sector
<1>1. Sector \in Nat /\ Sector > 0
  BY CopyAssumption
<1>2. d \in Int /\ r \in 0 .. Sector - 1 /\ a = Sector * d + r
  BY QuotientBounds
<1> HIDE DEF d, r
<1>3. \A x, y \in Int : x < y => Sector * x + Sector <= Sector * y
  <2> SUFFICES ASSUME NEW x \in Int, NEW y \in Int, x < y
               PROVE  Sector * x + Sector <= Sector * y
    OBVIOUS
  <2>1. PICK t \in Nat : y = x + 1 + t
    BY y - x - 1 \in Nat
  <2>2. Sector * (x + 1 + t) = Sector * x + Sector + Sector * t
    BY <1>1
  <2>3. Sector * t >= 0 /\ Sector * x \in Int /\ Sector * t \in Int
    BY <1>1
  <2> QED BY <1>1, <2>1, <2>2, <2>3
<1>4. Sector * d \in Int /\ Sector * q \in Int
  BY <1>1, <1>2
<1>5. ~(d < q) /\ ~(q < d)
  BY <1>1, <1>2, <1>3, <1>4
<1>6. d = q
  BY <1>2, <1>5
<1> QED BY <1>2, <1>4, <1>6 DEF d, r

(* The planner's number of sectors covers the file and its padding, and    *)
(* write_file's ceil is the same number.                                   *)
LEMMA SectorCount ==
  ASSUME NEW n \in Nat
  PROVE  /\ Padding(n) \in Nat /\ PlannedSectors(n) \in Nat
         /\ Sector * PlannedSectors(n) = n + Padding(n)
         /\ Ceil(n) = PlannedSectors(n)
<1> DEFINE q == n \div Sector
           r == n % Sector
<1>1. Sector \in Nat /\ Sector > 0
  BY CopyAssumption
<1>2. q \in Nat /\ r \in 0 .. Sector - 1 /\ n = Sector * q + r
  BY QuotientBounds
<1>3. Padding(n) = IF r = 0 THEN 0 ELSE Sector - r
  BY DEF Padding, Rem
<1> HIDE DEF q, r
<1>4. PICK s \in Nat : s = Sector * q
  BY <1>1, <1>2
<1> DEFINE p == IF r = 0 THEN q ELSE q + 1
<1>5. p \in Nat
  BY <1>2
<1>6. Sector * p = n + Padding(n)
  <2>1. Sector * (q + 1) = Sector * q + Sector
    BY <1>1, <1>2
  <2> QED BY <1>1, <1>2, <1>3, <2>1
<1>7. Padding(n) \in Nat /\ Padding(n) < Sector
  BY <1>1, <1>2, <1>3
<1> HIDE DEF p
<1>8. (n + Padding(n)) \div Sector = p
  <2>1. n + Padding(n) \in Int
    BY <1>7
  <2>2. Sector * p <= n + Padding(n) /\ n + Padding(n) < Sector * p + Sector
    BY <1>1, <1>6, <1>7
  <2> QED BY <1>5, <2>1, <2>2, DivIsQuotient
<1>9. (-n) \div Sector = -p
  <2>1. Sector * (-p) = -(Sector * p)
    BY <1>1, <1>5
  <2>2. Sector * (-p) <= -n /\ -n < Sector * (-p) + Sector
    BY <1>1, <1>6, <1>7, <2>1
  <2> QED BY <1>5, <2>2, DivIsQuotient
<1>10. PlannedSectors(n) = p /\ Ceil(n) = p
  BY <1>5, <1>8, <1>9 DEF PlannedSectors, Ceil
<1> QED BY <1>5, <1>6, <1>7, <1>10

(* So is GetSectorsSpace's, of what fits an int.                           *)
LEMMA SpaceIsPlanned ==
  ASSUME NEW n \in Nat, n + Padding(n) <= IntMax
  PROVE  SectorsSpace(n) = PlannedSectors(n)
<1> DEFINE m == n + Padding(n)
           q == m \div Sector
<1>1. Padding(n) \in Nat /\ m \in Nat /\ m <= IntMax /\ IntMax \in Nat
  BY SectorCount, CopyAssumption
<1>2. Sector \in Nat /\ Sector > 0
  BY CopyAssumption
<1> HIDE DEF m
<1>3. ToInt(m) = m
  <2>1. (m + IntMax + 1) % (2 * (IntMax + 1)) = m + IntMax + 1
    BY <1>1, SMTT(60)
  <2> QED BY <1>1, <2>1 DEF ToInt, Width
<1>4. q \in Nat /\ q <= m
  <2>1. q \in Nat /\ m % Sector \in 0 .. Sector - 1
        /\ m = Sector * q + (m % Sector)
    BY <1>1, QuotientBounds
  <2> HIDE DEF q
  <2>2. Sector * q >= q
    BY <1>2, <2>1
  <2> QED BY <1>1, <1>2, <2>1, <2>2
<1> HIDE DEF q
<1>5. ToUnsigned(q) = q
  <2>1. q % (2 * (IntMax + 1)) = q
    BY <1>1, <1>4, SMTT(60)
  <2> QED BY <2>1 DEF ToUnsigned, Width
<1> QED BY <1>3, <1>5 DEF SectorsSpace, PlannedSectors, q, m

(* The sectors of the first k files.                                       *)
LEMMA SectorsStart == SectorsUpTo(0) = 0
<1>1. DOMAIN [i \in 1 .. 0 |-> PlannedSectors(Size(i))] = {}
  OBVIOUS
<1> QED BY <1>1, SumOfNone DEF SectorsUpTo

(* The image grows by one file's sectors, which hold its bytes and their   *)
(* padding.                                                                *)
LEMMA SectorsOfNext ==
  ASSUME SizesInRange, NEW k \in Nat, k + 1 \in DOMAIN files,
         \A i \in 1 .. k : i \in DOMAIN files
  PROVE  /\ SectorsUpTo(k) \in Nat
         /\ SectorsUpTo(k + 1) \in Nat
         /\ SectorsUpTo(k + 1) = SectorsUpTo(k) + PlannedSectors(Size(k + 1))
         /\ Sector * SectorsUpTo(k + 1)
              = Sector * SectorsUpTo(k) + Size(k + 1) + Padding(Size(k + 1))
         /\ Size(k + 1) \in Nat
<1> DEFINE f == [i \in 1 .. k + 1 |-> PlannedSectors(Size(i))]
           g == [i \in 1 .. k |-> PlannedSectors(Size(i))]
<1>1. \A i \in 1 .. k + 1 : Size(i) \in Nat
  BY DEF SizesInRange
<1>2. \A i \in 1 .. k + 1 : PlannedSectors(Size(i)) \in Nat
  BY <1>1, SectorCount
<1>3. f \in [1 .. k + 1 -> Nat] /\ g \in [1 .. k -> Nat]
  BY <1>2
<1>4. g = [i \in 1 .. k |-> f[i]] /\ f[k + 1] = PlannedSectors(Size(k + 1))
  OBVIOUS
<1>5. SectorsUpTo(k + 1) = SumFunction(f) /\ SectorsUpTo(k) = SumFunction(g)
  BY DEF SectorsUpTo
<1> HIDE DEF f, g
<1>6. SumFunction(f) = f[k + 1] + SumFunction(g)
  BY <1>3, <1>4, SumOfNext
<1>7. SumFunction(g) \in Nat
  <2>1. IsFiniteSet(1 .. k)
    BY FS_Interval
  <2> QED BY <1>3, <2>1, SumIsNat
<1>8. /\ PlannedSectors(Size(k + 1)) \in Nat /\ Size(k + 1) \in Nat
      /\ Padding(Size(k + 1)) \in Nat
      /\ Sector * PlannedSectors(Size(k + 1))
           = Size(k + 1) + Padding(Size(k + 1))
  BY <1>1, SectorCount
<1>9. SectorsUpTo(k + 1) = SectorsUpTo(k) + PlannedSectors(Size(k + 1))
  BY <1>4, <1>5, <1>6, <1>7, <1>8
<1>10. Sector * SectorsUpTo(k + 1)
         = Sector * SectorsUpTo(k) + Sector * PlannedSectors(Size(k + 1))
  <2>1. Sector \in Nat
    BY CopyAssumption
  <2>2. \A a, b \in Nat : Sector * (a + b) = Sector * a + Sector * b
    BY <2>1
  <2> QED BY <1>5, <1>7, <1>8, <1>9, <2>2
<1>11. Sector * SectorsUpTo(k) \in Nat
  BY <1>5, <1>7, CopyAssumption
<1> QED BY <1>5, <1>7, <1>8, <1>9, <1>10, <1>11

(* They are fixed with the plan.                                           *)
LEMMA SectorsStay ==
  ASSUME UNCHANGED <<listed, files>>
  PROVE  /\ SizesInRange' <=> SizesInRange
         /\ \A k : SectorsUpTo(k)' = SectorsUpTo(k)
         /\ \A k : Size(k)' = Size(k)
BY DEF SizesInRange, SectorsUpTo, Size

-----------------------------------------------------------------------------
(* The steps of pack behind the enumeration: they leave the disk and the   *)
(* tree alone.                                                             *)
Later == \/ Plan \/ Allocate \/ OpenFile \/ FileMissing
         \/ CopyChunk \/ OverrunEnds \/ PadFile \/ FilesCopied

(* The copy's steps leave the listing alone.                               *)
LEMMA LaterSteps ==
  ASSUME Later
  PROVE  /\ step \in {"plan", "allocate", "file", "chunk"}
         /\ step' \in {"allocate", "file", "chunk", "done", "terminated"}
         /\ UNCHANGED <<source, enumVars>>
<1>1. CASE Plan
  BY <1>1 DEF Plan
<1>2. CASE Allocate
  BY <1>2 DEF Allocate
<1>3. CASE OpenFile
  BY <1>3 DEF OpenFile
<1>4. CASE FileMissing
  BY <1>4 DEF FileMissing
<1>5. CASE CopyChunk
  BY <1>5 DEF CopyChunk
<1>6. CASE OverrunEnds
  BY <1>6 DEF OverrunEnds
<1>7. CASE PadFile
  BY <1>7 DEF PadFile
<1>8. CASE FilesCopied
  BY <1>8 DEF FilesCopied
<1> QED BY <1>1, <1>2, <1>3, <1>4, <1>5, <1>6, <1>7, <1>8 DEF Later

(* What a step of Next is: the enumeration, a later step of pack, a call   *)
(* of the client, a change of the source directory, or none.               *)
LEMMA StepKinds ==
  ASSUME [Next]_vars
  PROVE  \/ Enumerate /\ UNCHANGED <<settings, copyVars>>
         \/ Later
         \/ SetFileBuffer
         \/ ChangeSource
         \/ UNCHANGED vars
BY DEF Next, Pack, Later

(* What leaves the listing alone keeps its invariant.                      *)
LEMMA EnumInvStays ==
  ASSUME EnumInv, UNCHANGED <<source, step, enumVars>>
  PROVE  EnumInv'
<1> USE DEF EnumInv
<1>1. UNCHANGED <<disk, touched, step, opening, open_dirs, entry, listed>>
  BY DEF source, enumVars
<1>2. Levels' = Levels /\ Unread' = Unread /\ Pending' = Pending
  BY <1>1 DEF Levels, Unread, Pending
<1>3. EnumTypes'
  BY <1>1 DEF EnumTypes
<1>4. PendingInv'
  BY <1>1, <1>2 DEF PendingInv, InTree
<1>5. KindInv'
  BY <1>1, <1>2 DEF KindInv, Untouched
<1>6. CompleteInv'
  BY <1>1, <1>2 DEF CompleteInv, OnItsWay, Untouched
<1> QED BY <1>1, <1>3, <1>4, <1>5, <1>6

(* The enumeration's invariant, whatever the rest of the program does.     *)
LEMMA EnumInvNext ==
  ASSUME EnumInv, changes \in Nat, [Next]_vars
  PROVE  EnumInv'
<1>1. CASE Enumerate
  BY <1>1, EnumerateKeeps
<1>2. CASE Later
  <2>1. /\ step \notin Enumerating
        /\ step' \notin Enumerating \/ step' = "terminated"
        /\ UNCHANGED <<source, enumVars>>
    BY <1>2, LaterSteps DEF Enumerating
  <2> QED BY <2>1, LaterStepsKeep
<1>3. CASE SetFileBuffer
  <2>1. UNCHANGED <<source, step, enumVars>>
    BY <1>3 DEF SetFileBuffer
  <2> QED BY <2>1, EnumInvStays
<1>4. CASE ChangeSource
  <2>1. UNCHANGED <<step, enumVars>>
    BY <1>4 DEF ChangeSource
  <2>2. CASE \E p \in DOMAIN disk : Remove(p)
    BY <2>1, <2>2, RemoveKeeps
  <2>3. CASE \E p \in DOMAIN disk, size \in Sizes : Rewrite(p, size)
    BY <2>1, <2>3, RewriteKeeps
  <2> QED BY <1>4, <2>2, <2>3 DEF ChangeSource
<1>5. CASE UNCHANGED vars
  <2>1. UNCHANGED <<source, step, enumVars>>
    BY <1>5 DEF vars
  <2> QED BY <2>1, EnumInvStays
<1> QED BY <1>1, <1>2, <1>3, <1>4, <1>5, StepKinds

-----------------------------------------------------------------------------
(* What the steps of the copy write has the types of the variables.        *)
LEMMA BytesTyped ==
  ASSUME NEW d, IsDisk(d), NEW p \in DOMAIN d
  PROVE  /\ p \in Seq(Nat)
         /\ Bytes(d, p) \in Seq(Byte)
         /\ Len(Bytes(d, p)) = d[p].data
         /\ \A i \in 1 .. d[p].data : Bytes(d, p)[i] = <<p, d[p].version, i>>
<1>1. p \in Seq(Nat) /\ d[p].data \in Nat /\ d[p].version \in Nat
  BY DEF IsDisk, Inode
<1> DEFINE n == d[p].data
           f == [i \in 1 .. n |-> <<p, d[p].version, i>>]
<1>2. f \in [1 .. n -> Byte]
  <2>1. \A i \in 1 .. n : <<p, d[p].version, i>> \in Byte
    <3>1. 1 .. n \subseteq Nat
      BY <1>1
    <3> QED BY <1>1, <3>1 DEF Byte
  <2> QED BY <2>1
<1>3. Bytes(d, p) = f
  BY DEF Bytes
<1>4. \A i \in 1 .. n : f[i] = <<p, d[p].version, i>>
  OBVIOUS
<1>5. n \in Nat
  BY <1>1
<1> HIDE DEF f, n
<1>6. f \in Seq(Byte) /\ Len(f) = n
  BY <1>2, <1>5, TableLen
<1> QED BY <1>1, <1>3, <1>4, <1>6 DEF n

(* A run of one byte is a sequence of bytes.                               *)
LEMMA ZerosTyped ==
  ASSUME NEW n \in Nat, NEW z \in Byte
  PROVE  /\ [i \in 1 .. n |-> z] \in Seq(Byte)
         /\ Len([i \in 1 .. n |-> z]) = n
         /\ \A i \in 1 .. n : [j \in 1 .. n |-> z][i] = z
<1> DEFINE f == [i \in 1 .. n |-> z]
<1>1. f \in [1 .. n -> Byte] /\ \A i \in 1 .. n : f[i] = z
  OBVIOUS
<1> HIDE DEF f
<1>2. f \in Seq(Byte) /\ Len(f) = n
  BY <1>1, TableLen
<1> QED BY <1>1, <1>2 DEF f

(* The buffer after a read, cell by cell.                                  *)
LEMMA ReadTyped ==
  ASSUME buffer \in Seq(Byte), NEW size \in Nat,
         in_file \in [path : Seq(Nat), bytes : Seq(Byte), read : Nat]
  PROVE  /\ ReadInto(size) \in Seq(Byte)
         /\ Len(ReadInto(size)) \in Nat
         /\ size <= Len(ReadInto(size))
         /\ \A i \in 1 .. size : in_file.read + i <= Len(in_file.bytes) =>
              ReadInto(size)[i] = in_file.bytes[in_file.read + i]
<1> DEFINE n == IF size > Len(buffer) THEN size ELSE Len(buffer)
           Cell(i) == IF i <= size /\ in_file.read + i <= Len(in_file.bytes)
                        THEN in_file.bytes[in_file.read + i]
                        ELSE IF i <= Len(buffer) THEN buffer[i] ELSE Stale
           f == [i \in 1 .. n |-> Cell(i)]
<1>1. /\ Len(buffer) \in Nat /\ Len(in_file.bytes) \in Nat
      /\ in_file.read \in Nat
      /\ \A i \in 1 .. Len(buffer) : buffer[i] \in Byte
      /\ \A i \in 1 .. Len(in_file.bytes) : in_file.bytes[i] \in Byte
  BY ElementOfSeq, LenProperties
<1>2. n \in Nat /\ size <= n
  BY <1>1
<1>3. ReadInto(size) = f
  BY DEF ReadInto
<1>4. \A i \in 1 .. n : Cell(i) \in Byte
  <2> SUFFICES ASSUME NEW i \in 1 .. n PROVE Cell(i) \in Byte
    OBVIOUS
  <2>1. i \in Nat /\ i >= 1
    BY <1>2
  <2>2. in_file.read + i <= Len(in_file.bytes) =>
          in_file.bytes[in_file.read + i] \in Byte
    BY <1>1, <2>1
  <2>3. i <= Len(buffer) => buffer[i] \in Byte
    BY <1>1, <2>1
  <2>4. Stale \in Byte
    BY DEF Byte
  <2> QED BY <2>2, <2>3, <2>4
<1>5. \A i \in 1 .. size : in_file.read + i <= Len(in_file.bytes) =>
        f[i] = in_file.bytes[in_file.read + i]
  BY <1>1, <1>2
<1>6. f \in [1 .. n -> Byte]
  BY <1>4
<1> HIDE DEF f, n
<1>7. f \in Seq(Byte) /\ Len(f) = n
  BY <1>2, <1>6, TableLen
<1> QED BY <1>2, <1>3, <1>5, <1>7

(* A turn of the loop puts WriteSize bytes behind what is there.           *)
LEMMA ChunkAppends ==
  ASSUME CopyTypes, CopyChunk
  PROVE  /\ WriteSize \in Nat /\ WriteSize <= write_left
         /\ buffer' \in Seq(Byte) /\ out' \in Seq(Byte)
         /\ Len(out) \in Nat /\ Len(out') = Len(out) + WriteSize
         /\ \A j \in 1 .. Len(out) : out'[j] = out[j]
         /\ \A i \in 1 .. WriteSize : in_file.read + i <= Len(in_file.bytes) =>
              out'[Len(out) + i] = in_file.bytes[in_file.read + i]
<1>1. /\ buffer' = ReadInto(WriteSize)
      /\ out' = out \o SubSeq(buffer', 1, WriteSize)
      /\ write_left > 0
  BY DEF CopyChunk
<1>2. /\ chunk \in Nat /\ write_left \in Int
      /\ buffer \in Seq(Byte) /\ out \in Seq(Byte)
      /\ in_file \in [path : Seq(Nat), bytes : Seq(Byte), read : Nat]
  BY CopyAssumption DEF CopyTypes
<1>3. WriteSize \in Nat /\ WriteSize <= write_left
  BY <1>1, <1>2 DEF WriteSize
<1> DEFINE w == WriteSize
<1> HIDE DEF w
<1>4. w \in Nat /\ buffer' = ReadInto(w) /\ out' = out \o SubSeq(buffer', 1, w)
  BY <1>1, <1>3 DEF w
<1>5. /\ buffer' \in Seq(Byte) /\ Len(buffer') \in Nat /\ w <= Len(buffer')
      /\ \A i \in 1 .. w : in_file.read + i <= Len(in_file.bytes) =>
           buffer'[i] = in_file.bytes[in_file.read + i]
  BY <1>2, <1>4, ReadTyped
<1> DEFINE new == SubSeq(buffer', 1, w)
<1>6. /\ new \in Seq(Byte) /\ Len(new) = w
      /\ \A i \in 1 .. w : new[i] = buffer'[i]
  <2>1. w \in 0 .. Len(buffer')
    BY <1>4, <1>5
  <2> QED BY <1>5, <2>1, FrontOf
<1>7. out' = out \o new
  BY <1>4
<1> HIDE DEF new
<1>8. /\ out' \in Seq(Byte)
      /\ Len(out') = Len(out) + w
      /\ Len(out) \in Nat
      /\ \A j \in 1 .. Len(out) : out'[j] = out[j]
      /\ \A i \in 1 .. w : out'[Len(out) + i] = new[i]
  <2>1. /\ out \o new \in Seq(Byte)
        /\ Len(out \o new) = Len(out) + Len(new)
        /\ \A i \in 1 .. Len(out) + Len(new) :
             (out \o new)[i] = IF i <= Len(out) THEN out[i]
                                                ELSE new[i - Len(out)]
    BY <1>2, <1>6, ConcatProperties
  <2>2. Len(out) \in Nat
    BY <1>2, LenProperties
  <2>3. \A i \in 1 .. w : /\ Len(out) + i \in 1 .. Len(out) + w
                          /\ ~(Len(out) + i <= Len(out))
                          /\ Len(out) + i - Len(out) = i
    BY <1>4, <2>2
  <2>4. \A i \in 1 .. w : out'[Len(out) + i] = new[i]
    BY <1>6, <1>7, <2>1, <2>3
  <2>5. \A j \in 1 .. Len(out) : j \in 1 .. Len(out) + w /\ j <= Len(out)
    BY <1>4, <2>2
  <2> QED BY <1>6, <1>7, <2>1, <2>2, <2>4, <2>5
<1>9. \A i \in 1 .. w : in_file.read + i <= Len(in_file.bytes) =>
        out'[Len(out) + i] = in_file.bytes[in_file.read + i]
  BY <1>5, <1>6, <1>8
<1> QED BY <1>3, <1>5, <1>8, <1>9 DEF w

(* The padding puts its zeros behind what is there.                        *)
LEMMA PadAppends ==
  ASSUME out \in Seq(Byte), NEW n \in Nat,
         out' = out \o [i \in 1 .. n |-> Zero]
  PROVE  /\ out' \in Seq(Byte)
         /\ Len(out) \in Nat /\ Len(out') = Len(out) + n
         /\ \A j \in 1 .. Len(out) : out'[j] = out[j]
         /\ \A i \in 1 .. n : out'[Len(out) + i] = Zero
<1> DEFINE new == [i \in 1 .. n |-> Zero]
<1>1. new \in Seq(Byte) /\ Len(new) = n /\ \A i \in 1 .. n : new[i] = Zero
  <2>1. Zero \in Byte
    BY DEF Byte
  <2> QED BY <2>1, ZerosTyped
<1>2. out' = out \o new
  OBVIOUS
<1> HIDE DEF new
<1>3. /\ out \o new \in Seq(Byte)
      /\ Len(out \o new) = Len(out) + Len(new)
      /\ \A i \in 1 .. Len(out) + Len(new) :
           (out \o new)[i] = IF i <= Len(out) THEN out[i]
                                              ELSE new[i - Len(out)]
  BY <1>1, ConcatProperties
<1>4. Len(out) \in Nat
  BY LenProperties
<1>5. \A i \in 1 .. n : /\ Len(out) + i \in 1 .. Len(out) + n
                        /\ ~(Len(out) + i <= Len(out))
                        /\ Len(out) + i - Len(out) = i
  BY <1>4
<1>6. \A i \in 1 .. n : out'[Len(out) + i] = Zero
  BY <1>1, <1>2, <1>3, <1>5
<1>7. \A j \in 1 .. Len(out) : j \in 1 .. Len(out) + n /\ j <= Len(out)
  BY <1>4
<1> QED BY <1>1, <1>2, <1>3, <1>4, <1>6, <1>7

-----------------------------------------------------------------------------
(* The padding of any size, a failed lstat's included.                     *)
LEMMA PaddingIsNat == ASSUME NEW n \in Int PROVE Padding(n) \in Nat
<1>1. Sector \in Nat /\ Sector > 0
  BY CopyAssumption
<1>2. n % Sector \in 0 .. Sector - 1 /\ (-n) % Sector \in 0 .. Sector - 1
  BY QuotientBounds
<1>3. Padding(n) = IF n >= 0
                     THEN IF n % Sector = 0 THEN 0 ELSE Sector - (n % Sector)
                     ELSE IF (-n) % Sector = 0 THEN 0
                            ELSE Sector - (-((-n) % Sector))
  <2>1. -((-n) % Sector) = 0 <=> (-n) % Sector = 0
    BY <1>2
  <2> QED BY <2>1 DEF Padding, Rem
<1> QED BY <1>1, <1>2, <1>3

(* The value of `open` between files is one of its type.                   *)
LEMMA NoFileTyped ==
  NoFile \in [path : Seq(Nat), bytes : Seq(Byte), read : Nat]
<1>1. <<>> \in Seq(Nat) /\ <<>> \in Seq(Byte)
  BY EmptySeq
<1> QED BY <1>1 DEF NoFile, Root

(* The copy's invariant holds before the listing,                          *)
LEMMA CopyStart == Init => CopyInv
<1> SUFFICES ASSUME Init PROVE CopyInv
  OBVIOUS
<1>1. EnumInv
  BY EnumStart DEF Init
<1>2. CopyTypes
  <2>1. IsFiniteSet(DOMAIN listed)
    <3>1. DOMAIN listed = {}
      BY DEF Init, EnumInit
    <3> QED BY <3>1, FS_EmptySet
  <2>2. /\ <<>> \in Seq(Byte) /\ <<>> \in Seq(Seq(Nat))
        /\ Len(<<>>) = 0
    BY EmptySeq
  <2>3. step \in Steps
    BY DEF Init, EnumInit, Steps
  <2> QED BY <2>1, <2>2, <2>3, NoFileTyped DEF Init, EnumInit, CopyTypes
<1>3. CopyPlace
  BY DEF Init, EnumInit, CopyPlace
<1> QED BY <1>1, <1>2, <1>3 DEF CopyInv

(* A file of the plan has a size of type int.                              *)
LEMMA SizeTyped ==
  ASSUME CopyInv, step \in {"allocate", "file", "chunk"},
         NEW i \in DOMAIN files
  PROVE  Size(i) \in Int /\ files[i] \in DOMAIN listed /\ i \in 1 .. Len(files)
<1>1. files[i] \in DOMAIN listed
  BY DEF CopyInv, CopyPlace
<1>2. listed[files[i]].size \in Int
  BY <1>1 DEF CopyInv, EnumInv, EnumTypes
<1>3. DOMAIN files = 1 .. Len(files)
  BY DEF CopyInv, CopyTypes
<1> QED BY <1>1, <1>2, <1>3 DEF Size

(* The enumeration does not touch the copy's variables.                    *)
LEMMA CopyEnumerate ==
  ASSUME CopyInv, Enumerate, UNCHANGED <<settings, copyVars>>
  PROVE  CopyTypes' /\ CopyPlace'
<1>1. UNCHANGED <<buffer_size, buffer, files, at, in_file, chunk, write_left,
                  out, current_sector, changes>>
  BY DEF settings, copyVars, Enumerate, GetFiles, OpenDirectory, OpenFails,
         ReadEntry, StatEntry, EndDirectory, source
<1>2. /\ step \in {"enum", "opendir", "readdir", "lstat"}
      /\ step' \in {"failed", "opendir", "readdir", "lstat", "plan",
                    "terminated"}
  BY DEF Enumerate, GetFiles, OpenDirectory, OpenFails, ReadEntry,
         StatEntry, EndDirectory
<1>3. IsFiniteSet(DOMAIN listed')
  <2>1. CASE StatEntry
    <3>1. DOMAIN listed' = DOMAIN listed \cup {entry.path}
      BY <2>1 DEF StatEntry
    <3>2. IsFiniteSet(DOMAIN listed)
      BY DEF CopyInv, CopyTypes
    <3> QED BY <3>1, <3>2, FS_AddElement
  <2>2. CASE ~StatEntry
    <3>1. listed' = listed
      BY <2>2 DEF Enumerate, GetFiles, OpenDirectory, OpenFails, ReadEntry,
                  EndDirectory, enumVars
    <3> QED BY <3>1 DEF CopyInv, CopyTypes
  <2> QED BY <2>1, <2>2
<1>4. CopyTypes'
  BY <1>1, <1>2, <1>3 DEF CopyInv, CopyTypes, Steps
<1>5. CopyPlace'
  BY <1>1, <1>2 DEF CopyInv, CopyPlace
<1> QED BY <1>4, <1>5

(* when the planner has taken the files' sizes,                            *)
LEMMA CopyPlan == ASSUME CopyInv, Plan PROVE CopyTypes' /\ CopyPlace'
<1>1. /\ step = "plan" /\ step' = "allocate"
      /\ UNCHANGED <<buffer_size, buffer, at, in_file, chunk, write_left,
                     out, current_sector, changes, listed>>
      /\ files' \in [1 .. Cardinality(ListedFiles) -> ListedFiles]
  BY DEF Plan, settings, source, enumVars
<1>2. ListedFiles \subseteq DOMAIN listed /\ ListedFiles \subseteq Seq(Nat)
  BY DEF ListedFiles, CopyInv, EnumInv, EnumTypes
<1>3. Cardinality(ListedFiles) \in Nat
  BY <1>2, FS_Subset, FS_CardinalityType DEF CopyInv, CopyTypes
<1>4. files' \in Seq(Seq(Nat)) /\ Len(files') \in Nat
  <2>1. files' \in [1 .. Cardinality(ListedFiles) -> Seq(Nat)]
    BY <1>1, <1>2
  <2>2. files' \in Seq(Seq(Nat))
    BY <1>3, <2>1, SeqDef
  <2> QED BY <2>2, LenProperties
<1>5. \A i \in DOMAIN files' : files'[i] \in DOMAIN listed'
  BY <1>1, <1>2
<1>6. at = 0
  BY <1>1 DEF CopyInv, CopyPlace
<1>7. CopyTypes'
  BY <1>1, <1>4, <1>6 DEF CopyInv, CopyTypes, Steps
<1>8. CopyPlace'
  BY <1>1, <1>5 DEF CopyInv, CopyPlace
<1> QED BY <1>7, <1>8

(* when the buffer is allocated,                                           *)
LEMMA CopyAllocate == ASSUME CopyInv, Allocate PROVE CopyTypes' /\ CopyPlace'
<1>1. /\ step = "allocate" /\ step' = "file"
      /\ UNCHANGED <<buffer_size, files, at, in_file, chunk, write_left,
                     out, current_sector, changes, listed>>
      /\ buffer' = [i \in 1 .. buffer_size |-> Stale]
  BY DEF Allocate, source, enumVars
<1>2. buffer' \in Seq(Byte)
  <2>1. Stale \in Byte /\ buffer_size \in Nat
    BY CopyAssumption DEF Byte, CopyInv, CopyTypes
  <2> QED BY <1>1, <2>1, ZerosTyped
<1>3. CopyTypes'
  BY <1>1, <1>2 DEF CopyInv, CopyTypes, Steps
<1>4. CopyPlace'
  BY <1>1 DEF CopyInv, CopyPlace
<1> QED BY <1>3, <1>4

(* when a file is opened,                                                  *)
LEMMA CopyOpen == ASSUME CopyInv, OpenFile PROVE CopyTypes' /\ CopyPlace'
<1> DEFINE p == files[at + 1]
<1>1. /\ step = "file" /\ step' = "chunk"
      /\ UNCHANGED <<buffer_size, buffer, files, at, out, changes, listed>>
      /\ at + 1 \in DOMAIN files /\ p \in DOMAIN disk
      /\ in_file' = [path |-> p, bytes |-> Bytes(disk, p), read |-> 0]
      /\ chunk' = buffer_size
      /\ write_left' = Size(at + 1)
      /\ current_sector' = current_sector + Ceil(Size(at + 1))
  BY DEF OpenFile, settings, source, enumVars
<1>2. Size(at + 1) \in Int
  BY <1>1, SizeTyped
<1>3. in_file' \in [path : Seq(Nat), bytes : Seq(Byte), read : Nat]
  <2>1. p \in Seq(Nat) /\ Bytes(disk, p) \in Seq(Byte)
    BY <1>1, BytesTyped DEF CopyInv, EnumInv
  <2> QED BY <1>1, <2>1
<1>4. current_sector' \in Int
  <2>1. (-Size(at + 1)) \div Sector \in Int
    BY <1>2, QuotientBounds
  <2> QED BY <1>1, <2>1 DEF Ceil, CopyInv, CopyTypes
<1>5. CopyTypes'
  BY <1>1, <1>2, <1>3, <1>4 DEF CopyInv, CopyTypes, Steps
<1>6. CopyPlace'
  BY <1>1 DEF CopyInv, CopyPlace
<1> QED BY <1>5, <1>6

(* when the process ends,                                                  *)
LEMMA CopyStops ==
  ASSUME CopyInv, FileMissing \/ OverrunEnds
  PROVE  CopyTypes' /\ CopyPlace'
<1>1. /\ step' = "terminated"
      /\ UNCHANGED <<buffer_size, buffer, files, at, in_file, chunk, write_left,
                     out, current_sector, changes, listed>>
  BY DEF FileMissing, OverrunEnds, source, enumVars, settings, copyVars
<1>2. CopyTypes'
  BY <1>1 DEF CopyInv, CopyTypes, Steps
<1>3. CopyPlace'
  BY <1>1 DEF CopyPlace
<1> QED BY <1>2, <1>3

(* after a turn of the loop over chunks,                                   *)
LEMMA CopyTurn == ASSUME CopyInv, CopyChunk PROVE CopyTypes' /\ CopyPlace'
<1>1. /\ step = "chunk" /\ step' = "chunk"
      /\ UNCHANGED <<buffer_size, files, at, chunk, current_sector, changes,
                     listed>>
      /\ in_file' = [in_file EXCEPT !.read =
           @ + (IF WriteSize < Left THEN WriteSize ELSE Left)]
      /\ write_left' = write_left - WriteSize
  BY DEF CopyChunk, source, enumVars, settings
<1>2. /\ in_file \in [path : Seq(Nat), bytes : Seq(Byte), read : Nat]
      /\ write_left \in Int
  BY DEF CopyInv, CopyTypes
<1>3. WriteSize \in Nat /\ buffer' \in Seq(Byte) /\ out' \in Seq(Byte)
  BY ChunkAppends DEF CopyInv
<1>4. /\ in_file' \in [path : Seq(Nat), bytes : Seq(Byte), read : Nat]
      /\ in_file'.path = in_file.path
  <2>1. Left \in Nat
    <3>1. Len(in_file.bytes) \in Nat /\ in_file.read \in Nat
      BY <1>2, LenProperties
    <3> QED BY <3>1 DEF Left
  <2> DEFINE n == in_file.read + (IF WriteSize < Left THEN WriteSize ELSE Left)
  <2>2. n \in Nat
    BY <1>2, <1>3, <2>1
  <2>3. in_file' = [in_file EXCEPT !.read = n]
    BY <1>1
  <2> HIDE DEF n
  <2> QED BY <1>2, <2>2, <2>3
<1>5. CopyTypes'
  BY <1>1, <1>2, <1>3, <1>4 DEF CopyInv, CopyTypes, Steps
<1>6. CopyPlace'
  BY <1>1, <1>4 DEF CopyInv, CopyPlace
<1> QED BY <1>5, <1>6

(* after a file's padding,                                                 *)
LEMMA CopyPad == ASSUME CopyInv, PadFile PROVE CopyTypes' /\ CopyPlace'
<1>1. /\ step = "chunk" /\ step' = "file"
      /\ UNCHANGED <<buffer_size, buffer, files, chunk, write_left,
                     current_sector, changes, listed>>
      /\ out' = out \o [i \in 1 .. Padding(Size(at + 1)) |-> Zero]
      /\ in_file' = NoFile
      /\ at' = at + 1
  BY DEF PadFile, source, enumVars, settings
<1>2. at + 1 \in DOMAIN files
  BY <1>1 DEF CopyInv, CopyPlace
<1>3. at' \in 0 .. Len(files')
  <2>1. at + 1 \in 1 .. Len(files)
    BY <1>1, <1>2, SizeTyped
  <2> QED BY <1>1, <2>1
<1>4. out' \in Seq(Byte)
  <2>1. Padding(Size(at + 1)) \in Nat
    BY <1>1, <1>2, SizeTyped, PaddingIsNat
  <2> QED BY <1>1, <2>1, PadAppends DEF CopyInv, CopyTypes
<1>5. CopyTypes'
  BY <1>1, <1>3, <1>4, NoFileTyped DEF CopyInv, CopyTypes, Steps
<1>6. CopyPlace'
  BY <1>1 DEF CopyInv, CopyPlace
<1> QED BY <1>5, <1>6

(* after the last file,                                                    *)
LEMMA CopyDone == ASSUME CopyInv, FilesCopied PROVE CopyTypes' /\ CopyPlace'
<1>1. /\ step' = "done" /\ buffer' = <<>>
      /\ UNCHANGED <<buffer_size, files, at, in_file, chunk, write_left,
                     out, current_sector, changes, listed>>
  BY DEF FilesCopied, source, enumVars, settings
<1>2. buffer' \in Seq(Byte)
  BY <1>1, EmptySeq
<1>3. CopyTypes'
  BY <1>1, <1>2 DEF CopyInv, CopyTypes, Steps
<1>4. CopyPlace'
  BY <1>1 DEF CopyPlace
<1> QED BY <1>3, <1>4

(* after a call of set_file_buffer,                                        *)
LEMMA CopyBufferSet ==
  ASSUME CopyInv, SetFileBuffer PROVE CopyTypes' /\ CopyPlace'
<1>1. /\ buffer_size' \in BufferSizes
      /\ UNCHANGED <<step, buffer, files, at, in_file, chunk, write_left,
                     out, current_sector, changes, listed>>
  BY DEF SetFileBuffer, source, enumVars, copyVars
<1>2. CopyTypes'
  BY <1>1 DEF CopyInv, CopyTypes
<1>3. CopyPlace'
  BY <1>1 DEF CopyInv, CopyPlace
<1> QED BY <1>2, <1>3

(* What a change of the source directory does to the copy: the open file   *)
(* may have other bytes.                                                   *)
LEMMA ChangeFacts ==
  ASSUME CopyInv, IsDisk(disk'), ChangeSource
  PROVE  /\ changes' \in Nat
         /\ UNCHANGED <<step, buffer_size, buffer, files, at, chunk, write_left,
                        out, current_sector, listed>>
         /\ in_file' \in [path : Seq(Nat), bytes : Seq(Byte), read : Nat]
         /\ in_file'.path = in_file.path
         /\ in_file'.read = in_file.read
         /\ \E q \in DOMAIN disk :
              /\ touched' = touched \cup {q}
              /\ \A p \in DOMAIN disk' : p \in DOMAIN disk
              /\ \A p \in DOMAIN disk' : ~Below(q, p) => disk'[p] = disk[p]
              /\ in_file.path # q => in_file' = in_file
<1>1. /\ in_file \in [path : Seq(Nat), bytes : Seq(Byte), read : Nat]
      /\ changes \in Nat
  BY DEF CopyInv, CopyTypes
<1>2. CASE /\ \E p \in DOMAIN disk : Remove(p)
           /\ UNCHANGED <<step, enumVars, settings, copyVars>>
  <2>1. PICK q \in DOMAIN disk : Remove(q)
    BY <1>2
  <2>2. /\ touched' = touched \cup {q} /\ changes' = changes + 1
        /\ disk' = [p \in {p \in DOMAIN disk : ~Below(q, p)} |-> disk[p]]
    BY <2>1 DEF Remove, Change
  <2>3. UNCHANGED <<step, buffer_size, buffer, files, at, chunk, write_left,
                    in_file, out, current_sector, listed>>
    BY <1>2 DEF enumVars, settings, copyVars
  <2> QED BY <1>1, <2>2, <2>3
<1>3. CASE \E p \in DOMAIN disk, size \in Sizes :
             /\ Rewrite(p, size)
             /\ in_file' = IF p = in_file.path
                             THEN [in_file EXCEPT !.bytes = Bytes(disk', p)]
                             ELSE in_file
             /\ UNCHANGED <<step, enumVars, settings, buffer, files, at, chunk,
                            write_left, overrun, out, current_sector>>
  <2>1. PICK q \in DOMAIN disk, size \in Sizes :
             /\ Rewrite(q, size)
             /\ in_file' = IF q = in_file.path
                             THEN [in_file EXCEPT !.bytes = Bytes(disk', q)]
                             ELSE in_file
             /\ UNCHANGED <<step, enumVars, settings, buffer, files, at, chunk,
                            write_left, overrun, out, current_sector>>
    BY <1>3
  <2> DEFINE new == [kind |-> "file", size |-> size, data |-> size,
                     version |-> changes + 1]
  <2>2. /\ touched' = touched \cup {q} /\ changes' = changes + 1
        /\ disk' = [disk EXCEPT ![q] = new]
    BY <2>1 DEF Rewrite, Change
  <2> HIDE DEF new
  <2>3. /\ DOMAIN disk' = DOMAIN disk
        /\ \A p \in DOMAIN disk : p # q => disk'[p] = disk[p]
    BY <2>2
  <2>4. Bytes(disk', q) \in Seq(Byte)
    BY <2>3, BytesTyped
  <2>5. /\ in_file' \in [path : Seq(Nat), bytes : Seq(Byte), read : Nat]
        /\ in_file'.path = in_file.path /\ in_file'.read = in_file.read
        /\ in_file.path # q => in_file' = in_file
    BY <1>1, <2>1, <2>4
  <2>6. UNCHANGED <<step, buffer_size, buffer, files, at, chunk, write_left,
                    out, current_sector, listed>>
    BY <2>1 DEF enumVars, settings
  <2>7. Below(q, q)
    BY BelowItself DEF CopyInv, EnumInv, IsDisk
  <2>8. \A p \in DOMAIN disk' : ~Below(q, p) => disk'[p] = disk[p]
    BY <2>3, <2>7
  <2> QED BY <1>1, <2>2, <2>3, <2>5, <2>6, <2>8
<1> QED BY <1>2, <1>3 DEF ChangeSource

(* and whatever other programs do to the source.                           *)
LEMMA CopyChange ==
  ASSUME CopyInv, IsDisk(disk'), ChangeSource
  PROVE  CopyTypes' /\ CopyPlace'
<1>1. /\ changes' \in Nat
      /\ UNCHANGED <<step, buffer_size, buffer, files, at, chunk, write_left,
                     out, current_sector, listed>>
      /\ in_file' \in [path : Seq(Nat), bytes : Seq(Byte), read : Nat]
      /\ in_file'.path = in_file.path
  BY ChangeFacts
<1>2. CopyTypes'
  BY <1>1 DEF CopyInv, CopyTypes
<1>3. CopyPlace'
  BY <1>1 DEF CopyInv, CopyPlace
<1> QED BY <1>2, <1>3

(* Together.                                                               *)
LEMMA CopyNext == CopyInv /\ [Next]_vars => CopyInv'
<1> SUFFICES ASSUME CopyInv, [Next]_vars PROVE CopyInv'
  OBVIOUS
<1>1. EnumInv' /\ IsDisk(disk')
  <2>1. EnumInv'
    BY EnumInvNext DEF CopyInv, CopyTypes
  <2> QED BY <2>1 DEF EnumInv
<1>2. CASE Enumerate /\ UNCHANGED <<settings, copyVars>>
  BY <1>1, <1>2, CopyEnumerate DEF CopyInv
<1>3. CASE Later
  BY <1>1, <1>3, CopyPlan, CopyAllocate, CopyOpen, CopyStops, CopyTurn,
     CopyPad, CopyDone DEF Later, CopyInv
<1>4. CASE SetFileBuffer
  BY <1>1, <1>4, CopyBufferSet DEF CopyInv
<1>5. CASE ChangeSource
  BY <1>1, <1>5, CopyChange DEF CopyInv
<1>6. CASE UNCHANGED vars
  <2>1. UNCHANGED <<step, buffer_size, buffer, files, at, in_file, chunk,
                    write_left, out, current_sector, changes, listed>>
    BY <1>6 DEF vars, source, enumVars, settings, copyVars
  <2>2. CopyTypes'
    BY <2>1 DEF CopyInv, CopyTypes
  <2>3. CopyPlace'
    BY <2>1 DEF CopyInv, CopyPlace
  <2> QED BY <1>1, <2>2, <2>3 DEF CopyInv
<1> QED BY <1>2, <1>3, <1>4, <1>5, <1>6, StepKinds

(* The invariant of the enumeration and the types hold throughout.         *)
LEMMA CopyInvariant == Spec => []CopyInv
BY CopyStart, CopyNext, PTL DEF Spec

(* The tree lists every entry that nobody changed, with its kind and its   *)
(* size, and nothing else if nobody changed any: get_files under changes of*)
(* the source directory (Directory.cpp, lines 61 to 123).                  *)
THEOREM UntouchedAreListed == Spec => []UntouchedListed
<1>1. CopyInv => UntouchedListed
  BY ListsTheUntouched DEF CopyInv
<1> QED BY CopyInvariant, <1>1, PTL

(* The variables keep their types, the tree is one, and the stack of open  *)
(* directories is empty when the copy begins.                              *)
THEOREM CopyTypeCorrect == Spec => []TypeOK
<1>1. CopyInv => TypeOK
  <2> SUFFICES ASSUME CopyInv PROVE TypeOK
    OBVIOUS
  <2>1. /\ step \in {"readdir", "lstat"} => open_dirs # <<>>
        /\ step \notin Enumerating => open_dirs = <<>>
        /\ \A p \in DOMAIN listed : listed[p].size \in Int
    BY DEF CopyInv, EnumInv, EnumTypes
  <2>2. \A p \in DOMAIN listed :
          Parent(p) = Root \/ listed[Parent(p)].directory
    BY DEF CopyInv, EnumInv, PendingInv, InTree
  <2>3. /\ step \in Steps
        /\ buffer_size \in BufferSizes /\ chunk \in BufferSizes \cup {0}
        /\ at \in 0 .. Len(files)
        /\ in_file.read \in Nat /\ current_sector \in Int
    BY DEF CopyInv, CopyTypes
  <2> QED BY <2>1, <2>2, <2>3 DEF TypeOK
<1> QED BY CopyInvariant, <1>1, PTL

-----------------------------------------------------------------------------
(* The sectors.  SpaceInv and ContentInv after a step, in terms of the plan*)
(* before it.                                                              *)
LEMMA SpaceAfter ==
  ASSUME UNCHANGED <<listed, files>>
  PROVE  SpaceInv' <=>
           (SizesInRange =>
              /\ step' = "file" => /\ Len(out') = Sector * SectorsUpTo(at')
                                   /\ current_sector' = SectorsUpTo(at')
              /\ step' = "chunk" =>
                   /\ write_left' <= Size(at' + 1)
                   /\ write_left' >= 0
                   /\ Len(out') + write_left'
                        = Sector * SectorsUpTo(at') + Size(at' + 1)
                   /\ current_sector' = SectorsUpTo(at' + 1))
BY DEF SpaceInv, SizesInRange, SectorsUpTo, Size

(* Everything the proofs need of the file that is open or comes next.      *)
LEMMA ThisFile ==
  ASSUME CopyInv, SizesInRange, step \in {"file", "chunk"},
         at + 1 \in DOMAIN files
  PROVE  /\ at \in Nat
         /\ SectorsUpTo(at) \in Nat /\ SectorsUpTo(at + 1) \in Nat
         /\ Sector * SectorsUpTo(at) \in Nat
         /\ Size(at + 1) \in Nat /\ Padding(Size(at + 1)) \in Nat
         /\ SectorsUpTo(at + 1)
              = SectorsUpTo(at) + PlannedSectors(Size(at + 1))
         /\ Sector * SectorsUpTo(at + 1)
              = Sector * SectorsUpTo(at) + Size(at + 1)
                  + Padding(Size(at + 1))
         /\ Ceil(Size(at + 1)) = PlannedSectors(Size(at + 1))
<1>1. at \in Nat /\ DOMAIN files = 1 .. Len(files) /\ Len(files) \in Nat
  BY DEF CopyInv, CopyTypes
<1>2. \A i \in 1 .. at : i \in DOMAIN files
  BY <1>1
<1>3. /\ SectorsUpTo(at) \in Nat /\ SectorsUpTo(at + 1) \in Nat
      /\ SectorsUpTo(at + 1) = SectorsUpTo(at) + PlannedSectors(Size(at + 1))
      /\ Sector * SectorsUpTo(at + 1)
           = Sector * SectorsUpTo(at) + Size(at + 1) + Padding(Size(at + 1))
      /\ Size(at + 1) \in Nat
  BY <1>1, <1>2, SectorsOfNext
<1>4. Padding(Size(at + 1)) \in Nat
      /\ Ceil(Size(at + 1)) = PlannedSectors(Size(at + 1))
  BY <1>3, SectorCount
<1>5. Sector * SectorsUpTo(at) \in Nat
  BY <1>3, CopyAssumption
<1> QED BY <1>1, <1>3, <1>4, <1>5

(* Opening a file keeps the count of sectors,                              *)
LEMMA SpaceOpen == ASSUME CopyInv, SpaceInv, OpenFile PROVE SpaceInv'
<1>1. /\ step = "file" /\ step' = "chunk" /\ at + 1 \in DOMAIN files
      /\ UNCHANGED <<listed, files, at, out>>
      /\ write_left' = Size(at + 1)
      /\ current_sector' = current_sector + Ceil(Size(at + 1))
  BY DEF OpenFile, enumVars
<1> SUFFICES ASSUME SizesInRange
             PROVE  /\ Size(at + 1) >= 0
                    /\ Len(out) = Sector * SectorsUpTo(at)
                    /\ Len(out) + Size(at + 1)
                         = Sector * SectorsUpTo(at) + Size(at + 1)
                    /\ current_sector' = SectorsUpTo(at + 1)
  BY <1>1, ThisFile, SpaceAfter
<1>2. Len(out) = Sector * SectorsUpTo(at) /\ current_sector = SectorsUpTo(at)
  BY <1>1 DEF SpaceInv
<1> QED BY <1>1, <1>2, ThisFile

(* so does a turn of the loop, which writes as much as it was told to,     *)
LEMMA SpaceTurn == ASSUME CopyInv, SpaceInv, CopyChunk PROVE SpaceInv'
<1>1. /\ step = "chunk" /\ step' = "chunk"
      /\ UNCHANGED <<listed, files, at, current_sector>>
      /\ write_left' = write_left - WriteSize
      /\ at + 1 \in DOMAIN files
  BY DEF CopyChunk, enumVars, CopyInv, CopyPlace
<1>2. /\ WriteSize \in Nat /\ WriteSize <= write_left
      /\ Len(out) \in Nat /\ Len(out') = Len(out) + WriteSize
      /\ write_left \in Int
  BY ChunkAppends DEF CopyInv, CopyTypes
<1> SUFFICES ASSUME SizesInRange
             PROVE  /\ write_left' <= Size(at + 1)
                    /\ write_left' >= 0
                    /\ Len(out') + write_left'
                         = Sector * SectorsUpTo(at) + Size(at + 1)
                    /\ current_sector = SectorsUpTo(at + 1)
  BY <1>1, SpaceAfter
<1>3. /\ write_left <= Size(at + 1)
      /\ Len(out) + write_left = Sector * SectorsUpTo(at) + Size(at + 1)
      /\ current_sector = SectorsUpTo(at + 1)
  BY <1>1 DEF SpaceInv
<1> QED BY <1>1, <1>2, <1>3, ThisFile

(* What is out before the padding and after it.                            *)
LEMMA PadFacts ==
  ASSUME CopyInv, SpaceInv, SizesInRange, PadFile
  PROVE  /\ step = "chunk" /\ step' = "file" /\ at' = at + 1
         /\ UNCHANGED <<disk, touched, listed, files, current_sector>>
         /\ at + 1 \in DOMAIN files
         /\ write_left = 0
         /\ Len(out) \in Nat
         /\ Len(out) = Sector * SectorsUpTo(at) + Size(at + 1)
         /\ Len(out') = Sector * SectorsUpTo(at + 1)
         /\ \A j \in 1 .. Len(out) : out'[j] = out[j]
         /\ \A k \in 1 .. Padding(Size(at + 1)) : out'[Len(out) + k] = Zero
<1>1. /\ step = "chunk" /\ step' = "file" /\ at' = at + 1
      /\ UNCHANGED <<disk, touched, listed, files, current_sector>>
      /\ write_left <= 0
      /\ out' = out \o [i \in 1 .. Padding(Size(at + 1)) |-> Zero]
  BY DEF PadFile, enumVars, source
<1>2. at + 1 \in DOMAIN files /\ write_left \in Int /\ out \in Seq(Byte)
  BY <1>1 DEF CopyInv, CopyPlace, CopyTypes
<1>3. /\ Size(at + 1) \in Nat /\ Padding(Size(at + 1)) \in Nat
      /\ Sector * SectorsUpTo(at) \in Nat
      /\ Sector * SectorsUpTo(at + 1)
           = Sector * SectorsUpTo(at) + Size(at + 1) + Padding(Size(at + 1))
  BY <1>1, <1>2, ThisFile
<1>4. /\ write_left >= 0
      /\ Len(out) + write_left = Sector * SectorsUpTo(at) + Size(at + 1)
  BY <1>1 DEF SpaceInv
<1>5. /\ Len(out) \in Nat
      /\ Len(out') = Len(out) + Padding(Size(at + 1))
      /\ \A j \in 1 .. Len(out) : out'[j] = out[j]
      /\ \A k \in 1 .. Padding(Size(at + 1)) : out'[Len(out) + k] = Zero
  BY <1>1, <1>2, <1>3, PadAppends
<1>6. write_left = 0
  BY <1>1, <1>2, <1>4
<1>7. Len(out) = Sector * SectorsUpTo(at) + Size(at + 1)
  BY <1>4, <1>5, <1>6
<1>8. Len(out') = Sector * SectorsUpTo(at + 1)
  BY <1>3, <1>5, <1>7
<1> QED BY <1>1, <1>2, <1>5, <1>6, <1>7, <1>8

(* and padding completes the file's sectors.                               *)
LEMMA SpacePad == ASSUME CopyInv, SpaceInv, PadFile PROVE SpaceInv'
<1>1. step = "chunk" /\ step' = "file" /\ UNCHANGED <<listed, files>>
  BY DEF PadFile, enumVars
<1> SUFFICES ASSUME SizesInRange
             PROVE  /\ Len(out') = Sector * SectorsUpTo(at')
                    /\ current_sector' = SectorsUpTo(at')
  BY <1>1, SpaceAfter
<1>2. /\ at' = at + 1 /\ current_sector' = current_sector
      /\ Len(out') = Sector * SectorsUpTo(at + 1)
  BY PadFacts
<1>3. current_sector = SectorsUpTo(at + 1)
  BY <1>1 DEF SpaceInv
<1> QED BY <1>2, <1>3

(* The steps that copy nothing.                                            *)
LEMMA NothingCopied ==
  ASSUME CopyInv, [Next]_vars, ~OpenFile, ~CopyChunk, ~PadFile
  PROVE  \/ step' \notin {"file", "chunk"}
         \/ /\ Allocate /\ step' = "file"
            /\ at' = 0 /\ out' = <<>> /\ current_sector' = 0
            /\ UNCHANGED <<listed, files>>
         \/ /\ step' = step
            /\ UNCHANGED <<listed, files, at, out, current_sector, write_left>>
            /\ \/ UNCHANGED <<disk, touched, in_file>>
               \/ ChangeSource
<1>1. CASE Enumerate
  BY <1>1 DEF Enumerate, GetFiles, OpenDirectory, OpenFails, ReadEntry,
              StatEntry, EndDirectory
<1>2. CASE Later
  <2>1. CASE Allocate
    BY <2>1 DEF Allocate, CopyInv, CopyPlace, enumVars
  <2>2. CASE Plan \/ FileMissing \/ OverrunEnds \/ FilesCopied
    BY <2>2 DEF Plan, FileMissing, OverrunEnds, FilesCopied
  <2> QED BY <1>2, <2>1, <2>2 DEF Later
<1>3. CASE SetFileBuffer
  BY <1>3 DEF SetFileBuffer, source, enumVars, copyVars
<1>4. CASE ChangeSource
  BY <1>4 DEF ChangeSource, enumVars, copyVars
<1>5. CASE UNCHANGED vars
  BY <1>5 DEF vars, source, enumVars, copyVars
<1> QED BY <1>1, <1>2, <1>3, <1>4, <1>5, StepKinds

(* So every step keeps the count.                                          *)
LEMMA SpaceNext == CopyInv /\ SpaceInv /\ [Next]_vars => SpaceInv'
<1> SUFFICES ASSUME CopyInv, SpaceInv, [Next]_vars PROVE SpaceInv'
  OBVIOUS
<1>1. CASE OpenFile
  BY <1>1, SpaceOpen
<1>2. CASE CopyChunk
  BY <1>2, SpaceTurn
<1>3. CASE PadFile
  BY <1>3, SpacePad
<1>4. CASE step' \notin {"file", "chunk"}
  BY <1>4 DEF SpaceInv
<1>5. CASE /\ step' = "file" /\ at' = 0 /\ out' = <<>> /\ current_sector' = 0
           /\ UNCHANGED <<listed, files>>
  <2>1. SectorsUpTo(0) = 0 /\ Len(<<>>) = 0 /\ Sector * 0 = 0
    BY SectorsStart, EmptySeq, CopyAssumption
  <2> QED BY <1>5, <2>1, SpaceAfter
<1>6. CASE /\ step' = step
           /\ UNCHANGED <<listed, files, at, out, current_sector, write_left>>
  BY <1>6, SpaceAfter DEF SpaceInv
<1> QED BY <1>1, <1>2, <1>3, <1>4, <1>5, <1>6, NothingCopied

(* After each file the image has grown by the sectors the planner gave it, *)
(* which are those of the file entry and those current_sector counts       *)
(* (write_file_tree and SectorManager::write_file), whatever became of the *)
(* files since they were listed, in chunks of any size.                    *)
THEOREM SectorsStayInStep == Spec => []SectorsAgree
<1>1. Init => SpaceInv
  BY DEF Init, EnumInit, SpaceInv
<1>2. SpaceInv => SectorsAgree
  <2> SUFFICES ASSUME SpaceInv, SizesInRange, NEW i \in DOMAIN files
               PROVE  SectorsSpace(Size(i)) = PlannedSectors(Size(i))
    BY DEF SectorsAgree, SpaceInv
  <2> QED BY SpaceIsPlanned DEF SizesInRange
<1> QED BY CopyInvariant, SpaceNext, <1>1, <1>2, PTL DEF Spec

-----------------------------------------------------------------------------
(* The contents.  Copied and BeingCopied after a step, in terms of the plan*)
(* before it.                                                              *)
LEMMA ContentAfter ==
  ASSUME UNCHANGED <<listed, files>>, NEW i
  PROVE  /\ Copied(i)' <=>
              /\ Sector * SectorsUpTo(i) <= Len(out')
              /\ SameFile(i)' =>
                   /\ \A k \in 1 .. Size(i) :
                        out'[Sector * SectorsUpTo(i - 1) + k]
                          = <<files[i], disk'[files[i]].version, k>>
                   /\ \A k \in 1 .. Padding(Size(i)) :
                        out'[Sector * SectorsUpTo(i - 1) + (Size(i) + k)] = Zero
         /\ BeingCopied(i)' <=>
              (SameFile(i)' =>
                 /\ in_file'.bytes = Bytes(disk', files[i])
                 /\ in_file'.read + write_left' = Size(i)
                 /\ \A k \in 1 .. in_file'.read :
                      out'[Sector * SectorsUpTo(i - 1) + k]
                        = <<files[i], disk'[files[i]].version, k>>)
         /\ SameFile(i)' <=>
              /\ files[i] \in DOMAIN disk' /\ Untouched(files[i])'
              /\ disk'[files[i]].kind = "file"
BY DEF Copied, BeingCopied, SameFile, OutOf, ByteOf, SectorsUpTo, Size,
       Bytes, Untouched

(* The sectors of a file that is copied.                                   *)
LEMMA CopiedFile ==
  ASSUME CopyInv, SizesInRange, NEW i \in 1 .. at
  PROVE  /\ i \in DOMAIN files
         /\ SectorsUpTo(i - 1) \in Nat
         /\ Sector * SectorsUpTo(i - 1) \in Nat
         /\ Size(i) \in Nat /\ Padding(Size(i)) \in Nat
         /\ Sector * SectorsUpTo(i)
              = Sector * SectorsUpTo(i - 1) + Size(i) + Padding(Size(i))
<1>1. /\ at \in Nat /\ DOMAIN files = 1 .. Len(files) /\ Len(files) \in Nat
      /\ at <= Len(files)
  BY DEF CopyInv, CopyTypes
<1> DEFINE k == i - 1
<1>2. k \in Nat /\ k + 1 = i /\ i \in DOMAIN files
  BY <1>1
<1>3. \A j \in 1 .. k : j \in DOMAIN files
  BY <1>1
<1> HIDE DEF k
<1>4. /\ SectorsUpTo(k) \in Nat /\ Size(k + 1) \in Nat
      /\ Sector * SectorsUpTo(k + 1)
           = Sector * SectorsUpTo(k) + Size(k + 1) + Padding(Size(k + 1))
  BY <1>2, <1>3, SectorsOfNext
<1>5. Padding(Size(k + 1)) \in Nat /\ Sector * SectorsUpTo(k) \in Nat
  BY <1>4, SectorCount, CopyAssumption
<1> QED BY <1>2, <1>4, <1>5 DEF k

(* What is copied stays: nothing is written in front of the end of `out`.  *)
LEMMA CopiedStays ==
  ASSUME CopyInv, SizesInRange, UNCHANGED <<listed, files>>,
         NEW i \in 1 .. at, Copied(i),
         Len(out) \in Nat, Len(out') \in Nat, Len(out) <= Len(out'),
         \A j \in 1 .. Len(out) : out'[j] = out[j],
         SameFile(i)' => SameFile(i) /\ disk'[files[i]] = disk[files[i]]
  PROVE  Copied(i)'
<1> DEFINE start == Sector * SectorsUpTo(i - 1)
<1>1. /\ start \in Nat /\ Size(i) \in Nat /\ Padding(Size(i)) \in Nat
      /\ Sector * SectorsUpTo(i) = start + Size(i) + Padding(Size(i))
  BY CopiedFile
<1>2. Sector * SectorsUpTo(i) <= Len(out)
  BY DEF Copied
<1>3. SameFile(i) =>
        /\ \A k \in 1 .. Size(i) :
             out[start + k] = <<files[i], disk[files[i]].version, k>>
        /\ \A k \in 1 .. Padding(Size(i)) : out[start + (Size(i) + k)] = Zero
  BY DEF Copied, OutOf, ByteOf
<1> HIDE DEF start
<1>4. Sector * SectorsUpTo(i) <= Len(out')
  BY <1>1, <1>2
<1>5. ASSUME SameFile(i)'
      PROVE  /\ \A k \in 1 .. Size(i) :
                  out'[start + k] = <<files[i], disk'[files[i]].version, k>>
             /\ \A k \in 1 .. Padding(Size(i)) :
                  out'[start + (Size(i) + k)] = Zero
  <2>1. SameFile(i) /\ disk'[files[i]] = disk[files[i]]
    BY <1>5
  <2>2. \A k \in 1 .. Size(i) : start + k \in 1 .. Len(out)
    BY <1>1, <1>2
  <2>3. \A k \in 1 .. Padding(Size(i)) : start + (Size(i) + k) \in 1 .. Len(out)
    BY <1>1, <1>2
  <2> QED BY <1>3, <2>1, <2>2, <2>3
<1> QED BY <1>4, <1>5, ContentAfter DEF start

(* A listed file that nobody changed has the size it was listed with, and  *)
(* as many bytes.                                                          *)
LEMMA SameSize ==
  ASSUME CopyInv, NEW i, files[i] \in DOMAIN listed, SameFile(i)
  PROVE  /\ disk[files[i]].size = Size(i)
         /\ disk[files[i]].data = Size(i)
         /\ files[i] \in DOMAIN disk /\ IsDisk(disk)
<1>1. files[i] \in DOMAIN disk /\ IsDisk(disk)
  BY DEF SameFile, CopyInv, EnumInv
<1>2. disk[files[i]].size = Size(i)
  BY <1>1 DEF CopyInv, EnumInv, KindInv, SameFile, Size
<1>3. disk[files[i]].data = disk[files[i]].size
  BY <1>1 DEF IsDisk, SameFile
<1> QED BY <1>1, <1>2, <1>3

(* A turn of the loop appends the file's next bytes,                       *)
LEMMA ContentTurn ==
  ASSUME CopyInv, SpaceInv, ContentInv, SizesInRange, CopyChunk
  PROVE  /\ \A i \in 1 .. at : Copied(i)'
         /\ \A i \in {at + 1} : BeingCopied(i)'
<1>1. /\ step = "chunk"
      /\ UNCHANGED <<disk, touched, listed, files, at>>
      /\ in_file' = [in_file EXCEPT !.read =
           @ + (IF WriteSize < Left THEN WriteSize ELSE Left)]
      /\ write_left' = write_left - WriteSize
      /\ write_left > 0
      /\ at + 1 \in DOMAIN files /\ at \in Nat
      /\ files[at + 1] \in DOMAIN listed
  BY SizeTyped DEF CopyChunk, enumVars, source, CopyInv, CopyPlace, CopyTypes
<1>2. /\ WriteSize \in Nat /\ WriteSize <= write_left
      /\ Len(out) \in Nat /\ Len(out') = Len(out) + WriteSize
      /\ \A j \in 1 .. Len(out) : out'[j] = out[j]
      /\ \A i \in 1 .. WriteSize : in_file.read + i <= Len(in_file.bytes) =>
           out'[Len(out) + i] = in_file.bytes[in_file.read + i]
  BY ChunkAppends DEF CopyInv
<1>3. /\ in_file \in [path : Seq(Nat), bytes : Seq(Byte), read : Nat]
      /\ write_left \in Int
  BY DEF CopyInv, CopyTypes
<1>4. \A i \in 1 .. at : Copied(i)'
  <2>1. \A i : SameFile(i)' <=> SameFile(i)
    BY <1>1 DEF SameFile, Untouched
  <2>2. \A i \in 1 .. at : Copied(i)
    BY <1>1 DEF ContentInv
  <2>3. Len(out') \in Nat /\ Len(out) <= Len(out')
    BY <1>2
  <2> QED BY <1>1, <1>2, <2>1, <2>2, <2>3, CopiedStays
<1>5. ASSUME NEW n, n = at + 1
      PROVE  BeingCopied(n)'
  <2> DEFINE start == Sector * SectorsUpTo(n - 1)
             p == files[n]
  <2>1. n - 1 = at /\ n \in DOMAIN files /\ p \in DOMAIN listed
    BY <1>1, <1>5
  <2>2. start \in Nat /\ Size(n) \in Nat /\ Len(out) + write_left = start + Size(n)
    BY <1>1, <1>5, <2>1, ThisFile DEF SpaceInv
  <2> SUFFICES ASSUME SameFile(n)
               PROVE  /\ in_file'.bytes = Bytes(disk, p)
                      /\ in_file'.read + write_left' = Size(n)
                      /\ \A k \in 1 .. in_file'.read :
                           out'[start + k] = <<p, disk[p].version, k>>
    <3>1. SameFile(n)' => SameFile(n)
      BY <1>1 DEF SameFile, Untouched
    <3> QED BY <1>1, <3>1, ContentAfter
  <2>3. BeingCopied(n)
    BY <1>1, <1>5 DEF ContentInv
  <2>4. /\ in_file.bytes = Bytes(disk, p)
        /\ in_file.read + write_left = Size(n)
        /\ \A k \in 1 .. in_file.read :
             out[start + k] = <<p, disk[p].version, k>>
    BY <2>1, <2>3 DEF BeingCopied, OutOf, ByteOf
  <2>5. /\ Len(in_file.bytes) = Size(n)
        /\ \A k \in 1 .. Size(n) :
             in_file.bytes[k] = <<p, disk[p].version, k>>
    BY <2>1, <2>4, SameSize, BytesTyped
  <2> HIDE DEF start, p
  <2>6. /\ in_file.read \in Nat
        /\ in_file.read < Len(in_file.bytes)
        /\ WriteSize <= Left
    <3>1. in_file.read \in Nat
      BY <1>3
    <3>2. write_left = Len(in_file.bytes) - in_file.read
      BY <1>3, <2>2, <2>4, <2>5, <3>1
    <3>3. in_file.read < Len(in_file.bytes)
      BY <1>1, <1>3, <2>2, <2>5, <3>1, <3>2
    <3>4. Left = write_left
      BY <3>2, <3>3 DEF Left
    <3> QED BY <1>2, <3>1, <3>3, <3>4
  <2> DEFINE r == in_file.read + WriteSize
  <2>7. in_file' = [in_file EXCEPT !.read = r]
    <3>1. Left \in Nat
      BY <2>2, <2>5, <2>6 DEF Left
    <3>2. (IF WriteSize < Left THEN WriteSize ELSE Left) = WriteSize
      BY <1>2, <2>6, <3>1
    <3> QED BY <1>1, <3>2
  <2>8. in_file'.bytes = in_file.bytes /\ in_file'.read = r
    BY <1>3, <2>7
  <2>9. Len(out) = start + in_file.read
    BY <1>2, <1>3, <2>2, <2>4, <2>6
  <2>10. ASSUME NEW k \in 1 .. r
         PROVE  out'[start + k] = <<p, disk[p].version, k>>
    <3>1. r \in Nat /\ r <= Size(n) /\ k \in 1 .. Size(n)
      BY <1>2, <1>3, <2>2, <2>4, <2>6
    <3>2. CASE k <= in_file.read
      <4>1. start + k \in 1 .. Len(out) /\ k \in 1 .. in_file.read
        BY <2>2, <2>6, <2>9, <3>1, <3>2
      <4> QED BY <1>2, <2>4, <4>1
    <3>3. CASE k > in_file.read
      <4> DEFINE i == k - in_file.read
      <4>1. /\ i \in 1 .. WriteSize
            /\ in_file.read + i = k
            /\ Len(out) + i = start + k
        <5>1. /\ k \in Nat /\ k <= in_file.read + WriteSize
              /\ in_file.read \in Nat /\ WriteSize \in Nat
          BY <1>2, <2>6
        <5> QED BY <2>2, <2>9, <3>3, <5>1
      <4> HIDE DEF i
      <4>2. in_file.read + i <= Len(in_file.bytes)
        BY <2>2, <2>5, <3>1, <4>1
      <4>3. out'[start + k] = in_file.bytes[k]
        BY <1>2, <4>1, <4>2
      <4> QED BY <2>5, <3>1, <4>3
    <3> QED BY <2>6, <3>1, <3>2, <3>3
  <2>11. in_file'.read + write_left' = Size(n)
    BY <1>1, <1>2, <1>3, <2>4, <2>6, <2>8
  <2> HIDE DEF r
  <2> QED BY <2>4, <2>8, <2>10, <2>11
<1> QED BY <1>4, <1>5

(* padding appends zeros,                                                  *)
LEMMA ContentPad ==
  ASSUME CopyInv, SpaceInv, ContentInv, SizesInRange, PadFile
  PROVE  \A i \in 1 .. at + 1 : Copied(i)'
<1>1. /\ step = "chunk"
      /\ UNCHANGED <<disk, touched, listed, files>>
      /\ at + 1 \in DOMAIN files
      /\ write_left = 0
      /\ Len(out) \in Nat
      /\ Len(out) = Sector * SectorsUpTo(at) + Size(at + 1)
      /\ Len(out') = Sector * SectorsUpTo(at + 1)
      /\ \A j \in 1 .. Len(out) : out'[j] = out[j]
      /\ \A k \in 1 .. Padding(Size(at + 1)) : out'[Len(out) + k] = Zero
  BY PadFacts
<1>2. /\ at \in Nat /\ Sector * SectorsUpTo(at) \in Nat
      /\ Size(at + 1) \in Nat /\ Padding(Size(at + 1)) \in Nat
      /\ Sector * SectorsUpTo(at + 1)
           = Sector * SectorsUpTo(at) + Size(at + 1) + Padding(Size(at + 1))
  BY <1>1, ThisFile
<1>3. Len(out') \in Nat /\ Len(out) <= Len(out')
  BY <1>1, <1>2
<1>4. \A i : SameFile(i)' <=> SameFile(i)
  BY <1>1 DEF SameFile, Untouched
<1>5. \A i \in 1 .. at : Copied(i)'
  <2>1. \A i \in 1 .. at : Copied(i)
    BY <1>1 DEF ContentInv
  <2> QED BY <1>1, <1>3, <1>4, <2>1, CopiedStays
<1>6. ASSUME NEW n, n = at + 1
      PROVE  Copied(n)'
  <2> DEFINE start == Sector * SectorsUpTo(n - 1)
             p == files[n]
  <2>1. n - 1 = at
    BY <1>2, <1>6
  <2>2. start \in Nat /\ Len(out) = start + Size(n) /\ Size(n) \in Nat
    BY <1>1, <1>2, <1>6, <2>1
  <2>3. Sector * SectorsUpTo(n) <= Len(out')
    BY <1>1, <1>2, <1>6
  <2> SUFFICES ASSUME SameFile(n)
               PROVE  /\ \A k \in 1 .. Size(n) :
                           out'[start + k] = <<p, disk[p].version, k>>
                      /\ \A k \in 1 .. Padding(Size(n)) :
                           out'[start + (Size(n) + k)] = Zero
    BY <1>1, <1>4, <2>3, ContentAfter
  <2>4. /\ in_file.read + write_left = Size(n)
        /\ \A k \in 1 .. in_file.read :
             out[start + k] = <<p, disk[p].version, k>>
    <3>1. BeingCopied(n)
      BY <1>1, <1>6 DEF ContentInv
    <3> QED BY <3>1 DEF BeingCopied, OutOf, ByteOf
  <2> HIDE DEF p, start
  <2>5. in_file.read = Size(n)
    <3>1. in_file.read \in Nat
      BY DEF CopyInv, CopyTypes
    <3> QED BY <1>1, <2>4, <3>1
  <2>6. \A k \in 1 .. Size(n) : start + k \in 1 .. Len(out)
    BY <2>2
  <2>7. \A k \in 1 .. Padding(Size(n)) : start + (Size(n) + k) = Len(out) + k
    BY <1>2, <1>6, <2>2
  <2> QED BY <1>1, <1>6, <2>4, <2>5, <2>6, <2>7
<1> SUFFICES ASSUME NEW i \in 1 .. at + 1 PROVE Copied(i)'
  OBVIOUS
<1>7. i \in 1 .. at \/ i = at + 1
  BY <1>2
<1> QED BY <1>5, <1>6, <1>7

(* A file that is left as it was by a change of another is still the same. *)
LEMMA SameFileBefore ==
  ASSUME CopyInv, UNCHANGED <<listed, files>>, NEW i, SameFile(i)',
         \/ UNCHANGED <<disk, touched, in_file>>
         \/ IsDisk(disk') /\ ChangeSource
  PROVE  /\ SameFile(i) /\ disk'[files[i]] = disk[files[i]]
         /\ in_file'.read = in_file.read
         /\ in_file.path = files[i] => in_file' = in_file
<1>1. /\ files[i] \in DOMAIN disk' /\ Untouched(files[i])'
      /\ disk'[files[i]].kind = "file"
  BY ContentAfter
<1>2. CASE UNCHANGED <<disk, touched, in_file>>
  BY <1>1, <1>2 DEF SameFile, Untouched
<1>3. CASE IsDisk(disk') /\ ChangeSource
  <2>1. PICK q \in DOMAIN disk :
          /\ touched' = touched \cup {q}
          /\ \A p \in DOMAIN disk' : p \in DOMAIN disk
          /\ \A p \in DOMAIN disk' : ~Below(q, p) => disk'[p] = disk[p]
          /\ in_file.path # q => in_file' = in_file
    BY <1>3, ChangeFacts
  <2>2. ~Below(q, files[i]) /\ Untouched(files[i])
    BY <1>1, <2>1 DEF Untouched
  <2>3. Below(q, q)
    BY BelowItself DEF CopyInv, EnumInv, IsDisk
  <2>4. in_file'.read = in_file.read
    BY <1>3, ChangeFacts
  <2> QED BY <1>1, <2>1, <2>2, <2>3, <2>4 DEF SameFile
<1> QED BY <1>2, <1>3

(* so every step keeps what has been copied of an untouched file.          *)
LEMMA ContentNext ==
  CopyInv /\ SpaceInv /\ ContentInv /\ [Next]_vars => ContentInv'
<1> SUFFICES ASSUME CopyInv, SpaceInv, ContentInv, [Next]_vars,
                    SizesInRange', step' \in {"file", "chunk"}
             PROVE  /\ \A i \in 1 .. at' : Copied(i)'
                    /\ step' = "chunk" =>
                         \A i \in {at' + 1} : BeingCopied(i)'
  BY DEF ContentInv
<1>1. CASE OpenFile
  <2>1. /\ step = "file" /\ step' = "chunk" /\ at + 1 \in DOMAIN files
        /\ UNCHANGED <<disk, touched, listed, files, at, out>>
        /\ in_file' = [path |-> files[at + 1],
                       bytes |-> Bytes(disk, files[at + 1]), read |-> 0]
        /\ write_left' = Size(at + 1)
    BY <1>1 DEF OpenFile, enumVars, source
  <2>2. SizesInRange /\ \A i : SameFile(i)' <=> SameFile(i)
    BY <2>1, SectorsStay DEF SameFile, Untouched
  <2>3. Len(out) \in Nat
    BY LenProperties DEF CopyInv, CopyTypes
  <2>4. \A i \in 1 .. at : Copied(i)
    BY <2>1, <2>2 DEF ContentInv
  <2>5. \A i \in 1 .. at : Copied(i)'
    BY <2>1, <2>2, <2>3, <2>4, CopiedStays
  <2>6. ASSUME NEW i, i = at + 1
        PROVE  BeingCopied(i)'
    <3>1. /\ in_file'.bytes = Bytes(disk', files[i])
          /\ in_file'.read + write_left' = Size(i)
          /\ in_file'.read = 0
      BY <2>1, <2>2, <2>6, ThisFile
    <3>2. 1 .. in_file'.read = {}
      BY <3>1
    <3> QED BY <2>1, <3>1, <3>2, ContentAfter
  <2> QED BY <2>1, <2>5, <2>6
<1>2. CASE CopyChunk
  <2>1. UNCHANGED <<listed, files, at>>
    BY <1>2 DEF CopyChunk, enumVars
  <2>2. SizesInRange
    BY <2>1, SectorsStay
  <2> QED BY <1>2, <2>1, <2>2, ContentTurn
<1>3. CASE PadFile
  <2>1. UNCHANGED <<listed, files>> /\ at' = at + 1 /\ step' = "file"
    BY <1>3 DEF PadFile, enumVars
  <2>2. SizesInRange
    BY <2>1, SectorsStay
  <2> QED BY <1>3, <2>1, <2>2, ContentPad
<1>4. CASE step' = "file" /\ at' = 0
  BY <1>4
<1>5. CASE /\ step' = step
           /\ UNCHANGED <<listed, files, at, out, write_left>>
           /\ \/ UNCHANGED <<disk, touched, in_file>>
              \/ ChangeSource
  <2>1. IsDisk(disk')
    BY CopyNext DEF CopyInv, EnumInv
  <2>2. SizesInRange
    BY <1>5, SectorsStay
  <2>3. Len(out) \in Nat
    BY LenProperties DEF CopyInv, CopyTypes
  <2>4. \A i : SameFile(i)' =>
          /\ SameFile(i) /\ disk'[files[i]] = disk[files[i]]
          /\ in_file'.read = in_file.read
          /\ in_file.path = files[i] => in_file' = in_file
    BY <1>5, <2>1, SameFileBefore
  <2>5. \A i \in 1 .. at : Copied(i)'
    <3>1. \A i \in 1 .. at : Copied(i)
      BY <1>5, <2>2 DEF ContentInv
    <3>2. Len(out') \in Nat /\ Len(out) <= Len(out')
          /\ \A j \in 1 .. Len(out) : out'[j] = out[j]
      BY <1>5, <2>3
    <3> QED BY <1>5, <2>2, <2>3, <2>4, <3>1, <3>2, CopiedStays
  <2>6. ASSUME step = "chunk", NEW i, i = at + 1
        PROVE  BeingCopied(i)'
    <3>1. BeingCopied(i) /\ in_file.path = files[i]
      BY <2>2, <2>6 DEF ContentInv, CopyInv, CopyPlace
    <3>2. SameFile(i) =>
            /\ in_file.bytes = Bytes(disk, files[i])
            /\ in_file.read + write_left = Size(i)
            /\ \A k \in 1 .. in_file.read :
                 out[Sector * SectorsUpTo(i - 1) + k]
                   = <<files[i], disk[files[i]].version, k>>
      BY <3>1 DEF BeingCopied, OutOf, ByteOf
    <3>3. ASSUME SameFile(i)'
          PROVE  /\ in_file' = in_file /\ SameFile(i)
                 /\ disk'[files[i]] = disk[files[i]]
                 /\ Bytes(disk', files[i]) = Bytes(disk, files[i])
      BY <2>4, <3>1, <3>3 DEF Bytes
    <3> QED BY <1>5, <3>2, <3>3, ContentAfter
  <2> QED BY <1>5, <2>5, <2>6
<1> QED BY <1>1, <1>2, <1>3, <1>4, <1>5, NothingCopied

(* A copied file's part of the image, as UntouchedCopied cuts it out.      *)
LEMMA CutOut ==
  ASSUME CopyInv, SizesInRange, NEW i \in 1 .. at, Copied(i), SameFile(i),
         files[i] \in DOMAIN listed
  PROVE  SubSeq(out, Sector * SectorsUpTo(i - 1) + 1, Sector * SectorsUpTo(i))
           = Bytes(disk, files[i]) \o [k \in 1 .. Padding(Size(i)) |-> Zero]
<1> DEFINE start == Sector * SectorsUpTo(i - 1)
           end == Sector * SectorsUpTo(i)
           n == Size(i)
           m == Padding(Size(i))
           bytes == Bytes(disk, files[i])
           zeros == [k \in 1 .. m |-> Zero]
           cut == SubSeq(out, start + 1, end)
<1>1. start \in Nat /\ n \in Nat /\ m \in Nat /\ end = start + n + m
  BY CopiedFile
<1>2. end <= Len(out) /\ out \in Seq(Byte) /\ Len(out) \in Nat
  BY LenProperties DEF Copied, CopyInv, CopyTypes
<1>3. /\ \A k \in 1 .. n : out[start + k] = ByteOf(i, k)
      /\ \A k \in 1 .. m : out[start + (n + k)] = Zero
  BY DEF Copied, OutOf
<1>4. /\ bytes \in Seq(Byte) /\ Len(bytes) = n
      /\ \A k \in 1 .. n : bytes[k] = ByteOf(i, k)
  BY SameSize, BytesTyped DEF ByteOf
<1>5. zeros \in Seq(Byte) /\ Len(zeros) = m /\ \A k \in 1 .. m : zeros[k] = Zero
  <2>1. Zero \in Byte
    BY DEF Byte
  <2> HIDE DEF m
  <2> QED BY <1>1, <2>1, ZerosTyped
<1> HIDE DEF start, end, n, m, bytes, zeros
<1>6. /\ cut \in Seq(Byte) /\ Len(cut) = n + m
      /\ \A j \in 1 .. n + m : cut[j] = out[start + j]
  <2>1. start + 1 \in Int /\ end \in Int
    BY <1>1
  <2>2. \A j \in start + 1 .. end : out[j] \in Byte
    <3>1. \A j \in 1 .. Len(out) : out[j] \in Byte
      BY <1>2, ElementOfSeq
    <3> QED BY <1>1, <1>2, <3>1
  <2>3. /\ cut \in Seq(Byte)
        /\ Len(cut) = IF start + 1 <= end THEN end - (start + 1) + 1 ELSE 0
        /\ \A j \in 1 .. end - (start + 1) + 1 :
             cut[j] = out[start + 1 + j - 1]
    BY <2>1, <2>2, SubSeqProperties
  <2> HIDE DEF cut
  <2>4. end - (start + 1) + 1 = n + m /\ start + 1 <= end <=> n + m # 0
    BY <1>1
  <2>5. \A j \in 1 .. n + m : start + 1 + j - 1 = start + j
    BY <1>1
  <2>6. Len(cut) = n + m
    BY <1>1, <2>3
  <2> QED BY <2>3, <2>4, <2>5, <2>6, SMTT(30)
<1>7. /\ bytes \o zeros \in Seq(Byte)
      /\ Len(bytes \o zeros) = n + m
      /\ \A j \in 1 .. n + m : (bytes \o zeros)[j] =
           IF j <= n THEN bytes[j] ELSE zeros[j - n]
  <2>1. bytes \in Seq(Byte) /\ zeros \in Seq(Byte)
    BY <1>4, <1>5
  <2>2. /\ bytes \o zeros \in Seq(Byte)
        /\ Len(bytes \o zeros) = Len(bytes) + Len(zeros)
        /\ \A j \in 1 .. Len(bytes) + Len(zeros) : (bytes \o zeros)[j] =
             IF j <= Len(bytes) THEN bytes[j] ELSE zeros[j - Len(bytes)]
    BY ONLY <2>1, ConcatProperties, ZenonT(30)
  <2>3. Len(bytes) = n /\ Len(zeros) = m
    BY <1>4, <1>5
  <2> QED BY ONLY <2>2, <2>3, ZenonT(30)
<1> HIDE DEF cut
<1>8. ASSUME NEW j \in 1 .. n + m
      PROVE  cut[j] = (bytes \o zeros)[j]
  <2>1. CASE j <= n
    <3>1. j \in 1 .. n
      BY <1>1, <2>1
    <3> QED BY <1>3, <1>4, <1>6, <1>7, <2>1, <3>1
  <2>2. CASE ~(j <= n)
    <3>1. j - n \in 1 .. m /\ n + (j - n) = j
      BY <1>1, <2>2
    <3>2. out[start + j] = Zero /\ zeros[j - n] = Zero
      BY <1>3, <1>5, <3>1
    <3> QED BY <1>6, <1>7, <2>2, <3>2
  <2> QED BY <2>1, <2>2
<1>9. cut = bytes \o zeros
  BY <1>6, <1>7, <1>8, SeqEqual
<1> QED BY <1>9 DEF cut, bytes, zeros, start, end, m, n

(* A file that nobody changed is in the image byte for byte, from the first*)
(* of the sectors it was given, with zeros behind it (write_file_tree,     *)
(* write_file and pad_sector): for every disk, buffer size and chunking,   *)
(* and whatever happens to the other files meanwhile.                      *)
THEOREM UntouchedAreCopied == Spec => []UntouchedCopied
<1>1. Init => SpaceInv /\ ContentInv
  BY DEF Init, EnumInit, SpaceInv, ContentInv
<1>2. ContentInv /\ CopyInv => UntouchedCopied
  <2> SUFFICES ASSUME ContentInv, CopyInv, step = "file", SizesInRange,
                      NEW i \in 1 .. at,
                      files[i] \in DOMAIN disk, Untouched(files[i]),
                      disk[files[i]].kind = "file"
               PROVE  SubSeq(out, Sector * SectorsUpTo(i - 1) + 1,
                             Sector * SectorsUpTo(i))
                        = Bytes(disk, files[i])
                            \o [k \in 1 .. Padding(Size(i)) |-> Zero]
    BY DEF UntouchedCopied
  <2>1. Copied(i) /\ SameFile(i)
    BY DEF ContentInv, SameFile
  <2>2. files[i] \in DOMAIN listed
    BY CopiedFile, SizeTyped
  <2> QED BY <2>1, <2>2, CutOut
<1>3. SpaceInv /\ ContentInv /\ CopyInv /\ CopyInv' /\ [Next]_vars
        => SpaceInv' /\ ContentInv'
  BY SpaceNext, ContentNext
<1> QED BY CopyInvariant, <1>1, <1>2, <1>3, PTL DEF Spec
=============================================================================
