----------------------------- MODULE EnumFiles -----------------------------
(***************************************************************************)
(* Directory::get_files on a POSIX system (Directory.cpp): the source      *)
(* directory is listed with opendir, readdir and lstat, entry by entry,    *)
(* while other programs change it.                                         *)
(*                                                                         *)
(* A path is the sequence of names below the source directory; names are   *)
(* numbers in strcmp order.  `disk` maps the paths that exist to their     *)
(* inodes.  Of readdir it is assumed that an entry that stays is returned  *)
(* once; one that is removed while its directory is open may be returned or*)
(* not.                                                                    *)
(***************************************************************************)
EXTENDS Integers, Sequences, FiniteSets

CONSTANTS
  Disks,        \* source directories to start from
  Sizes,        \* sizes a file may be given while the program runs
  Garbage,      \* values an uninitialised st_size may have
  MaxChanges    \* bound on the changes to the source directory

Root == <<>>
Kinds == {"directory", "file", "link", "socket"}

(* size is what lstat says; data how many bytes can be read: of a file as  *)
(* many, of a link or a directory whatever it leads to or holds.           *)
Inode == [kind : Kinds, size : Nat, data : Nat, version : Nat]

Parent(p) == SubSeq(p, 1, Len(p) - 1)
Below(p, q) == Len(p) <= Len(q) /\ SubSeq(q, 1, Len(p)) = p

IsDisk(d) ==
  /\ \A p \in DOMAIN d : p \in Seq(Nat) /\ d[p] \in Inode
  /\ \A p \in DOMAIN d : d[p].kind = "file" => d[p].data = d[p].size
  /\ \A p \in DOMAIN d \ {Root} :
       Parent(p) \in DOMAIN d /\ d[Parent(p)].kind = "directory"

ASSUME EnumAssumption ==
  /\ \A d \in Disks : IsDisk(d)
  /\ Sizes \subseteq Nat /\ Garbage \subseteq Int
  /\ MaxChanges \in Nat

VARIABLES
  disk,
  changes,      \* changes made to it, and the paths they were made to
  touched,
  step,         \* where pack is
  opening,      \* the path given to the next opendir
  open_dirs,    \* the open directories, one per level of the recursion
  entry,        \* what readdir has returned, before its lstat
  listed        \* the tree: path -> [directory, size]

source == <<disk, changes, touched>>
enumVars == <<opening, open_dirs, entry, listed>>

NoEntry == [path |-> Root, kind |-> "directory"]

EnumInit ==
  /\ disk \in Disks
  /\ changes = 0 /\ touched = {}
  /\ step = "enum"
  /\ opening = Root
  /\ open_dirs = <<>>
  /\ entry = NoEntry
  /\ listed = [p \in {} |-> [directory |-> FALSE, size |-> 0]]

IsDirectoryOnDisk(p) == p \in DOMAIN disk /\ disk[p].kind = "directory"
Children(p) == {q \in DOMAIN disk \ {Root} : Parent(q) = p}

(* dir->d_type & DT_DIR, where DT_DIR is 4 and DT_SOCK is 12.              *)
IsDirectory(kind) == kind \in {"directory", "socket"}

-----------------------------------------------------------------------------
(* The check of get_files; nothing keeps the directory until it is opened  *)
(* again.                                                                  *)
GetFiles ==
  /\ step = "enum"
  /\ step' = IF IsDirectoryOnDisk(Root) THEN "opendir" ELSE "failed"
  /\ UNCHANGED <<source, enumVars>>

OpenDirectory ==
  /\ step = "opendir" /\ step' = "readdir"
  /\ IsDirectoryOnDisk(opening)
  /\ open_dirs' = Append(open_dirs,
       [path |-> opening,
        unread |-> {[path |-> q, kind |-> disk[q].kind]
                      : q \in Children(opening)}])
  /\ UNCHANGED <<source, opening, entry, listed>>

(* readdir(NULL).                                                          *)
OpenFails ==
  /\ step = "opendir" /\ step' = "terminated"
  /\ ~IsDirectoryOnDisk(opening)
  /\ UNCHANGED <<source, enumVars>>

Innermost == open_dirs[Len(open_dirs)]

ReadEntry ==
  /\ step = "readdir" /\ step' = "lstat"
  /\ \E e \in Innermost.unread :
       /\ entry' = e
       /\ open_dirs' = [open_dirs EXCEPT ![Len(open_dirs)].unread = @ \ {e}]
  /\ UNCHANGED <<source, opening, listed>>

(* lstat's result is not looked at: without a file, size is what the stack *)
(* held.  A directory is entered at once.                                  *)
StatEntry ==
  /\ step = "lstat"
  /\ \E size \in IF entry.path \in DOMAIN disk THEN {disk[entry.path].size}
                                               ELSE Garbage :
       listed' = [p \in DOMAIN listed \cup {entry.path} |->
                    IF p = entry.path
                      THEN [directory |-> IsDirectory(entry.kind),
                            size |-> size]
                      ELSE listed[p]]
  /\ IF IsDirectory(entry.kind)
       THEN step' = "opendir" /\ opening' = entry.path
       ELSE step' = "readdir" /\ UNCHANGED opening
  /\ UNCHANGED <<source, open_dirs, entry>>

AllRead == \A e \in Innermost.unread : e.path \notin DOMAIN disk

(* Fault: the end of a directory is taken for the end of its parent too.   *)
EndDirectoryAndParent ==
  /\ step = "readdir"
  /\ AllRead
  /\ LET left == Len(open_dirs) - 2
     IN  /\ open_dirs' = IF left > 0 THEN SubSeq(open_dirs, 1, left) ELSE <<>>
         /\ step' = IF left > 0 THEN "readdir" ELSE "plan"
  /\ UNCHANGED <<source, opening, entry, listed>>

EndDirectory ==
  /\ step = "readdir"
  /\ AllRead
  /\ open_dirs' = SubSeq(open_dirs, 1, Len(open_dirs) - 1)
  /\ step' = IF Len(open_dirs) > 1 THEN "readdir" ELSE "plan"
  /\ UNCHANGED <<source, opening, entry, listed>>

Enumerate ==
  \/ GetFiles
  \/ OpenDirectory
  \/ OpenFails
  \/ ReadEntry
  \/ StatEntry
  \/ EndDirectory

-----------------------------------------------------------------------------
(* What other programs do to the source directory.                         *)
Change(p, new) ==
  /\ changes < MaxChanges
  /\ changes' = changes + 1
  /\ touched' = touched \cup {p}
  /\ disk' = new

Remove(p) ==
  /\ p \in DOMAIN disk
  /\ Change(p, [q \in {q \in DOMAIN disk : ~Below(p, q)} |-> disk[q]])

Rewrite(p, size) ==
  /\ p \in DOMAIN disk /\ disk[p].kind = "file"
  /\ Change(p, [disk EXCEPT ![p] = [kind |-> "file", size |-> size,
                                    data |-> size, version |-> changes + 1]])

-----------------------------------------------------------------------------
Untouched(p) == \A q \in touched : ~Below(q, p)

Enumerating == {"enum", "failed", "opendir", "readdir", "lstat", "terminated"}

(* The tree has every entry that nobody changed, with its kind and its     *)
(* size, whatever happened to the entries around it meanwhile, and, if     *)
(* nobody changed any, it has no other (enumerate_files_recursively).      *)
UntouchedListed ==
  step \notin Enumerating =>
    /\ \A p \in DOMAIN disk \ {Root} : Untouched(p) =>
         /\ p \in DOMAIN listed
         /\ listed[p].directory = (disk[p].kind = "directory")
         /\ listed[p].size = disk[p].size
    /\ touched = {} => DOMAIN listed = DOMAIN disk \ {Root}
=============================================================================
