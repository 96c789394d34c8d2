# PS2ImageMaker in TLA+

A verification development for PS2ImageMaker, the library that turns a directory
into a PlayStation 2 DVD image (an ISO 9660 / UDF bridge volume). It holds TLA+
models of the library, TLC instances that check them, and TLAPS proofs.

## 1. The system

A client calls `start_packing(game_path, dest_path)`, which starts a thread that
runs `pack`, and then calls `poll_progress` until `finished`. `pack` lists the
directory (`Directory::get_files`), plans the image (`SectorManager`'s
constructor), writes it front to back (`write_sectors`) and reports through
`update_progress`.

| Part | State | Operations | What makes it correct |
| --- | --- | --- | --- |
| Session API, worker (`API.cpp`) | `program_progress`, `progress_copy`, `progress_dirty` under `progress_mut`; `game_path`, `dest_path`, `pack_thread`, `buffer_size` under no lock | `start_packing`, `poll_progress`, `set_file_buffer`, `update_progress`, `pack` | a poll is as fresh as the last report; `finished` means a pack ended; the client learns of the end; states in order; progress exact and never falling; each pack on its own paths |
| Directory enumeration (`Directory.cpp`, `File.cpp`) | the tree under construction | `get_files`, `enumerate_files_recursively` | what nobody touches is listed as it is, whatever happens around it |
| Tree sizes (`Directory.cpp`) | none | `get_*_amount`, `get_files_size`, `get_directory_records_space` | they count what the writer writes |
| Layout planner (`SectorManager.cpp`) | `file_sectors`, `data_sector`, `partition_start_sector`, `total_sectors`, `pad_sectors` | constructor, `_fill_file_sectors`, getters | the places it gives are where the writer comes to |
| Image writer (`API.cpp`) | `current_sector`, `cur_spec_lba`, `fi_root`, buffers | the regions of `write_sectors`, `fill_*`, `write_file_tree` | every location in the image leads to what it names; tags number the partition |
| Path table, directory records (`API.cpp`) | local buffers | `fill_path_table`, `fill_directory_record` | parents by number; no record across a sector; lengths agree |
| File copy (`SectorManager::write_file`) | `buffer_size`, the buffer | `write_file`, `pad_sector` | as many sectors as planned; untouched files exact; inside the buffer; it ends |
| UDF utilities (`Util.h`) | none | checksums, byte order, CS0 | a reader of the bytes finds what was meant |
| Test client (`Test.cpp`) | its loop | polls, clears the `new_` flags | ends, and misses nothing it prints |

Interaction: client and workers share the globals above, two of them only through
the lock; planner and writer share the tree and `file_sectors`, and otherwise agree
because each walks the same tree with counters of its own. What is hard: the
overlap of packs and polls, the path buffers rewritten under a running worker, the
argument of `update_progress` read before the lock is taken, reports overwritten
before a poll, unchecked failures that end the process, a source directory that
changes between its listing and its copy, and, in planner and writer, the sector
boundaries, fixed locations and integer widths. `PROJECT.json` lists
each under `hazards`.

## 2. The modules

`ProgressProtocol` - what the `Progress` structure of `API.h` promises: the order of
states, `finished` exactly with the final ones, a view that is always something
reported.

`PackSession` - the interface and its threads. One action is a piece of code that
touches shared state once: an `update_progress` or `poll_progress` call (each runs
under the mutex), the unlocked read of the progress before it, a `strncpy` begun or
ended, the use of a path. A path buffer holds the number of the job it belongs to,
or `Torn` between the start and end of `strncpy`; a float of progress is an integer
of `10 * Scale` units; a source directory is the number of its files. `Terminate`
is the end of the process by an unchecked null pointer or uncaught exception, in
`list`, `header` or `copy`. `SetFileBuffer` is `set_file_buffer` between two calls of
the client; of the size only 0 matters here, with which the copy of a file that is not
empty never ends (`CopyStalls`, a worker that stays `stalled`). What a changed size does
to the buffer itself is in `FileCopy`. `ClientWaits` chooses a client that calls again
only after it read `finished`, or one that calls at any time.

`EnumFiles` - `get_files` and the recursion under it as built on a POSIX system.
Each `opendir`, `readdir` and `lstat` is a step, and between any two of them another
program may remove or rewrite an entry. The recursion is the stack of open
directories. An entry whose `lstat` fails gets an arbitrary size, a socket passes the
`DT_DIR` mask and is entered. Of `readdir` (external) it is assumed that an entry
that stays is returned once, and one removed meanwhile at most once. New entries are
not created meanwhile: POSIX lets `readdir` return them or not, and either way they are
entries like the others. A file has as many readable bytes as its size; a link may have
more or fewer.

`FileCopy` - extends `EnumFiles` with the loop of `write_file_tree` and
`SectorManager::write_file`, a step per chunk. Sizes are those `lstat` gave, bytes are
`<<path, version, position>>`, so a stale byte of the buffer, a byte of a rewritten
file and padding can be told apart. `set_file_buffer` is a step of the client at any
time. The three computations of a file's sectors (planner, file entry, copy) are
separate operators. After a read past the end of the buffer the process may go on or
end.

`FileTree` - trees and the sizes computed from them. A node is the path of `readdir`
positions that leads to it, so listing order and name order are separate data.
Names are their lengths (up to the 255 bytes of a `dirent`) and their places among the
siblings' names, as they are (`rank`) and in upper case (`upper`, where two names may be
the same); files are their sizes in sectors. Both sorts of the code split paths at `/`
and at `\`, so ranks stand for names without a `\`.

`PathTable` - extends `FileTree` with the path table: the comparison it is sorted by,
the parent numbers handed out by position, the entries with their lengths and the names
written, which are upper-cased behind the sort.

`SectorManager` - the planner, an action per iteration of its two placing loops.

`ImageWriter` - extends the planner and `PathTable`: one action per region of
`write_sectors`, and per iteration of its loops over directories, entries and files.
The image is the set of *extents* written and of *pointers* written into them; a
property such as "every record leads to its file" is that pointers resolve. Record
lengths are signed chars, `cur_spec_lba` 16 bits, file sizes modulo 2^32 bytes, and
`pad_sectors` arbitrary where the code leaves it unset. `fi_root.summed` is the icb
that was in the parent descriptor when its checksum was taken.

`RecordPacking` - what ISO 9660 promises a reader of a directory: records one behind
the other, none across a sector's end. `DirectoryRecords` - the loops over one
directory's entries that have to add up to it: the data length (the same loop at three
places, without padding for the root), the size of the buffer from the records alone,
and the copy, which looks one record ahead and pads. It covers record lengths up to
127; longer names are in `ImageWriter`, where the length wraps.

`UdfUtil` - a file identifier byte by byte: the CS0 name, the 256-entry CRC table and
its loop, the tag's sum, host and media byte order. A name is any one to 255 bytes, a
block any number of 32 bits. Exclusive or is written out over the sixteen bits of an
unsigned short, each a quotient modulo 2, which the provers can reason about.
`malloc`'s contents are zeros where the code overwrites them later.

`MCPackSession`, `MCImageWriter`, `MCDirectoryRecords`, `MCFileCopy`, `MCUdfUtil` - the
instances for TLC.

`PackSession_proofs` (any client), `SerialPacks_proofs` (packs that do not overlap),
`FileCopy_proofs` (the enumeration and the copy), `FileTree_proofs`,
`ImageWriter_proofs`, `DirectoryRecords_proofs`, `UdfUtil_proofs` - the theorems;
`SumLemmas` - what they need of sums.

Composition: `ImageWriter` runs planner, path table and writer on one tree; `FileCopy`
runs enumeration and copy on one source directory. `PackSession` takes both as the
steps of a worker, `ImageWriter` takes the records of a directory and the copy of a
file as extents whose lengths `DirectoryRecords` and `FileCopy` account for.

Operators whose names stand under a comment `Fault:` are deliberately wrong
variants of the definition that follows them. No specification uses them; each
shows, when put in the place of the definition, that a property notices.

## 3. What the runs check

### The session

| Run | Instance | Checks |
| --- | --- | --- |
| `session_sequence` | 2 packs of 0 to 3 files, waiting client | `PollFresh`, `OwnPaths`, `ProgressAccounted`, `NeverBackwards`, liveness `PackReported`, refinement of `ProgressProtocol` |
| `session_overlap` | 2 packs, client that does not wait | `FinishedJustified`, `CompletionReported`, `NeverEarlierDestination`, liveness `EveryPackEnds` |
| `session_stale_finished` | 2 packs, waiting client | violated: `FinishedIsCurrent` |
| `session_wrong_image` | 3 packs, waiting client | violated: `OwnPaths` |

Bounds: `MaxJobs` is 2 or 3. Two workers give every race on the two shared
structures; three calls are needed for `session_wrong_image`, where the first
pack's `finished` releases the client twice. `MaxFiles` of 3 gives an announcement
with announcements before and after it; `Scale` of 6 keeps the shares of 1, 2 and 3
files whole.

`session_sequence` and `session_wrong_image` together say where the limit is: with two
calls a waiting client is safe, because it sees `finished` of the first only when the
first has ended; with three it takes the stale flag for the end of the second and
overwrites the second's paths.

A client may set the file buffer to 0 bytes or back while it is idle or polling, in
every run. `PackReported` and `EveryPackEnds` are claimed as long as it stays positive
(`[](buffer_size > 0)` from the launch on): with 0 a worker stalls in `write_file`, and
its client polls for ever. Any other way of not ending would be seen.

Fairness: `WF` for each worker, as an operating system schedules a thread that can
run, for the client inside `start_packing` (the rest of a call it has begun) and
for its polling loop. Nothing makes the client start another pack or set the
buffer, and no crash is required; `PackReported` and `EveryPackEnds` allow the process to
end instead, since the code checks no call that may fail.

### The image

`image_layout` lays out 41 starts over trees of up to 20 nodes: all shapes of a
directory and a file with zero or one entry below, listed and named in either order;
two branches whose directories are named against their listing order; directories whose
names differ in case; records and
identifiers over two sectors at two depths; identifiers ending exactly on a sector in
the root, below it and half way through a list; a root too wide for one sector; each
remainder of the volume size modulo 16, with either value of an unset pad; 4 GiB of
files; too many directories for a path table; names of 78 and of 254 bytes. All
numbers are the real ones. Checked, under conditions defined in `ImageWriter`
(`NamesFit`, `RootFits`, `RootIdsFit`, `NoExactFit`, `PadAssigned`, `NoWrap`):
`HeaderPlaced`, `DirectoriesPlaced`, `FileDataPlaced`, `EntriesPlaced`,
`IdentifiersPlaced`, `VolumeSizeHolds`; without conditions: `TagsPlaced`,
`IsoUdfAgree`, `PathTableLeads` (each directory once, parent numbers name parents),
`PathTableOrdered` (parents never decrease, siblings are in the order of their names in
the source directory, and the table's own sort agrees with the planner's; of the names
written, in upper case, only where that keeps the siblings' order, `CaseKept`), and `PackTerminates` under `WF_vars(Next)` (one thread runs to its end).

Three violating runs each drop one condition on a set of trees with that one feature:
`image_root_records`, `image_exact_fit`, `image_pad_garbage`. `image_parent_crc` shows
that a parent descriptor's checksum covers the icb of the directory before.

A behaviour is determined by its tree but for the unset pad, so the size of the run
lies in the trees; they are chosen for the boundaries of the arithmetic (a sector,
16 sectors, 128 and 256, 2^32), at which the formulas of planner and writer can part.

Not claimed: that a parent identifier leads to the parent directory. In the code
its icb is the directory's own; the model says so.

### Directory records

`record_packing` takes every list of up to five of four entries, as the root and below
it, with records of 48, 64, 112 and 126 bytes in a sector of 256 bytes (the
proofs are for every sector of more than 223). Two or three records fill a sector,
so five give boundaries with and without padding, padding that does not fit the
buffer, and records that end exactly on a boundary. `IsPacked` (refinement of
`RecordPacking`) has no condition. `RecordsInBuffer` holds when the records leave room
for the longest padding at each boundary (`RoomForPadding`), since the buffer is sized
before padding. `LengthsAgree` holds below the root unless a record ends exactly on a
boundary (`>` in the length loop, `/` in the copy), in the root while it takes one
sector. `LengthCovers` holds even then unless the length itself ends there.
`RecordsWritten` under `WF_vars(Next)`: the loops are those of one thread.

### Enumeration and copy

`source_copy` starts from six source directories and from none at all: two and three
levels, files that end inside, just before and on a sector's end, empty files, a file
whose size turns an int, a link longer than it says, a socket. Two changes by other
programs may come between any two steps, and `set_file_buffer` may be called with 0, 3
or 8 at any time. A sector has 4 bytes and an int goes to 15, which keeps the ratios
that matter: chunks smaller and larger than a sector, files of several chunks and
sectors, sizes at the turn of an int. Two changes give a removal and a rewrite around
one `lstat` or one chunk.

`UntouchedListed`: entries nobody changed are listed with kind and size, whatever
happens next to them. `SectorsAgree`: after each file the image has grown by the
sectors the planner and the file entry gave it, even when the file has shrunk, unless
a size is negative or beyond an int. `UntouchedCopied`: byte for byte, zeros behind.
`OverrunOnlyIfRaised`: no read past the buffer unless its size was raised after the
allocation. `CopyEnds`: the copy ends if the buffer size is positive from the start on;
with 0 it does not.

Fairness: `WF` of the worker's steps only. `set_file_buffer` and other programs need
never do anything.

### File identifiers

`udf_util` describes names over three bytes of both halves of the range, of one and two
characters, and of 9, 127 and 128 bytes (the last is the first whose length does not
fit its field), with locations of one byte and of four different ones.
`CrcIsRemainder` compares every checksum with the bitwise polynomial division, and
`TableAssumption`, which TLC evaluates before the run, each of the 256 constants of the
table; `TagVerifies` and `NameSurvives` read the finished bytes
as ECMA-167 says; `BothOrders` is about the ISO fields stored twice. Each behaviour is
one straight line, so no liveness is stated.

## 4. What is proved

For all values of the constants that the named assumptions allow: every safety property
that a passing run checks, action properties and refinements included. Nearly none is
inductive as it stands; each module says which invariant it adds, and why.

### Sums and trees

`SumLemmas`: the sums of the model are `SumFunction`s, whose definition takes the terms
in an order of its own choice. A sum of naturals is a natural (`SumIsNat`) and any one
term and the rest (`SumSplits`), by the smallest set without a solution of the sum's
equations, since no induction theorem with an operator parameter can be used. Adding up
along a list is summing over its elements (`SumOfList`).

`FileTree_proofs`, for every tree `IsTree` admits: the planner's sizes are naturals
(`TreeSizes`); the comparison given to `std::sort` is a strict total order, so the
sorted list holds each entry exactly once (`SortedIsOrder`). Totality is where names
matter: two entries of one depth first differ at siblings, and siblings have different
ranks. `PartsMakeTheWhole`: what the planner adds up by recursion over the tree is what
the loops over the lists of directories and files add up, one after the other. It is
what planner and writer share, and neither checks.

### The session

`PackSession_proofs`, from `SessionAssumption`, for any client: `TypeOK`, `PollFresh`,
`FinishedJustified`, `CompletionReported` and `NeverEarlierDestination`. The inductive
invariant is `StructInv`: type correctness with the facts the control flow gives (which
workers exist, which have files left). It is needed because the properties speak of
`Launched` workers, and those beyond `pack_thread` must be known not to run.
`CompletionReported` needs that the last worker to end reports `finished`.

`SerialPacks_proofs`: `OwnPaths`, `ProgressAccounted`, `NeverBackwards` and the
refinement of `ProgressProtocol` are false once packs overlap. They are proved for every
behaviour that satisfies `Serially` (no `start_packing` while a pack runs), for any
number of packs and files. `SerialAll` adds to `StructInv` that at most the latest pack
runs (`SerialInv`), what the path buffers hold (`BuffersInv`), and the progress and state
reported at each place of the loop (`ReportInv`, `StateInv`). `NeverBackwards` needs in
addition that the reports are fresh between packs (`FreshInv`).
`TwoWaitedPacksAreSerial` says which client satisfies `Serially` by itself: one that
waits for `finished` and calls at most twice, since the flag it reads is then the first
pack's (`WaitInv`). `TwoWaitedPacks` puts both together. With a third call it fails, and
`session_wrong_image` shows how.

### Planner and writer

`ImageWriter_proofs`, from `PlannerAssumption` (the trees are trees, the wrap is positive,
an unset pad is a natural number), for every tree: all ten invariants of the runs, under
the conditions stated in them. The argument has three parts, together `AllInv`.

- `PlanInv`: the list is the sorted one, the partition starts behind the directory
  records, and while files are placed the absolute and the local counter differ by that
  start. It gives `IsoUdfAgree` at the end of the loop, where `SortedIsOrder` turns
  "every node passed" into "every file". `PathTableLeads` and `PathTableOrdered` follow
  from the order alone: the table's own sort takes the directories as the planner's
  does, and a parent stands before its children.
- `PlacesInv`: each directory's records, each file's data and each file entry are planned
  where the sizes of those before it in the list add up to.
- `WriterInv`: the writer is, at each turn of each loop, where those sums say
  (`PositionInv`, from `LoopInv` and the bytes counted by `IdentifiersInv`), so that what
  is written lies there (`HeaderInv`, `RecordsInv`, `PartitionInv`); every pointer names
  the planned place (`PointersInv`); and `cur_spec_lba` counts sectors from the file set
  modulo 2^16 (`TagInv`), also where the positions are not the planned ones.

A pointer resolves when the place it names is the place that was written:
`DirectoriesPlaced`, `FileDataPlaced`, `EntriesPlaced`, `IdentifiersPlaced`,
`HeaderPlaced`, and at the last sector `VolumeSizeHolds`. The conditions appear in
`PositionInv` where each is needed: `NamesFit` from the first directory below the root
on, `NoExactFit` from the identifiers on. `TagsPlaced` and the two properties of the
path table need none.

### Directory records

`DirectoryRecords_proofs`, from `RecordsAssumption` (a sector holds the two headings
and a record of the longest length; entries' record lengths fit a signed char), for
every list of entries:
- `TypeCorrect`, with `Struct`: how far each loop is, and that while records are left
  the next one ends within the sector the copy has counted (`Ahead`). Nobody checks
  the first record; the assumption on the sector is what makes it fit.
- `RecordsArePacked`: the copy implements `RecordPacking`. A step maps to a `Place`
  whose record starts where the last one ended or at the next sector.
- `RecordsStayInBuffer`: at each boundary the padding is shorter than the record behind
  it, so the offset exceeds the sum of the records by at most the longest record per
  boundary. `FillInv` says the buffer's size is that sum.
- `LengthsAgreeUnlessExact`: the part of `LengthsAgree` below the root. The length loop
  and the copy are related record by record: same place, same sector, as long as no
  record has ended on a boundary.
- `LengthsAreTrue`: all of `LengthsAgree`. In the root the length is the sum of the
  records, whether `fill` takes a file at once or keeps it back (`RootInv`), and while
  that is less than a sector nothing is padded (`Unpadded`).
- `LengthMissesNothing`: `LengthCovers`, with records that end on a boundary, after which
  the two loops part. `CountInv` says how the length loop goes on from such a record:
  always at the next sector's start, never short of it. `CoverInv` says what then holds
  of both: the counted place is not before the copied one, or the counted record ends
  with the sector behind which it is copied.

### Enumeration and copy

From `EnumAssumption` and `CopyAssumption`, for every source directory, every sequence
of changes to it and of `set_file_buffer` calls:
- `UntouchedAreListed`. `UntouchedListed` speaks of the end only; `EnumInv` says where an
  entry is that is not listed yet: unread in an open directory, read and before its
  `lstat`, or in a directory about to be opened (`CompleteInv`). That needs each entry to
  be on its way once (`PendingInv`), and what is recorded of it to be true as long as
  nobody changes it (`KindInv`).
- `CopyTypeCorrect`: `TypeOK`, with the place of the copy (`CopyInv`).
- `SectorsStayInStep`: bytes out and bytes still to write add up to the planned sectors
  of the files so far (`SpaceInv`), through a file that shrinks or grows meanwhile.
- `UntouchedAreCopied`: while a file is copied, what was read of it is out and what was
  not is still to write (`ContentInv`).
- `ReadsFitUnlessRaised`: a turn of the loop reads as many bytes as `write_file`'s
  parameter says; `BufferFits` bounds it by the buffer through `::buffer_size` at the
  time of the call, and `SizesTyped` gives that the comparisons are between integers.

### File identifiers

`UdfUtil_proofs`, from `UtilAssumption` (names of one to 255 bytes, blocks of 32 bits)
and `TableAssumption` (each constant of the table is the remainder of its index), for
every name and every pair of blocks: `TypeOK`, `CrcIsRemainder`, `TagVerifies`,
`NameSurvives` and `BothOrders`.

- The CRC. A number of 16 bits is the function of its bits, and `Xor` adds them modulo 2
  (`XorBits`, `SameBits`); so it is associative, and shifting in a bit, hence dividing a
  byte, is linear (`ShiftInXor`, `DivideXor`). A byte equal to the register's high half
  leaves the low half shifted up (`DivideHigh`): that is the part of `cksum`'s turn
  behind the table, and by linearity the rest is a division of 0 by their exclusive or,
  which `TableAssumption` finds in the table (`CksumIsDivide`). `RemainderTo` is a
  recursive function; that its equations have a solution for every length is
  `RemSolvable`, each solution extended by one byte.
- The invariant `IInv`: the characters uncompressed so far are the bytes of the padded
  name (`NameInv`); the descriptor is laid out and the register is the remainder of the
  bytes the loop has passed (`CrcInv`, from which `CrcIsRemainder` follows); the tag
  holds that CRC and its own sum, and lies in front of the same bytes (`TagInv`).
- What a reader finds follows from the layout. The tag's own bytes do not change its
  CRC, which begins behind them. The characters are copied low byte first from one
  byte before their field, and a reader takes the high byte first: it gets each byte of
  the name all the same, because the zero it reads in front of it is `file_ident` for
  the first and the high byte of the character before for the others (`InvName`).

### Only model-checked

Liveness (`PackReported`, `EveryPackEnds`, `PackTerminates`, `RecordsWritten`,
`CopyEnds`): it needs `ENABLED`, which the provers cannot expand. `TableAssumption` is a
fact about 256 constants, which TLC decides by computing each. What the runs refute is
TLC's alone, too.

## 5. Where code and comments part

Each finding of `PROJECT.json` is a violating run. Known besides, without a run:
- A change of state between two polls can reach the client without `new_state`, which
  the next update has cleared (`API.cpp:1102`); `Test.cpp` prints under that flag.
- With identifiers of the root over two blocks, directories' file entries are one block
  off (`API.cpp:985`): the condition `RootIdsFit`.
- 4 GiB of files wrap the volume size (`Directory.cpp:169`): the condition `NoWrap`.
- The path table is sorted before its names are turned into upper case
  (`API.cpp:1162`): directories `B` and `a` are written in the order `B`, `A`. The
  condition `CaseKept` of `PathTableOrdered`.
- `set_file_buffer(0)` keeps a pack from ending (`SectorManager.cpp:88`).
- The comment of `buffer_size` says 64 MB, the value is 32 (`API.cpp:46`).
- Records that end exactly on a sector, and records that pack badly: the conditions
  `ExactFit` and `RoomForPadding` of `DirectoryRecords`.

## 6. Plan

Done: every component with state; a theorem for every safety property the passing runs
check. Left: a client of more than two packs that is safe by itself
would need the library to clear `finished`; it is the run `session_stale_finished`
that says so.

Not modelled, and why: constant fields of descriptors and their checksums (no
behaviour; the checksum routine itself is in `UdfUtil`), platform glue and build
files, the Windows half of `Directory.cpp` (other calls), `CompressUnicode`,
`unicode_cksum`, `ComputeEAChecksum`, `get_content_amount`,
`get_file_identifiers_space` (nothing calls them); letters of names (ranks and lengths
stand for them) and names with a `\`; directories and files that exist but may not be
opened (`EnumFiles` and `FileCopy` let `opendir` and `fopen` fail only for what is
missing; `PackSession` lets any of them end the process); file systems whose `readdir`
gives `DT_UNKNOWN`, where every entry would count as a file.
