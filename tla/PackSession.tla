---------------------------- MODULE PackSession ----------------------------
(***************************************************************************)
(* The library's public interface (API.h) and the threads behind it: one   *)
(* client thread that calls start_packing and poll_progress, and one       *)
(* worker thread per start_packing call that runs pack.                    *)
(*                                                                         *)
(* A step of the model is a maximal piece of code that touches the shared  *)
(* globals once: a whole update_progress or poll_progress call (both run   *)
(* under progress_mut), one unlocked read of program_progress.progress,    *)
(* the copy of one path into a global buffer.                              *)
(*                                                                         *)
(* Abstractions.  Job j is asked to pack "source j" to "destination j": a  *)
(* path buffer holds the number of the job whose path it is, or Torn while *)
(* strncpy is rewriting it.  A float in [0, 1] is an integer in            *)
(* 0 .. 10 * Scale, so that 0.1 is Scale.  The directory tree is only its  *)
(* number of files, chosen when get_files returns.  Of the file buffer's   *)
(* size only 0 matters here: what a larger one copies, and what happens    *)
(* when it is changed between its two reads, is FileCopy's subject.        *)
(***************************************************************************)
EXTENDS Integers, FiniteSets

CONSTANTS
  MaxJobs,      \* bound on the start_packing calls of a behaviour
  MaxFiles,     \* bound on the files of a source directory
  Scale,        \* progress units in 0.1
  ClientWaits   \* TRUE: the client calls start_packing again only after its
                \* polling loop has read `finished`, as Test.cpp would

ASSUME SessionAssumption ==
  /\ MaxJobs \in Nat \ {0}
  /\ MaxFiles \in Nat \ {0}
  /\ Scale \in Nat \ {0}
  /\ ClientWaits \in BOOLEAN

Jobs == 1 .. MaxJobs

NoPath == -1    \* nothing read yet / an empty global buffer
Torn == 0       \* bytes of two paths
Paths == {NoPath, Torn} \cup Jobs

BufferSizes == {0, 1}   \* no byte, and any other number of them

ProgressStates ==
  {"FAILED", "ENUM_FILES", "WRITE_SECTORS", "WRITE_FILES", "WRITE_END",
   "FINISHED"}

NoFile == <<0, 0>>
Files == {NoFile} \cup (Jobs \X (1 .. MaxFiles))

Progress == [state: ProgressStates, progress: Int, finished: BOOLEAN,
             new_state: BOOLEAN, new_file: BOOLEAN, file: Files]

(* Globals have static storage: they start zeroed, and 0 is ENUM_FILES.    *)
ZeroProgress == [state |-> "ENUM_FILES", progress |-> 0, finished |-> FALSE,
                 new_state |-> FALSE, new_file |-> FALSE, file |-> NoFile]

VARIABLES
  program_progress,  \* written by the workers, under progress_mut
  progress_copy,     \* what the client holds a pointer to
  progress_dirty,    \* program_progress changed since the last poll
  game_path,         \* the two global path buffers
  dest_path,
  buffer_size,       \* bytes of a chunk of write_file
  pack_thread,       \* job of the latest worker thread, 0 for nullptr
  client,            \* where the client is
  pc,                \* where each worker is
  source,            \* the path each worker's Directory was built from
  image,             \* the path each worker opened its image at
  files,             \* files each worker found
  next,              \* files each worker announced
  seen,              \* each worker's unlocked read of the progress, 0 when
                     \* it holds none
  process            \* "running" or "terminated"

shared == <<program_progress, progress_copy, progress_dirty>>
buffers == <<game_path, dest_path, buffer_size>>
clientVars == <<pack_thread, client>>
workerVars == <<source, image, files, next, seen>>
vars == <<shared, buffers, clientVars, pc, workerVars, process>>

ClientSteps == {"idle", "game", "dest", "launch", "poll", "read"}

WorkerSteps ==
  {"none", "start", "enum", "list", "failed", "sectors", "open", "header",
   "progress", "announce", "copy", "stalled", "end_progress", "end", "trailer",
   "finish", "done"}

Launched == 1 .. pack_thread

(* The worker has made the last update of its pack.                        *)
Ended(j) == pc[j] = "done"

Init ==
  /\ program_progress = ZeroProgress
  /\ progress_copy = ZeroProgress
  /\ progress_dirty = FALSE
  /\ game_path = NoPath
  /\ dest_path = NoPath
  /\ buffer_size = 1
  /\ pack_thread = 0
  /\ client = "idle"
  /\ pc = [j \in Jobs |-> "none"]
  /\ source = [j \in Jobs |-> NoPath]
  /\ image = [j \in Jobs |-> NoPath]
  /\ files = [j \in Jobs |-> 0]
  /\ next = [j \in Jobs |-> 0]
  /\ seen = [j \in Jobs |-> 0]
  /\ process = "running"

-----------------------------------------------------------------------------
(* start_packing.  Nothing stops a client from calling it while a worker   *)
(* runs: the buffers are rewritten under the worker's eyes, the old        *)
(* std::thread is detached and a new one launched.                         *)

StartPacking ==
  /\ process = "running"
  /\ client \in IF ClientWaits THEN {"idle"} ELSE {"idle", "poll"}
  /\ pack_thread < MaxJobs
  /\ game_path' = Torn
  /\ client' = "game"
  /\ UNCHANGED <<shared, dest_path, buffer_size, pack_thread, pc, workerVars,
                 process>>

(* Fault: the destination path is never copied.                            *)
CopyGamePathOnly ==
  /\ process = "running"
  /\ client = "game"
  /\ game_path' = pack_thread + 1
  /\ client' = "launch"
  /\ UNCHANGED <<shared, dest_path, buffer_size, pack_thread, pc, workerVars,
                 process>>

CopyGamePath ==
  /\ process = "running"
  /\ client = "game"
  /\ game_path' = pack_thread + 1
  /\ dest_path' = Torn
  /\ client' = "dest"
  /\ UNCHANGED <<shared, buffer_size, pack_thread, pc, workerVars, process>>

CopyDestPath ==
  /\ process = "running"
  /\ client = "dest"
  /\ dest_path' = pack_thread + 1
  /\ client' = "launch"
  /\ UNCHANGED <<shared, game_path, buffer_size, pack_thread, pc, workerVars,
                 process>>

LaunchThread ==
  /\ process = "running"
  /\ client = "launch"
  /\ pack_thread' = pack_thread + 1
  /\ pc' = [pc EXCEPT ![pack_thread + 1] = "start"]
  /\ client' = "poll"
  /\ UNCHANGED <<shared, buffers, workerVars, process>>

(* set_file_buffer checks nothing: a client between two calls may set the  *)
(* size to any number, 0 included, while workers run.                      *)
SetFileBuffer ==
  /\ process = "running"
  /\ client \in {"idle", "poll"}
  /\ buffer_size' \in BufferSizes
  /\ UNCHANGED <<shared, game_path, dest_path, clientVars, pc, workerVars,
                 process>>

(* poll_progress: the whole struct is copied, under the lock, if dirty.    *)
PollProgress ==
  /\ process = "running"
  /\ client = "poll"
  /\ progress_copy' = IF progress_dirty THEN program_progress ELSE progress_copy
  /\ progress_dirty' = FALSE
  /\ client' = "read"
  /\ UNCHANGED <<program_progress, buffers, pack_thread, pc, workerVars,
                 process>>

(* The body of the polling loop: once they are reported, clear the new_    *)
(* flags in the shared copy; stop on `finished`.                           *)
ReadProgressCopy ==
  /\ process = "running"
  /\ client = "read"
  /\ progress_copy' =
       [progress_copy EXCEPT !.new_state = FALSE, !.new_file = FALSE]
  /\ client' = IF progress_copy.finished THEN "idle" ELSE "poll"
  /\ UNCHANGED <<program_progress, progress_dirty, buffers, pack_thread, pc,
                 workerVars, process>>

-----------------------------------------------------------------------------
(* update_progress, under progress_mut: new_state only when the state      *)
(* differs from the one recorded, new_file only when a name is given.      *)
Updated(old, state, progress, file, finished) ==
  [state |-> state, progress |-> progress, finished |-> finished,
   new_state |-> state # old.state,
   new_file |-> file # NoFile,
   file |-> IF file = NoFile THEN old.file ELSE file]

(* Fault: the client is told of state changes only.                        *)
UpdateProgressSilently(state, progress, file, finished) ==
  /\ program_progress' =
       Updated(program_progress, state, progress, file, finished)
  /\ progress_dirty' = (progress_dirty \/ state # program_progress.state)
  /\ UNCHANGED progress_copy

UpdateProgress(state, progress, file, finished) ==
  /\ program_progress' =
       Updated(program_progress, state, progress, file, finished)
  /\ progress_dirty' = TRUE
  /\ UNCHANGED progress_copy

Goto(j, from, to) ==
  /\ process = "running"
  /\ pc[j] = from
  /\ pc' = [pc EXCEPT ![j] = to]

(* Directory dir(game_path): the thread copies the global buffer.          *)
ReadGamePath(j) ==
  /\ Goto(j, "start", "enum")
  /\ source' = [source EXCEPT ![j] = game_path]
  /\ UNCHANGED <<shared, buffers, clientVars, image, files, next, seen, process>>

EnumFiles(j) ==
  /\ Goto(j, "enum", "list")
  /\ UpdateProgress("ENUM_FILES", 0, NoFile, FALSE)
  /\ UNCHANGED <<buffers, clientVars, workerVars, process>>

(* get_files found no directory to list.                                   *)
ListFails(j) ==
  /\ Goto(j, "list", "failed")
  /\ UNCHANGED <<shared, buffers, clientVars, workerVars, process>>

ListFiles(j) ==
  /\ Goto(j, "list", "sectors")
  /\ \E n \in 0 .. MaxFiles : files' = [files EXCEPT ![j] = n]
  /\ UNCHANGED <<shared, buffers, clientVars, source, image, next, seen, process>>

Fail(j) ==
  /\ Goto(j, "failed", "done")
  /\ UpdateProgress("FAILED", 10 * Scale, NoFile, TRUE)
  /\ UNCHANGED <<buffers, clientVars, workerVars, process>>

WriteSectors(j) ==
  /\ Goto(j, "sectors", "open")
  /\ UpdateProgress("WRITE_SECTORS", Scale, NoFile, FALSE)
  /\ UNCHANGED <<buffers, clientVars, workerVars, process>>

(* fopen(dest_path): the pointer passed to the thread is the global buffer.*)
OpenImage(j) ==
  /\ Goto(j, "open", "header")
  /\ image' = [image EXCEPT ![j] = dest_path]
  /\ UNCHANGED <<shared, buffers, clientVars, source, files, next, seen, process>>

(* Fault: the progress is read once, before the loop.                      *)
NextFileHoisted(j, announced) ==
  CASE announced = files[j] -> "end_progress"
    [] announced = 0 /\ files[j] > 0 -> "progress"
    [] OTHER -> "announce"

(* Where the loop over the files goes when `announced` files are behind it *)
NextFile(j, announced) ==
  IF announced < files[j] THEN "progress" ELSE "end_progress"

(* write_sectors up to write_file_tree.                                    *)
WriteHeader(j) ==
  /\ Goto(j, "header", NextFile(j, 0))
  /\ UNCHANGED <<shared, buffers, clientVars, workerVars, process>>

(* The argument program_progress.progress + increment is evaluated before  *)
(* update_progress takes the lock.                                         *)
ReadProgress(j) ==
  /\ Goto(j, "progress", "announce")
  /\ seen' = [seen EXCEPT ![j] = program_progress.progress]
  /\ UNCHANGED <<shared, buffers, clientVars, source, image, files, next, process>>

Increment(j) == (8 * Scale) \div files[j]

(* Fault: the file announced is the one after the one copied.              *)
AnnounceFollowing(j) ==
  /\ Goto(j, "announce", "copy")
  /\ next' = [next EXCEPT ![j] = next[j] + 1]
  /\ UpdateProgress("WRITE_FILES", seen[j] + Increment(j), <<j, next'[j] + 1>>,
                    FALSE)
  /\ seen' = [seen EXCEPT ![j] = 0]
  /\ UNCHANGED <<buffers, clientVars, source, image, files, process>>

AnnounceFile(j) ==
  /\ Goto(j, "announce", "copy")
  /\ next' = [next EXCEPT ![j] = next[j] + 1]
  /\ UpdateProgress("WRITE_FILES", seen[j] + Increment(j), <<j, next[j] + 1>>,
                    FALSE)
  /\ seen' = [seen EXCEPT ![j] = 0]
  /\ UNCHANGED <<buffers, clientVars, source, image, files, process>>

(* Fault: a chunk of zero bytes, the copy never advances.                  *)
CopyNothing(j) ==
  /\ Goto(j, "copy", "copy")
  /\ UNCHANGED <<shared, buffers, clientVars, workerVars, process>>

(* write_file reaches the end of the file: by chunks of some bytes, or at  *)
(* once when the file is empty.                                            *)
CopyFile(j) ==
  /\ Goto(j, "copy", NextFile(j, next[j]))
  /\ UNCHANGED <<shared, buffers, clientVars, workerVars, process>>

(* Of a file that is not empty, chunks of no byte copy nothing, and the    *)
(* loop never ends: the size was passed to write_file by value.            *)
CopyStalls(j) ==
  /\ buffer_size = 0
  /\ Goto(j, "copy", "stalled")
  /\ UNCHANGED <<shared, buffers, clientVars, workerVars, process>>

ReadProgressAtEnd(j) ==
  /\ Goto(j, "end_progress", "end")
  /\ seen' = [seen EXCEPT ![j] = program_progress.progress]
  /\ UNCHANGED <<shared, buffers, clientVars, source, image, files, next, process>>

(* Faults: WRITE_END announced as the end of the pack, from zero, or as    *)
(* FINISHED.                                                               *)
AnnounceEndFinished(j) ==
  /\ Goto(j, "end", "trailer")
  /\ UpdateProgress("WRITE_END", seen[j], NoFile, TRUE)
  /\ seen' = [seen EXCEPT ![j] = 0]
  /\ UNCHANGED <<buffers, clientVars, source, image, files, next, process>>

AnnounceEndAtZero(j) ==
  /\ Goto(j, "end", "trailer")
  /\ UpdateProgress("WRITE_END", 0, NoFile, FALSE)
  /\ seen' = [seen EXCEPT ![j] = 0]
  /\ UNCHANGED <<buffers, clientVars, source, image, files, next, process>>

AnnounceEndAsFinished(j) ==
  /\ Goto(j, "end", "trailer")
  /\ UpdateProgress("FINISHED", seen[j], NoFile, FALSE)
  /\ seen' = [seen EXCEPT ![j] = 0]
  /\ UNCHANGED <<buffers, clientVars, source, image, files, next, process>>

AnnounceEnd(j) ==
  /\ Goto(j, "end", "trailer")
  /\ UpdateProgress("WRITE_END", seen[j], NoFile, FALSE)
  /\ seen' = [seen EXCEPT ![j] = 0]
  /\ UNCHANGED <<buffers, clientVars, source, image, files, next, process>>

(* The pad sectors, the end-of-session descriptor, fclose.                 *)
WriteTrailer(j) ==
  /\ Goto(j, "trailer", "finish")
  /\ UNCHANGED <<shared, buffers, clientVars, workerVars, process>>

(* Fault: the last update takes the default finished = false.              *)
FinishUnreported(j) ==
  /\ Goto(j, "finish", "done")
  /\ UpdateProgress("FINISHED", 10 * Scale, NoFile, FALSE)
  /\ UNCHANGED <<buffers, clientVars, workerVars, process>>

Finish(j) ==
  /\ Goto(j, "finish", "done")
  /\ UpdateProgress("FINISHED", 10 * Scale, NoFile, TRUE)
  /\ UNCHANGED <<buffers, clientVars, workerVars, process>>

Work(j) ==
  \/ ReadGamePath(j)
  \/ EnumFiles(j)
  \/ ListFails(j)
  \/ ListFiles(j)
  \/ Fail(j)
  \/ WriteSectors(j)
  \/ OpenImage(j)
  \/ WriteHeader(j)
  \/ ReadProgress(j)
  \/ AnnounceFile(j)
  \/ CopyFile(j)
  \/ CopyStalls(j)
  \/ ReadProgressAtEnd(j)
  \/ AnnounceEnd(j)
  \/ WriteTrailer(j)
  \/ Finish(j)

(* No call of the worker is checked and no exception is caught: a FILE* or *)
(* DIR* that is null, a file that cannot be opened, a failed allocation or *)
(* an ImageMakerException out of write_sector end the whole process.       *)
Terminate(j) ==
  /\ process = "running"
  /\ pc[j] \in {"list", "header", "copy"}
  /\ process' = "terminated"
  /\ UNCHANGED <<shared, buffers, clientVars, pc, workerVars>>

-----------------------------------------------------------------------------
CallStartPacking == CopyGamePath \/ CopyDestPath \/ LaunchThread

Client ==
  \/ StartPacking
  \/ CallStartPacking
  \/ SetFileBuffer
  \/ PollProgress
  \/ ReadProgressCopy

Next == Client \/ \E j \in Jobs : Work(j) \/ Terminate(j)

(* A thread that can run eventually runs: the client inside a call and in  *)
(* its polling loop, each worker between its steps.  Neither a further     *)
(* start_packing, nor a set_file_buffer, nor a crash has to happen.        *)
Fairness ==
  /\ WF_vars(CallStartPacking)
  /\ WF_vars(PollProgress \/ ReadProgressCopy)
  /\ \A j \in Jobs : WF_vars(Work(j))

Spec == Init /\ [][Next]_vars /\ Fairness

-----------------------------------------------------------------------------
(* The variables hold what their C++ types and the control flow of API.cpp *)
(* allow.                                                                  *)
TypeOK ==
  /\ program_progress \in Progress
  /\ progress_copy \in Progress
  /\ progress_dirty \in BOOLEAN
  /\ game_path \in Paths
  /\ dest_path \in Paths
  /\ buffer_size \in BufferSizes
  /\ pack_thread \in 0 .. MaxJobs
  /\ client \in ClientSteps
  /\ client \in {"game", "dest", "launch"} => pack_thread < MaxJobs
  /\ pc \in [Jobs -> WorkerSteps]
  /\ source \in [Jobs -> Paths]
  /\ image \in [Jobs -> Paths]
  /\ files \in [Jobs -> 0 .. MaxFiles]
  /\ next \in [Jobs -> 0 .. MaxFiles]
  /\ seen \in [Jobs -> Int]
  /\ process \in {"running", "terminated"}

(* When progress_dirty is clear the client's copy is the last report made, *)
(* up to the flags the client itself clears: a poll that finds the flag    *)
(* clear loses nothing (API.cpp poll_progress, update_progress).           *)
PollFresh ==
  ~progress_dirty =>
    /\ \A f \in {"state", "progress", "finished", "file"} :
         progress_copy[f] = program_progress[f]
    /\ progress_copy.new_state => program_progress.new_state
    /\ progress_copy.new_file => program_progress.new_file

(* `finished` is seen, in the workers' copy or the client's, only when some*)
(* pack has really ended, its image closed, whatever other packs run.      *)
FinishedJustified ==
  program_progress.finished \/ progress_copy.finished =>
    \E j \in Launched : Ended(j)

(* When no pack is left running, the last report says finished: a client   *)
(* that polls on does not wait forever, even when packs overlapped and a   *)
(* slower one had cleared the flag again.                                  *)
CompletionReported ==
  pack_thread > 0 /\ (\A j \in Launched : Ended(j))
    => program_progress.finished

(* A pack never opens the image of an earlier start_packing call: the      *)
(* global buffer only moves forward (start_packing copies before it        *)
(* launches).                                                              *)
NeverEarlierDestination ==
  \A j \in Jobs :
    pc[j] \notin {"none", "start", "enum", "list", "failed", "sectors", "open"}
      /\ image[j] # Torn
    => image[j] >= j \/ (pc[j] = "done" /\ image[j] = NoPath)

(* Each pack reads its own two paths out of the global buffers.            *)
OwnPaths ==
  \A j \in Jobs :
    /\ pc[j] \notin {"none", "start"} => source[j] = j
    /\ pc[j] \in {"header", "progress", "announce", "copy", "stalled",
                 "end_progress", "end", "trailer", "finish"} => image[j] = j

(* While one pack runs, the progress is 10% plus the share of the files    *)
(* announced so far: the unlocked read of write_file_tree loses no         *)
(* increment.                                                              *)
ProgressAccounted ==
  \A j \in Jobs :
    pc[j] \in {"progress", "copy", "stalled", "end_progress", "end",
              "trailer"} =>
      program_progress.progress =
        Scale + (IF files[j] = 0 THEN 0 ELSE next[j] * Increment(j))

(* The progress a client is shown falls only once it was shown the end of a*)
(* pack: never within a pack, although each report adds to a value read    *)
(* without the lock.                                                       *)
NeverBackwards ==
  [][progress_copy.finished
       \/ progress_copy'.progress >= progress_copy.progress]_vars

(* As long as the file buffer is never set to 0 bytes, every pack launched*)
(* ends, or takes the whole process down: the end of the process counts,   *)
(* because no call of the worker is checked (API.cpp pack, write_file_tree;*)
(* SectorManager.cpp write_file).                                          *)
EveryPackEnds ==
  \A j \in Jobs :
    (pc[j] = "start" /\ [](buffer_size > 0))
      ~> (Ended(j) \/ process = "terminated")

(* A client that starts a pack and polls eventually reads `finished` and   *)
(* leaves its loop (test/Test.cpp's do ... while), unless the process dies *)
(* or the file buffer is set to 0 bytes.                                   *)
PackReported ==
  (client = "launch" /\ [](buffer_size > 0))
    ~> (client = "idle" \/ process = "terminated")

(* What Test.cpp's loop relies on: `finished` tells of the pack last       *)
(* started.                                                                *)
FinishedIsCurrent ==
  client = "read" /\ progress_copy.finished => Ended(pack_thread)
=============================================================================
