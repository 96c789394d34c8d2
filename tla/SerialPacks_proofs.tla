------------------------- MODULE SerialPacks_proofs -------------------------
(***************************************************************************)
(* Theorems about PackSession when packs do not overlap: what a client may *)
(* rely on that starts a pack only after the ones before have ended.       *)
(* Nothing in the library enforces it; the last section shows which client *)
(* does so by itself.                                                      *)
(***************************************************************************)
EXTENDS MCPackSession, PackSession_proofs

AllEnded == \A j \in Launched : Ended(j)

(* Whoever calls start_packing does so when no pack is running.            *)
Serially == [][StartPacking => AllEnded]_vars

Calling == client \in {"game", "dest", "launch"}

(* At most the latest pack is running, and none during a start_packing.    *)
SerialInv ==
  /\ \A j \in Jobs : j < pack_thread => Ended(j)
  /\ Calling => AllEnded

Unread == {"start"}
Unopen == {"start", "enum", "list", "failed", "sectors", "open"}
Opened == {"header", "progress", "announce", "copy", "stalled",
           "end_progress", "end", "trailer", "finish"}

(* The buffers hold the paths of the pack that has yet to read them.       *)
BuffersInv ==
  /\ client \in {"dest", "launch"} => game_path = pack_thread + 1
  /\ client = "launch" => dest_path = pack_thread + 1
  /\ \A j \in Jobs :
       /\ pc[j] \in Unread => game_path = j
       /\ pc[j] \in Unopen => dest_path = j

(* The share of the progress that the files announced make up.             *)
Share(j) == IF files[j] = 0 THEN 0 ELSE next[j] * Increment(j)

Accounted(j) ==
  /\ next[j] <= files[j]
  /\ program_progress.progress = Scale + Share(j)

(* What a running pack has reported of its progress, at each of its steps, *)
JobReport(j) ==
  /\ pc[j] \in {"list", "failed", "sectors"} => program_progress.progress = 0
  /\ pc[j] \in Opened \cup {"open"} => Accounted(j)
  /\ pc[j] \in {"announce", "end"} => seen[j] = program_progress.progress

(* and of its state.                                                       *)
Final == {"FAILED", "FINISHED"}
JobState(j) ==
  LET state == program_progress.state IN
  /\ pc[j] \in {"start", "enum"} => state \in {"ENUM_FILES"} \cup Final
  /\ pc[j] \in {"list", "failed", "sectors"} => state = "ENUM_FILES"
  /\ pc[j] \in {"open", "header"} => state = "WRITE_SECTORS"
  /\ pc[j] \in {"progress", "announce", "end_progress", "end"}
       => state \in {"WRITE_SECTORS", "WRITE_FILES"}
  /\ pc[j] \in {"copy", "stalled"} => state = "WRITE_FILES"
  /\ pc[j] \in {"trailer", "finish"} => state = "WRITE_END"

ReportInv == \A j \in Jobs : JobReport(j)

StateInv ==
  /\ \A j \in Jobs : JobState(j)
  /\ AllEnded => program_progress.state \in {"ENUM_FILES"} \cup Final

SerialAll == StructInv /\ SerialInv /\ BuffersInv /\ ReportInv /\ StateInv

(* A report of a pack's end, or one that shows no progress.                *)
Fresh(report) == report.finished \/ report.progress = 0

(* Between packs the reports are fresh, and the client's is never ahead.   *)
FreshInv ==
  /\ AllEnded => Fresh(program_progress)
  /\ client = "idle" \/ Calling => Fresh(progress_copy)
  /\ \A j \in Jobs : pc[j] \in {"start", "enum"} =>
       Fresh(program_progress) /\ Fresh(progress_copy)
  /\ progress_copy.finished
       \/ progress_copy.progress <= program_progress.progress

(* A waiting client is idle only when the first pack has ended.            *)
WaitInv == client = "idle" /\ pack_thread < MaxJobs => AllEnded

-----------------------------------------------------------------------------
(* A worker that takes a step is the only one running, and no call is under*)
(* way.                                                                    *)
LEMMA Alone ==
  ASSUME StructInv, SerialInv, NEW j \in Jobs, WorkEffect(j)
  PROVE  /\ j = pack_thread
         /\ ~Calling
         /\ ~AllEnded
         /\ \A k \in Jobs : k # j =>
              pc[k] \in {"none", "done"} /\ pc'[k] = pc[k]
<1>1. pc[j] # "none" /\ pc[j] # "done" BY DEF WorkEffect
<1>2. /\ pack_thread \in Int /\ pack_thread <= MaxJobs /\ MaxJobs \in Int
      /\ \A k \in Jobs : k \in Int /\ k >= 1
  BY SessionAssumption DEF StructInv, TypeOK, Jobs
<1>3. \A k \in Jobs : pc[k] = "none" <=> k > pack_thread
  BY DEF StructInv, LaunchInv
<1>4. \A k \in Jobs : k < pack_thread => pc[k] = "done"
  BY DEF SerialInv, Ended
<1>5. j = pack_thread BY <1>1, <1>2, <1>3, <1>4
<1>6. j \in Launched BY <1>2, <1>5 DEF Launched
<1>7. ~AllEnded BY <1>1, <1>6 DEF AllEnded, Ended
<1>8. ~Calling BY <1>7 DEF SerialInv
<1>9. \A k \in Jobs : k # j => pc[k] \in {"none", "done"}
  <2> TAKE k \in Jobs
  <2> HAVE k # j
  <2>1. k < pack_thread \/ k > pack_thread BY <1>2, <1>5
  <2> QED BY <2>1, <1>3, <1>4
<1>10. \A k \in Jobs : k # j => pc'[k] = pc[k] BY DEF WorkEffect
<1> QED BY <1>5, <1>7, <1>8, <1>9, <1>10

(* Where each step of a worker takes it.                                   *)
Moves(j, from, to) == pc[j] = from /\ pc'[j] = to

(* A worker's step is one of its operations, and each takes it from one    *)
(* place of pack to the next.                                              *)
LEMMA WorkMoves ==
  ASSUME TypeOK, NEW j \in Jobs, Work(j)
  PROVE  \/ ReadGamePath(j) /\ Moves(j, "start", "enum")
         \/ EnumFiles(j) /\ Moves(j, "enum", "list")
         \/ ListFails(j) /\ Moves(j, "list", "failed")
         \/ ListFiles(j) /\ Moves(j, "list", "sectors")
         \/ Fail(j) /\ Moves(j, "failed", "done")
         \/ WriteSectors(j) /\ Moves(j, "sectors", "open")
         \/ OpenImage(j) /\ Moves(j, "open", "header")
         \/ WriteHeader(j) /\ (\/ Moves(j, "header", "progress")
                              \/ Moves(j, "header", "end_progress"))
         \/ ReadProgress(j) /\ Moves(j, "progress", "announce")
         \/ AnnounceFile(j) /\ Moves(j, "announce", "copy")
         \/ CopyFile(j) /\ (\/ Moves(j, "copy", "progress")
                           \/ Moves(j, "copy", "end_progress"))
         \/ CopyStalls(j) /\ Moves(j, "copy", "stalled")
         \/ ReadProgressAtEnd(j) /\ Moves(j, "end_progress", "end")
         \/ AnnounceEnd(j) /\ Moves(j, "end", "trailer")
         \/ WriteTrailer(j) /\ Moves(j, "trailer", "finish")
         \/ Finish(j) /\ Moves(j, "finish", "done")
<1> USE GotoEffect DEF Moves
<1>1. CASE ReadGamePath(j) BY <1>1 DEF ReadGamePath
<1>2. CASE EnumFiles(j) BY <1>2 DEF EnumFiles
<1>3. CASE ListFails(j) BY <1>3 DEF ListFails
<1>4. CASE ListFiles(j) BY <1>4 DEF ListFiles
<1>5. CASE Fail(j) BY <1>5 DEF Fail
<1>6. CASE WriteSectors(j) BY <1>6 DEF WriteSectors
<1>7. CASE OpenImage(j) BY <1>7 DEF OpenImage
<1>8. CASE WriteHeader(j) BY <1>8 DEF WriteHeader, NextFile
<1>9. CASE ReadProgress(j) BY <1>9 DEF ReadProgress
<1>10. CASE AnnounceFile(j) BY <1>10 DEF AnnounceFile
<1>11. CASE CopyFile(j) BY <1>11 DEF CopyFile, NextFile
<1>12. CASE ReadProgressAtEnd(j) BY <1>12 DEF ReadProgressAtEnd
<1>13. CASE AnnounceEnd(j) BY <1>13 DEF AnnounceEnd
<1>14. CASE WriteTrailer(j) BY <1>14 DEF WriteTrailer
<1>15. CASE Finish(j) BY <1>15 DEF Finish
<1>16. CASE CopyStalls(j) BY <1>16 DEF CopyStalls
<1> QED
  BY <1>1, <1>2, <1>3, <1>4, <1>5, <1>6, <1>7, <1>8, <1>9, <1>10, <1>11, <1>12,
     <1>13, <1>14, <1>15, <1>16 DEF Work

(* A worker that has ended has ended for good.                             *)
LEMMA EndedStays ==
  ASSUME StructInv, [Next]_vars, NEW k \in Jobs, pc[k] = "done"
  PROVE  pc'[k] = "done"
<1>1. CASE LaunchThread
  <2>1. k # pack_thread + 1
    <3>1. ~(k > pack_thread) BY DEF StructInv, LaunchInv
    <3>2. k \in Int /\ pack_thread \in Int
      BY SessionAssumption DEF StructInv, TypeOK, Jobs
    <3> QED BY <3>1, <3>2
  <2> QED BY <1>1, <2>1 DEF LaunchThread, StructInv, TypeOK
<1>2. ASSUME NEW j \in Jobs, Work(j) PROVE pc'[k] = "done"
  <2>1. WorkEffect(j) BY <1>2, WorkEffects DEF StructInv
  <2> QED BY <2>1 DEF WorkEffect
<1>3. ASSUME NEW j \in Jobs, Terminate(j) PROVE pc'[k] = "done"
  BY <1>3 DEF Terminate
<1>4. CASE Client /\ ~LaunchThread
  BY <1>4 DEF Client, CallStartPacking, StartPacking, CopyGamePath,
              CopyDestPath, SetFileBuffer, PollProgress, ReadProgressCopy
<1>5. CASE UNCHANGED vars BY <1>5 DEF vars
<1> QED BY <1>1, <1>2, <1>3, <1>4, <1>5 DEF Next

(* and so all of them together, until another is launched.                 *)
LEMMA AllEndedStays ==
  ASSUME StructInv, [Next]_vars, AllEnded, pack_thread' = pack_thread
  PROVE  AllEnded'
<1> SUFFICES ASSUME NEW k \in 1 .. pack_thread PROVE pc'[k] = "done"
  BY DEF AllEnded, Launched, Ended
<1>1. k \in Jobs BY SessionAssumption DEF StructInv, TypeOK, Jobs
<1>2. pc[k] = "done" BY DEF AllEnded, Launched, Ended
<1> QED BY <1>1, <1>2, EndedStays

(* While the client calls serially, packs run one at a time.               *)
LEMMA SerialStep ==
  ASSUME StructInv, SerialInv, [Next]_vars, [StartPacking => AllEnded]_vars
  PROVE  SerialInv'
<1> USE SessionAssumption
<1>1. CASE StartPacking
  <2>1. AllEnded
    <3>1. client' # client
      BY <1>1 DEF StartPacking
    <3>2. ~UNCHANGED vars
      BY <3>1 DEF vars, clientVars
    <3> QED BY <1>1, <3>2
  <2>2. pack_thread' = pack_thread /\ pc' = pc BY <1>1 DEF StartPacking
  <2>3. AllEnded' BY <2>1, <2>2 DEF AllEnded, Launched, Ended
  <2> QED BY <2>2, <2>3 DEF SerialInv, Ended
<1>2. CASE CopyGamePath \/ CopyDestPath
  <2>1. pack_thread' = pack_thread /\ pc' = pc /\ Calling
    BY <1>2 DEF CopyGamePath, CopyDestPath, Calling
  <2>2. AllEnded' BY <2>1 DEF SerialInv, AllEnded, Launched, Ended
  <2> QED BY <2>1, <2>2 DEF SerialInv, Ended
<1>3. CASE LaunchThread
  <2>1. /\ Calling /\ ~Calling'
        /\ pack_thread' = pack_thread + 1
        /\ \A k \in Jobs : k # pack_thread + 1 => pc'[k] = pc[k]
    BY <1>3 DEF LaunchThread, Calling, StructInv, TypeOK
  <2>2. ASSUME NEW k \in Jobs, k < pack_thread' PROVE pc'[k] = "done"
    <3>1. k \in 1 .. pack_thread /\ k # pack_thread + 1
      BY <2>1, <2>2 DEF StructInv, TypeOK, Jobs
    <3>2. pc[k] = "done"
      BY <2>1, <3>1 DEF SerialInv, AllEnded, Launched, Ended
    <3> QED BY <2>1, <3>1, <3>2
  <2> QED BY <2>1, <2>2 DEF SerialInv, Ended
<1>4. CASE PollProgress \/ ReadProgressCopy \/ SetFileBuffer
  <2>1. pack_thread' = pack_thread /\ pc' = pc /\ ~Calling'
    BY <1>4 DEF PollProgress, ReadProgressCopy, SetFileBuffer, clientVars,
                Calling
  <2> QED BY <2>1 DEF SerialInv, Ended
<1>5. ASSUME NEW j \in Jobs, Work(j) PROVE SerialInv'
  <2>1. WorkEffect(j) BY <1>5, WorkEffects DEF StructInv
  <2>2. pack_thread' = pack_thread /\ client' = client
    BY <2>1 DEF WorkEffect, clientVars
  <2>3. ~Calling' BY <2>1, <2>2, Alone DEF Calling
  <2>4. \A k \in Jobs : k < pack_thread => k # j
    BY <2>1, Alone DEF StructInv, TypeOK, Jobs
  <2>5. \A k \in Jobs : k < pack_thread => pc'[k] = "done"
    BY <2>1, <2>4, Alone DEF SerialInv, Ended
  <2> QED BY <2>2, <2>3, <2>5 DEF SerialInv, Ended
<1>6. CASE (\E j \in Jobs : Terminate(j)) \/ UNCHANGED vars
  BY <1>6 DEF Terminate, vars, clientVars, SerialInv, AllEnded, Launched,
              Ended, Calling
<1> QED
  BY <1>1, <1>2, <1>3, <1>4, <1>5, <1>6 DEF Next, Client, CallStartPacking

-----------------------------------------------------------------------------
(* The buffers still hold the paths of a pack that is about to read them.  *)
LEMMA BuffersStep ==
  ASSUME StructInv, SerialInv, BuffersInv, [Next]_vars,
         [StartPacking => AllEnded]_vars
  PROVE  BuffersInv'
<1> USE SessionAssumption DEF Unread, Unopen
<1>0. ASSUME NEW k \in Jobs, AllEnded
      PROVE  pc[k] \in {"none", "done"}
  <2>1. CASE k \in Launched BY <1>0, <2>1 DEF AllEnded, Ended
  <2>2. CASE k \notin Launched
    <3>1. k > pack_thread
      BY <2>2 DEF Launched, Jobs, StructInv, TypeOK
    <3> QED BY <3>1 DEF StructInv, LaunchInv
  <2> QED BY <2>1, <2>2
<1>1. CASE StartPacking
  <2>1. AllEnded
    <3>1. client' # client BY <1>1 DEF StartPacking
    <3>2. ~UNCHANGED vars BY <3>1 DEF vars, clientVars
    <3> QED BY <1>1, <3>2
  <2>2. pc' = pc /\ client' = "game" BY <1>1 DEF StartPacking
  <2> QED BY <1>0, <2>1, <2>2 DEF BuffersInv
<1>2. CASE CopyGamePath \/ CopyDestPath
  <2>1. AllEnded
    BY <1>2 DEF CopyGamePath, CopyDestPath, SerialInv, Calling
  <2>2. \A k \in Jobs : pc'[k] \in {"none", "done"}
    BY <1>0, <1>2, <2>1 DEF CopyGamePath, CopyDestPath
  <2>3. /\ client' \in {"dest", "launch"} => game_path' = pack_thread' + 1
        /\ client' = "launch" => dest_path' = pack_thread' + 1
    BY <1>2 DEF CopyGamePath, CopyDestPath, BuffersInv
  <2> QED BY <2>2, <2>3 DEF BuffersInv
<1>3. CASE LaunchThread
  <2>1. /\ AllEnded /\ client' = "poll"
        /\ game_path' = pack_thread + 1 /\ dest_path' = pack_thread + 1
        /\ \A k \in Jobs : k # pack_thread + 1 => pc'[k] = pc[k]
    BY <1>3 DEF LaunchThread, SerialInv, Calling, BuffersInv, buffers,
                StructInv, TypeOK
  <2>2. \A k \in Jobs :
          k # pack_thread + 1 => pc'[k] \in {"none", "done"}
    BY <1>0, <2>1
  <2> QED BY <2>1, <2>2 DEF BuffersInv
<1>4. CASE PollProgress \/ ReadProgressCopy \/ SetFileBuffer
  BY <1>4 DEF PollProgress, ReadProgressCopy, SetFileBuffer, BuffersInv,
              buffers, clientVars
<1>5. ASSUME NEW j \in Jobs, Work(j) PROVE BuffersInv'
  <2>1. WorkEffect(j) BY <1>5, WorkEffects DEF StructInv
  <2>2. UNCHANGED <<game_path, dest_path, pack_thread, client>>
    BY <2>1 DEF WorkEffect, buffers, clientVars
  <2>3. pc'[j] # "start" /\ (pc'[j] \in Unopen => pc[j] \in Unopen)
    BY <1>5, WorkMoves DEF Moves, StructInv
  <2>4. \A k \in Jobs : k # j => pc'[k] = pc[k] BY <2>1 DEF WorkEffect
  <2> QED BY <2>2, <2>3, <2>4 DEF BuffersInv
<1>6. CASE (\E j \in Jobs : Terminate(j)) \/ UNCHANGED vars
  BY <1>6 DEF Terminate, vars, clientVars, BuffersInv, buffers
<1> QED
  BY <1>1, <1>2, <1>3, <1>4, <1>5, <1>6 DEF Next, Client, CallStartPacking

(* The paths a pack has read are its own,                                  *)
LEMMA OwnPathsStep ==
  ASSUME StructInv, BuffersInv, OwnPaths, [Next]_vars
  PROVE  OwnPaths'
<1> USE SessionAssumption DEF Unread, Unopen, workerVars
<1>1. CASE LaunchThread
  <2>1. /\ UNCHANGED <<source, image>>
        /\ \A k \in Jobs : k # pack_thread + 1 => pc'[k] = pc[k]
        /\ \A k \in Jobs : k = pack_thread + 1 => pc'[k] = "start"
    BY <1>1 DEF LaunchThread, StructInv, TypeOK
  <2> QED BY <2>1 DEF OwnPaths
<1>2. CASE Client /\ ~LaunchThread
  BY <1>2 DEF Client, CallStartPacking, StartPacking, CopyGamePath,
              CopyDestPath, SetFileBuffer, PollProgress, ReadProgressCopy,
              OwnPaths
<1>3. ASSUME NEW j \in Jobs, Work(j) PROVE OwnPaths'
  <2> USE DEF StructInv
  <2>1. \A k \in Jobs : k # j =>
          pc'[k] = pc[k] /\ source'[k] = source[k] /\ image'[k] = image[k]
    <3>1. \A k \in Jobs : k # j => pc'[k] = pc[k]
      BY <1>3, WorkEffects DEF WorkEffect
    <3>2. source' = source \/ source' = [source EXCEPT ![j] = game_path]
      BY <1>3 DEF Work, ReadGamePath, ListFails, ListFiles, EnumFiles, Fail,
         WriteSectors, OpenImage, WriteHeader, CopyFile, CopyStalls,
         ReadProgress, AnnounceFile, ReadProgressAtEnd, AnnounceEnd, WriteTrailer, Finish
    <3>3. image' = image \/ image' = [image EXCEPT ![j] = dest_path]
      BY <1>3 DEF Work, ReadGamePath, ListFails, ListFiles, EnumFiles, Fail,
         WriteSectors, OpenImage, WriteHeader, CopyFile, CopyStalls,
         ReadProgress, AnnounceFile, ReadProgressAtEnd, AnnounceEnd, WriteTrailer, Finish
    <3> QED BY <3>1, <3>2, <3>3 DEF TypeOK
  <2>2. /\ pc'[j] \notin {"none", "start"} => source'[j] = j
        /\ pc'[j] \in Opened => image'[j] = j
    <3> USE DEF OwnPaths, Opened
    <3>1. CASE ReadGamePath(j)
      <4>1. pc[j] = "start" /\ pc'[j] = "enum" BY <3>1, GotoEffect DEF ReadGamePath
      <4>2. source'[j] = game_path BY <3>1 DEF ReadGamePath, TypeOK
      <4> QED BY <4>1, <4>2 DEF BuffersInv
    <3>2. CASE OpenImage(j)
      <4>1. pc[j] = "open" /\ pc'[j] = "header" BY <3>2, GotoEffect DEF OpenImage
      <4>2. image'[j] = dest_path /\ source'[j] = source[j]
        BY <3>2 DEF OpenImage, TypeOK
      <4> QED BY <4>1, <4>2 DEF BuffersInv
    <3>3. CASE ~ReadGamePath(j) /\ ~OpenImage(j)
      <4>1. source' = source /\ image' = image
        BY <1>3, <3>3 DEF Work, ListFails, ListFiles, EnumFiles, Fail,
           WriteSectors, WriteHeader, CopyFile, CopyStalls, ReadProgress,
           AnnounceFile,
           ReadProgressAtEnd, AnnounceEnd, WriteTrailer, Finish
      <4>2. /\ pc[j] \notin {"none", "start"}
            /\ pc'[j] \in Opened => pc[j] \in Opened
        BY <1>3, <3>3, WorkMoves DEF Moves
      <4> QED BY <4>1, <4>2
    <3> QED BY <3>1, <3>2, <3>3
  <2> QED BY <2>1, <2>2 DEF OwnPaths, Opened
<1>4. CASE (\E j \in Jobs : Terminate(j)) \/ UNCHANGED vars
  BY <1>4 DEF Terminate, vars, OwnPaths
<1> QED BY <1>1, <1>2, <1>3, <1>4 DEF Next

-----------------------------------------------------------------------------
(* The share of n files out of f is less than the whole.                   *)
LEMMA PartOfWhole ==
  ASSUME NEW a \in Nat, NEW f \in Nat \ {0}, NEW n \in 0 .. f
  PROVE  a \div f \in Nat /\ n * (a \div f) \in 0 .. a
<1> DEFINE q == a \div f
<1>1. q \in Nat /\ f * q <= a
  <2>1. q \in Int /\ f * q <= a /\ a < f * q + f OBVIOUS
  <2>2. q >= 0
    <3> SUFFICES ASSUME q < 0 PROVE FALSE BY <2>1
    <3>1. q + 1 <= 0 BY <2>1
    <3>2. f * (q + 1) <= 0 BY <3>1, <2>1
    <3>3. f * (q + 1) = f * q + f BY <2>1
    <3> QED BY <2>1, <3>2, <3>3
  <2> QED BY <2>1, <2>2
<1> HIDE DEF q
<1>2. n * q >= 0 BY <1>1
<1>3. (f - n) * q >= 0 BY <1>1
<1>4. (f - n) * q = f * q - n * q BY <1>1
<1>5. n * q \in Int BY <1>1
<1> QED BY <1>1, <1>2, <1>3, <1>4, <1>5 DEF q

(* The files announced make up between nothing and 80% of the progress,    *)
LEMMA ShareRange ==
  ASSUME StructInv, NEW j \in Jobs, next[j] <= files[j]
  PROVE  Share(j) \in 0 .. 8 * Scale
<1>1. files[j] \in Nat /\ next[j] \in 0 .. files[j] /\ 8 * Scale \in Nat
  BY SessionAssumption DEF StructInv, TypeOK
<1>2. CASE files[j] = 0 BY <1>1, <1>2 DEF Share
<1>3. CASE files[j] # 0
  BY <1>1, <1>3, PartOfWhole DEF Share, Increment
<1> QED BY <1>2, <1>3

(* and one more file adds one more increment.                              *)
LEMMA ShareOfNext ==
  ASSUME StructInv, NEW j \in Jobs, next[j] < files[j]
  PROVE  /\ Increment(j) \in Nat
         /\ Share(j) = next[j] * Increment(j)
         /\ (next[j] + 1) * Increment(j) = Share(j) + Increment(j)
<1>1. next[j] \in Nat /\ files[j] \in Nat \ {0} /\ 8 * Scale \in Nat
  BY SessionAssumption DEF StructInv, TypeOK
<1>2. Increment(j) \in Nat
  <2>1. 0 \in 0 .. files[j] BY <1>1
  <2> QED BY <1>1, <2>1, PartOfWhole DEF Increment
<1>3. Share(j) = next[j] * Increment(j) BY <1>1 DEF Share
<1>4. ASSUME NEW a \in Nat, NEW b \in Nat PROVE (a + 1) * b = a * b + b
  OBVIOUS
<1> QED BY <1>1, <1>2, <1>3, <1>4

(* What update_progress leaves in the report.                              *)
LEMMA Reported ==
  ASSUME NEW state, NEW progress, NEW file, NEW finished,
         UpdateProgress(state, progress, file, finished)
  PROVE  /\ program_progress'.state = state
         /\ program_progress'.progress = progress
         /\ program_progress'.finished = finished
         /\ progress_copy' = progress_copy
BY DEF UpdateProgress, Updated

(* An update that carries a state that may follow, finished with the final *)
(* states, is a report of the abstract protocol.                           *)
LEMMA AbstractReport ==
  ASSUME NEW state \in Abstract!Successors(program_progress.state),
         NEW progress, NEW file, NEW finished \in BOOLEAN,
         UpdateProgress(state, progress, file, finished),
         finished <=> state \in Final
  PROVE  Abstract!Report
<1>1. /\ program_progress'.state = state
      /\ program_progress'.finished = finished
      /\ progress_copy' = progress_copy
  BY Reported
<1>2. finished = (state \in {"FAILED", "FINISHED"})
  BY DEF Final
<1> QED BY <1>1, <1>2, Zenon DEF Abstract!Report

(* The successors of each state, spelled out.                              *)
LEMMA SuccessorStates ==
  /\ "ENUM_FILES" \in Abstract!Successors("ENUM_FILES")
  /\ "ENUM_FILES" \in Abstract!Successors("FAILED")
  /\ "ENUM_FILES" \in Abstract!Successors("FINISHED")
  /\ "FAILED" \in Abstract!Successors("ENUM_FILES")
  /\ "WRITE_SECTORS" \in Abstract!Successors("ENUM_FILES")
  /\ "WRITE_FILES" \in Abstract!Successors("WRITE_SECTORS")
  /\ "WRITE_FILES" \in Abstract!Successors("WRITE_FILES")
  /\ "WRITE_END" \in Abstract!Successors("WRITE_SECTORS")
  /\ "WRITE_END" \in Abstract!Successors("WRITE_FILES")
  /\ "FINISHED" \in Abstract!Successors("WRITE_END")
BY DEF Abstract!Successors


-----------------------------------------------------------------------------
(* What a step of the running pack does to the report: nothing, or a report*)
(* of the abstract protocol; the progress falls only with the enumeration. *)
ReportStep(j) ==
  /\ program_progress' = program_progress \/ Abstract!Report
  /\ \/ pc[j] = "enum" /\ pc'[j] = "list"
     \/ program_progress'.progress >= program_progress.progress

(* A step that reports nothing keeps what was reported.                    *)
LEMMA SilentStep ==
  ASSUME StructInv, NEW j \in Jobs, Work(j), JobReport(j), JobState(j),
         ~EnumFiles(j), ~Fail(j), ~WriteSectors(j), ~AnnounceFile(j),
         ~AnnounceEnd(j), ~Finish(j)
  PROVE  JobReport(j)' /\ JobState(j)' /\ ReportStep(j)
<1>1. program_progress' = program_progress
  BY DEF Work, ReadGamePath, ListFails, ListFiles, OpenImage, WriteHeader,
         ReadProgress, CopyFile, CopyStalls, ReadProgressAtEnd, WriteTrailer,
         shared
<1>2. next' = next
  BY DEF Work, ReadGamePath, ListFails, ListFiles, OpenImage, WriteHeader,
         ReadProgress, CopyFile, CopyStalls, ReadProgressAtEnd, WriteTrailer,
         workerVars
<1>3. pc'[j] \in Opened \cup {"open"} =>
        pc[j] \in Opened \cup {"open"} /\ files' = files
  <2>1. CASE ListFiles(j)
    <3>1. pc'[j] = "sectors" BY <2>1, GotoEffect DEF ListFiles, StructInv
    <3> QED BY <3>1 DEF Opened
  <2>2. CASE ~ListFiles(j)
    <3>1. files' = files
      BY <2>2 DEF Work, ReadGamePath, ListFails, OpenImage, WriteHeader,
           ReadProgress, CopyFile, CopyStalls, ReadProgressAtEnd, WriteTrailer,
           workerVars
    <3>2. pc'[j] \in Opened \cup {"open"} => pc[j] \in Opened \cup {"open"}
      BY WorkMoves DEF Moves, Opened, StructInv
    <3> QED BY <3>1, <3>2
  <2> QED BY <2>1, <2>2
<1>4. pc'[j] \in {"announce", "end"} => seen'[j] = program_progress.progress
  <2>1. CASE ReadProgress(j) BY <2>1 DEF ReadProgress, StructInv, TypeOK
  <2>2. CASE ReadProgressAtEnd(j)
    BY <2>2 DEF ReadProgressAtEnd, StructInv, TypeOK
  <2>3. CASE ~ReadProgress(j) /\ ~ReadProgressAtEnd(j)
    BY <2>3, WorkMoves DEF Moves, StructInv
  <2> QED BY <2>1, <2>2, <2>3
<1>5. pc'[j] \in {"list", "failed", "sectors"} =>
        pc[j] \in {"list", "failed", "sectors"}
  BY WorkMoves DEF Moves, StructInv
<1>6. ASSUME pc'[j] \in Opened \cup {"open"} PROVE Accounted(j)'
  BY <1>1, <1>2, <1>3, <1>6 DEF JobReport, Accounted, Share, Increment
<1>7. JobReport(j)' BY <1>1, <1>4, <1>5, <1>6 DEF JobReport
<1>8. JobState(j)'
  BY <1>1, WorkMoves DEF Moves, JobState, StructInv
<1>9. program_progress'.progress >= program_progress.progress
  <2>1. program_progress.progress \in Int
    BY DEF StructInv, TypeOK, Progress
  <2> QED BY <1>1, <2>1
<1> QED BY <1>1, <1>7, <1>8, <1>9 DEF ReportStep

(* A step that reports, reports what its pack has come to.                 *)
LEMMA ReportingStep ==
  ASSUME StructInv, NEW j \in Jobs, Work(j), JobReport(j), JobState(j)
  PROVE  JobReport(j)' /\ JobState(j)' /\ ReportStep(j)
<1> USE SessionAssumption
<1>0. /\ program_progress.progress \in Int /\ Scale \in Nat \ {0}
      /\ next[j] \in Nat /\ files[j] \in Nat
  BY DEF StructInv, TypeOK, Progress
<1>1. CASE EnumFiles(j)
  <2>1. UpdateProgress("ENUM_FILES", 0, NoFile, FALSE)
    BY <1>1 DEF EnumFiles
  <2>2. pc[j] = "enum" /\ pc'[j] = "list"
    BY <1>1, GotoEffect DEF EnumFiles, StructInv
  <2>3. /\ program_progress'.state = "ENUM_FILES"
        /\ program_progress'.progress = 0
    BY <2>1, Reported
  <2>4. Abstract!Report
    <3>1. "ENUM_FILES" \in Abstract!Successors(program_progress.state)
      BY <2>2, SuccessorStates DEF JobState, Final
    <3>2. FALSE <=> "ENUM_FILES" \in Final BY DEF Final
    <3> QED BY <2>1, <3>1, <3>2, AbstractReport
  <2>5. JobState(j)' BY <2>2, <2>3 DEF JobState
  <2>6. JobReport(j)' BY <2>2, <2>3 DEF JobReport, Opened
  <2>7. pc[j] = "enum" /\ pc'[j] = "list" BY <2>2
  <2> QED BY <2>4, <2>5, <2>6, <2>7 DEF ReportStep
<1>2. CASE Fail(j)
  <2>1. UpdateProgress("FAILED", 10 * Scale, NoFile, TRUE)
    BY <1>2 DEF Fail
  <2>2. pc[j] = "failed" /\ pc'[j] = "done"
    BY <1>2, GotoEffect DEF Fail, StructInv
  <2>3. /\ program_progress'.state = "FAILED"
        /\ program_progress'.progress = 10 * Scale
    BY <2>1, Reported
  <2>4. Abstract!Report
    <3>1. "FAILED" \in Abstract!Successors(program_progress.state)
      BY <2>2, SuccessorStates DEF JobState, Final
    <3>2. TRUE <=> "FAILED" \in Final BY DEF Final
    <3> QED BY <2>1, <3>1, <3>2, AbstractReport
  <2>5. JobState(j)' BY <2>2, <2>3 DEF JobState
  <2>6. JobReport(j)' BY <2>2, <2>3 DEF JobReport, Opened
  <2>7. program_progress'.progress >= program_progress.progress
    <3>1. program_progress.progress = 0 BY <2>2 DEF JobReport
    <3> QED BY <1>0, <2>3, <3>1
  <2> QED BY <2>4, <2>5, <2>6, <2>7 DEF ReportStep
<1>3. CASE WriteSectors(j)
  <2>1. UpdateProgress("WRITE_SECTORS", Scale, NoFile, FALSE)
    BY <1>3 DEF WriteSectors
  <2>2. pc[j] = "sectors" /\ pc'[j] = "open"
    BY <1>3, GotoEffect DEF WriteSectors, StructInv
  <2>3. /\ program_progress'.state = "WRITE_SECTORS"
        /\ program_progress'.progress = Scale
    BY <2>1, Reported
  <2>4. Abstract!Report
    <3>1. "WRITE_SECTORS" \in Abstract!Successors(program_progress.state)
      BY <2>2, SuccessorStates DEF JobState, Final
    <3>2. FALSE <=> "WRITE_SECTORS" \in Final BY DEF Final
    <3> QED BY <2>1, <3>1, <3>2, AbstractReport
  <2>5. JobState(j)' BY <2>2, <2>3 DEF JobState
  <2>6. JobReport(j)'
    <3>1. next[j] = 0 BY <2>2 DEF StructInv, LoopInv
    <3>2. next' = next /\ files' = files
      BY <1>3 DEF WriteSectors, workerVars
    <3>3. Share(j) = 0
      <4>1. ASSUME files[j] # 0 PROVE Increment(j) \in Nat
        BY <1>0, <3>1, <4>1, ShareOfNext
      <4> QED BY <3>1, <4>1 DEF Share
    <3>4. Accounted(j)'
      <4>1. Share(j)' = Share(j) BY <3>2 DEF Share, Increment
      <4>2. next'[j] <= files'[j] BY <1>0, <3>1, <3>2
      <4>3. program_progress'.progress = Scale + Share(j)'
        BY <1>0, <2>3, <3>3, <4>1
      <4> QED BY <4>2, <4>3 DEF Accounted
    <3> QED BY <2>2, <3>4 DEF JobReport
  <2>7. program_progress'.progress >= program_progress.progress
    <3>1. program_progress.progress = 0 BY <2>2 DEF JobReport
    <3> QED BY <1>0, <2>3, <3>1
  <2> QED BY <2>4, <2>5, <2>6, <2>7 DEF ReportStep
<1>4. CASE AnnounceFile(j)
  <2>1. UpdateProgress("WRITE_FILES", seen[j] + Increment(j), <<j, next[j] + 1>>, FALSE)
    BY <1>4 DEF AnnounceFile
  <2>2. pc[j] = "announce" /\ pc'[j] = "copy"
    BY <1>4, GotoEffect DEF AnnounceFile, StructInv
  <2>3. /\ program_progress'.state = "WRITE_FILES"
        /\ program_progress'.progress = seen[j] + Increment(j)
    BY <2>1, Reported
  <2>4. Abstract!Report
    <3>1. "WRITE_FILES" \in Abstract!Successors(program_progress.state)
      BY <2>2, SuccessorStates DEF JobState, Final
    <3>2. FALSE <=> "WRITE_FILES" \in Final BY DEF Final
    <3> QED BY <2>1, <3>1, <3>2, AbstractReport
  <2>5. JobState(j)' BY <2>2, <2>3 DEF JobState
  <2>8. /\ seen[j] = program_progress.progress
        /\ seen[j] = Scale + Share(j)
    BY <2>2 DEF JobReport, Accounted, Opened
  <2>9. next[j] < files[j] BY <2>2 DEF StructInv, LoopInv
  <2>10. /\ Increment(j) \in Nat
         /\ (next[j] + 1) * Increment(j) = Share(j) + Increment(j)
         /\ Share(j) \in Int
    BY <1>0, <2>9, ShareOfNext, ShareRange
  <2>6. JobReport(j)'
    <3>1. next'[j] = next[j] + 1 /\ files' = files
      BY <1>4 DEF AnnounceFile, StructInv, TypeOK
    <3>2. Share(j)' = Share(j) + Increment(j)
      <4>1. Increment(j)' = Increment(j) BY <3>1 DEF Increment
      <4>2. files'[j] # 0 BY <1>0, <2>9, <3>1
      <4>3. Share(j)' = (next[j] + 1) * Increment(j)
        BY <3>1, <4>1, <4>2 DEF Share
      <4> QED BY <2>10, <4>3
    <3>3. program_progress'.progress = Scale + Share(j)'
      BY <1>0, <2>3, <2>8, <2>10, <3>2
    <3>4. next'[j] <= files'[j] BY <1>0, <2>9, <3>1
    <3> QED BY <2>2, <3>3, <3>4 DEF JobReport, Accounted
  <2>7. program_progress'.progress >= program_progress.progress
    BY <1>0, <2>3, <2>8, <2>10
  <2> QED BY <2>4, <2>5, <2>6, <2>7 DEF ReportStep
<1>5. CASE AnnounceEnd(j)
  <2>1. UpdateProgress("WRITE_END", seen[j], NoFile, FALSE)
    BY <1>5 DEF AnnounceEnd
  <2>2. pc[j] = "end" /\ pc'[j] = "trailer"
    BY <1>5, GotoEffect DEF AnnounceEnd, StructInv
  <2>3. /\ program_progress'.state = "WRITE_END"
        /\ program_progress'.progress = seen[j]
    BY <2>1, Reported
  <2>4. Abstract!Report
    <3>1. "WRITE_END" \in Abstract!Successors(program_progress.state)
      BY <2>2, SuccessorStates DEF JobState, Final
    <3>2. FALSE <=> "WRITE_END" \in Final BY DEF Final
    <3> QED BY <2>1, <3>1, <3>2, AbstractReport
  <2>5. JobState(j)' BY <2>2, <2>3 DEF JobState
  <2>8. seen[j] = program_progress.progress /\ Accounted(j)
    BY <2>2 DEF JobReport, Opened
  <2>6. JobReport(j)'
    <3>1. next' = next /\ files' = files BY <1>5 DEF AnnounceEnd
    <3>2. Accounted(j)'
      BY <2>3, <2>8, <3>1 DEF Accounted, Share, Increment
    <3> QED BY <2>2, <3>2 DEF JobReport
  <2>7. program_progress'.progress >= program_progress.progress
    BY <1>0, <2>3, <2>8
  <2> QED BY <2>4, <2>5, <2>6, <2>7 DEF ReportStep
<1>6. CASE Finish(j)
  <2>1. UpdateProgress("FINISHED", 10 * Scale, NoFile, TRUE)
    BY <1>6 DEF Finish
  <2>2. pc[j] = "finish" /\ pc'[j] = "done"
    BY <1>6, GotoEffect DEF Finish, StructInv
  <2>3. /\ program_progress'.state = "FINISHED"
        /\ program_progress'.progress = 10 * Scale
    BY <2>1, Reported
  <2>4. Abstract!Report
    <3>1. "FINISHED" \in Abstract!Successors(program_progress.state)
      BY <2>2, SuccessorStates DEF JobState, Final
    <3>2. TRUE <=> "FINISHED" \in Final BY DEF Final
    <3> QED BY <2>1, <3>1, <3>2, AbstractReport
  <2>5. JobState(j)' BY <2>2, <2>3 DEF JobState
  <2>6. JobReport(j)' BY <2>2, <2>3 DEF JobReport, Opened
  <2>7. program_progress'.progress >= program_progress.progress
    <3>1. Accounted(j) BY <2>2 DEF JobReport, Opened
    <3>2. Share(j) \in 0 .. 8 * Scale BY <3>1, ShareRange DEF Accounted
    <3> QED BY <1>0, <2>3, <3>1, <3>2 DEF Accounted
  <2> QED BY <2>4, <2>5, <2>6, <2>7 DEF ReportStep
<1> QED BY <1>1, <1>2, <1>3, <1>4, <1>5, <1>6, SilentStep

-----------------------------------------------------------------------------
(* A step of the client or of a dying process reports nothing; a launch    *)
(* finds the reports of a finished pack, or those of the start.            *)
LEMMA ClientReports ==
  ASSUME StructInv, SerialInv, ReportInv, StateInv,
         Client \/ (\E j \in Jobs : Terminate(j)) \/ UNCHANGED vars
  PROVE  /\ program_progress' = program_progress
         /\ ReportInv' /\ StateInv'
<1>1. /\ program_progress' = program_progress
      /\ UNCHANGED <<files, next, seen>>
  BY DEF Client, CallStartPacking, StartPacking, CopyGamePath, CopyDestPath,
         LaunchThread, SetFileBuffer, PollProgress, ReadProgressCopy, Terminate,
         vars, shared, workerVars
<1>2. CASE LaunchThread
  <2>1. /\ AllEnded
        /\ \A k \in Jobs : k # pack_thread + 1 => pc'[k] = pc[k]
        /\ \A k \in Jobs : k = pack_thread + 1 => pc'[k] = "start"
    BY <1>2 DEF LaunchThread, SerialInv, Calling, StructInv, TypeOK
  <2>2. program_progress.state \in {"ENUM_FILES"} \cup Final
    BY <2>1 DEF StateInv
  <2>3. ReportInv'
    BY <1>1, <2>1 DEF ReportInv, JobReport, Accounted, Share, Increment, Opened
  <2>4. \A k \in Jobs : JobState(k)'
    BY <1>1, <2>1, <2>2 DEF StateInv, JobState
  <2> QED BY <1>1, <2>2, <2>3, <2>4 DEF StateInv
<1>3. CASE ~LaunchThread
  <2>1. pc' = pc /\ pack_thread' = pack_thread
    BY <1>3 DEF Client, CallStartPacking, StartPacking, CopyGamePath,
         CopyDestPath, SetFileBuffer, PollProgress, ReadProgressCopy,
         Terminate, vars, clientVars
  <2>2. ReportInv'
    BY <1>1, <2>1 DEF ReportInv, JobReport, Accounted, Share, Increment
  <2>3. StateInv'
    BY <1>1, <2>1 DEF StateInv, JobState, AllEnded, Launched, Ended
  <2> QED BY <1>1, <2>2, <2>3
<1> QED BY <1>2, <1>3

(* A step of the running pack keeps what it and the others have reported.  *)
LEMMA WorkReports ==
  ASSUME StructInv, SerialInv, ReportInv, StateInv, NEW j \in Jobs, Work(j)
  PROVE  ReportInv' /\ StateInv' /\ ReportStep(j)
<1>1. JobReport(j)' /\ JobState(j)' /\ ReportStep(j)
  BY ReportingStep DEF ReportInv, StateInv
<1>2. WorkEffect(j) BY WorkEffects DEF StructInv
<1>3. \A k \in Jobs : k # j => pc'[k] \in {"none", "done"}
  BY <1>2, Alone
<1>4. ReportInv'
  <2>1. \A k \in Jobs : k # j => JobReport(k)'
    BY <1>3 DEF JobReport, Opened
  <2> QED BY <1>1, <2>1 DEF ReportInv
<1>5. \A k \in Jobs : JobState(k)'
  <2>1. \A k \in Jobs : k # j => JobState(k)'
    BY <1>3 DEF JobState
  <2> QED BY <1>1, <2>1
<1>6. AllEnded' => program_progress'.state \in {"ENUM_FILES"} \cup Final
  <2> SUFFICES ASSUME AllEnded'
               PROVE  program_progress'.state \in {"ENUM_FILES"} \cup Final
    OBVIOUS
  <2>1. pc'[j] = "done"
    <3>1. j = pack_thread /\ pack_thread' = pack_thread
      BY <1>2, Alone DEF WorkEffect, clientVars
    <3>2. j \in Launched'
      BY <3>1, SessionAssumption DEF Launched, Jobs
    <3> QED BY <3>2 DEF AllEnded, Ended
  <2>2. Fail(j) \/ Finish(j)
    BY <2>1, WorkMoves DEF Moves, StructInv
  <2>3. CASE Fail(j)
    <3>1. UpdateProgress("FAILED", 10 * Scale, NoFile, TRUE)
      BY <2>3 DEF Fail
    <3> QED BY <3>1, Reported DEF Final
  <2>4. CASE Finish(j)
    <3>1. UpdateProgress("FINISHED", 10 * Scale, NoFile, TRUE)
      BY <2>4 DEF Finish
    <3> QED BY <3>1, Reported DEF Final
  <2> QED BY <2>2, <2>3, <2>4
<1> QED BY <1>1, <1>4, <1>5, <1>6 DEF StateInv

(* The inductive invariant of a session whose packs do not overlap.        *)
LEMMA SerialAllInit == Init => SerialAll /\ OwnPaths
<1> SUFFICES ASSUME Init PROVE SerialAll /\ OwnPaths OBVIOUS
<1>1. StructInv BY InitStruct
<1>2. SerialInv
  BY SessionAssumption DEF Init, SerialInv, Calling, Jobs
<1>3. BuffersInv BY DEF Init, BuffersInv, Unread, Unopen
<1>4. ReportInv BY DEF Init, ReportInv, JobReport, Opened
<1>5. StateInv
  BY DEF Init, StateInv, JobState, ZeroProgress
<1>6. OwnPaths BY DEF Init, OwnPaths
<1> QED BY <1>1, <1>2, <1>3, <1>4, <1>5, <1>6 DEF SerialAll

(* A step that starts a pack only after the others have ended keeps the    *)
(* workers' structure and their own paths,                                 *)
LEMMA SerialAllStep ==
  SerialAll /\ OwnPaths /\ [Next]_vars /\ [StartPacking => AllEnded]_vars
    => (SerialAll /\ OwnPaths)'
<1> SUFFICES ASSUME SerialAll, OwnPaths, [Next]_vars,
                    [StartPacking => AllEnded]_vars
             PROVE  (SerialAll /\ OwnPaths)'
  OBVIOUS
<1> USE DEF SerialAll
<1>1. StructInv' BY StructStep
<1>2. SerialInv' BY SerialStep
<1>3. BuffersInv' BY BuffersStep
<1>4. OwnPaths' BY OwnPathsStep
<1>5. ReportInv' /\ StateInv'
  <2>1. CASE \E j \in Jobs : Work(j) BY <2>1, WorkReports
  <2>2. CASE Client \/ (\E j \in Jobs : Terminate(j)) \/ UNCHANGED vars
    BY <2>2, ClientReports
  <2> QED BY <2>1, <2>2 DEF Next
<1> QED BY <1>1, <1>2, <1>3, <1>4, <1>5

(* so a behaviour whose packs do not overlap keeps them for ever.          *)
LEMMA SerialStructure == Spec /\ Serially => [](SerialAll /\ OwnPaths)
<1> QED BY SerialAllInit, SerialAllStep, PTL DEF Spec, Serially

(* However many packs a client runs one after the other, each reads its own*)
(* two paths out of the global buffers.                                    *)
THEOREM SerialOwnPaths == Spec /\ Serially => []OwnPaths
<1> QED BY SerialStructure, PTL

(* The unlocked read of the progress then loses no increment: the progress *)
(* is always 10% and the share of the files announced.                     *)
THEOREM SerialProgressAccounted == Spec /\ Serially => []ProgressAccounted
<1>1. SerialAll => ProgressAccounted
  BY DEF SerialAll, ReportInv, JobReport, Accounted, Share, Opened,
         ProgressAccounted
<1> QED BY <1>1, SerialStructure, PTL

-----------------------------------------------------------------------------
(* The workers, the lock and the polling implement the abstract protocol:  *)
(* initially,                                                              *)
LEMMA InitRefines == Init => Abstract!Init
BY DEF Init, Abstract!Init, ZeroProgress

(* and at each step, which reports, shows the last report, or stutters.    *)
LEMMA StepRefines ==
  SerialAll /\ [Next]_vars => [Abstract!Next]_Abstract!vars
<1> SUFFICES ASSUME SerialAll, [Next]_vars
             PROVE  Abstract!Next \/ UNCHANGED Abstract!vars
  OBVIOUS
<1> USE DEF SerialAll
<1>1. ASSUME NEW j \in Jobs, Work(j)
      PROVE  Abstract!Next \/ UNCHANGED Abstract!vars
  <2>1. program_progress' = program_progress \/ Abstract!Report
    BY <1>1, WorkReports DEF ReportStep
  <2>2. progress_copy' = progress_copy
    BY <1>1, WorkEffects DEF WorkEffect, StructInv
  <2> QED BY <2>1, <2>2 DEF Abstract!Next, Abstract!vars
<1>2. CASE PollProgress
  <2>1. program_progress' = program_progress BY <1>2 DEF PollProgress
  <2>2. CASE progress_dirty
    BY <1>2, <2>1, <2>2 DEF PollProgress, Abstract!Next, Abstract!View
  <2>3. CASE ~progress_dirty
    BY <1>2, <2>1, <2>3 DEF PollProgress, Abstract!vars
  <2> QED BY <2>2, <2>3
<1>3. CASE ReadProgressCopy
  <2>1. /\ program_progress' = program_progress
        /\ progress_copy'.state = progress_copy.state
        /\ progress_copy'.finished = progress_copy.finished
    BY <1>3 DEF ReadProgressCopy, StructInv, TypeOK, Progress
  <2> QED BY <2>1 DEF Abstract!vars
<1>4. CASE \/ StartPacking \/ CallStartPacking \/ SetFileBuffer
           \/ (\E j \in Jobs : Terminate(j)) \/ UNCHANGED vars
  BY <1>4 DEF StartPacking, CallStartPacking, CopyGamePath, CopyDestPath,
              LaunchThread, SetFileBuffer, Terminate, vars, shared,
              Abstract!vars
<1> QED BY <1>1, <1>2, <1>3, <1>4 DEF Next, Client

(* A session whose packs do not overlap implements ProgressProtocol.       *)
THEOREM SerialRefinement == Spec /\ Serially => RefinesProgressProtocol
<1> QED
  BY InitRefines, StepRefines, SerialStructure, PTL
  DEF Spec, RefinesProgressProtocol, Abstract!Spec

-----------------------------------------------------------------------------
(* What a waiting client was shown before it starts a pack is the end of   *)
(* the pack before: every step keeps its reports fresh between packs.      *)
LEMMA FreshStep ==
  ASSUME ClientWaits, SerialAll, FreshInv, [Next]_vars
  PROVE  FreshInv'
<1> USE DEF SerialAll, Fresh
<1>0. /\ program_progress.progress \in Int
      /\ progress_copy.progress \in Int
  BY DEF StructInv, TypeOK, Progress
<1>1. CASE StartPacking
  <2>1. client = "idle" BY <1>1 DEF StartPacking
  <2>2. UNCHANGED <<program_progress, progress_copy, pack_thread, pc>>
    BY <1>1 DEF StartPacking, shared
  <2>3. AllEnded' <=> AllEnded BY <2>2 DEF AllEnded, Launched, Ended
  <2> QED BY <2>1, <2>2, <2>3 DEF FreshInv
<1>2. CASE CopyGamePath \/ CopyDestPath
  <2>1. /\ UNCHANGED <<program_progress, progress_copy, pack_thread, pc>>
        /\ Calling
    BY <1>2 DEF CopyGamePath, CopyDestPath, shared, Calling
  <2>2. AllEnded' <=> AllEnded BY <2>1 DEF AllEnded, Launched, Ended
  <2> QED BY <2>1, <2>2 DEF FreshInv
<1>3. CASE LaunchThread
  <2>1. /\ Calling /\ AllEnded /\ client' = "poll"
        /\ UNCHANGED <<program_progress, progress_copy>>
    BY <1>3 DEF LaunchThread, SerialInv, Calling, shared
  <2>2. Fresh(program_progress) /\ Fresh(progress_copy)
    BY <2>1 DEF FreshInv
  <2>3. Fresh(program_progress') /\ Fresh(progress_copy')
    BY <2>1, <2>2
  <2>4. client' # "idle" /\ ~Calling' BY <2>1 DEF Calling
  <2> QED BY <2>1, <2>3, <2>4 DEF FreshInv
<1>4. CASE PollProgress
  <2>1. /\ UNCHANGED <<program_progress, pack_thread, pc>>
        /\ client' = "read"
        /\ progress_copy' \in {program_progress, progress_copy}
    BY <1>4 DEF PollProgress
  <2>2. AllEnded' <=> AllEnded BY <2>1 DEF AllEnded, Launched, Ended
  <2>3. client' # "idle" /\ ~Calling' BY <2>1 DEF Calling
  <2> QED BY <1>0, <2>1, <2>2, <2>3 DEF FreshInv
<1>5. CASE ReadProgressCopy
  <2>1. /\ UNCHANGED <<program_progress, pack_thread, pc>>
        /\ progress_copy'.finished = progress_copy.finished
        /\ progress_copy'.progress = progress_copy.progress
    BY <1>5 DEF ReadProgressCopy, StructInv, TypeOK, Progress
  <2>2. /\ client' = "idle" => progress_copy.finished
        /\ ~Calling'
    BY <1>5 DEF ReadProgressCopy, Calling
  <2>3. AllEnded' <=> AllEnded BY <2>1 DEF AllEnded, Launched, Ended
  <2> QED BY <2>1, <2>2, <2>3 DEF FreshInv
<1>6. ASSUME NEW j \in Jobs, Work(j) PROVE FreshInv'
  <2>1. WorkEffect(j) BY <1>6, WorkEffects DEF StructInv
  <2>2. UNCHANGED <<progress_copy, client, pack_thread>>
    BY <2>1 DEF WorkEffect, clientVars
  <2>3. Calling' <=> Calling BY <2>2 DEF Calling
  <2>4. AllEnded' => program_progress'.finished
    <3>1. j = pack_thread BY <2>1, Alone
    <3>2. j \in 1 .. pack_thread'
      BY <2>2, <3>1, SessionAssumption DEF Jobs
    <3>3. AllEnded' => pc'[j] = "done"
      BY <3>2 DEF AllEnded, Launched, Ended
    <3>4. pc'[j] = "done" => program_progress'.finished
      BY <2>1 DEF WorkEffect
    <3> QED BY <3>3, <3>4
  <2>5. ASSUME NEW k \in Jobs, pc'[k] \in {"start", "enum"}
        PROVE  Fresh(program_progress') /\ Fresh(progress_copy)
    <3>1. k = j BY <2>1, <2>5, Alone
    <3>2. ReadGamePath(j) /\ pc[j] = "start"
      BY <1>6, <2>5, <3>1, WorkMoves DEF Moves, StructInv
    <3>3. program_progress' = program_progress
      BY <3>2 DEF ReadGamePath, shared
    <3> QED BY <3>2, <3>3 DEF FreshInv
  <2>6. \/ progress_copy.finished
        \/ progress_copy.progress <= program_progress'.progress
    <3>1. ReportStep(j) BY <1>6, WorkReports
    <3>2. program_progress'.progress \in Int
      BY StructStep DEF StructInv, TypeOK, Progress
    <3>3. CASE program_progress'.progress >= program_progress.progress
      BY <1>0, <3>2, <3>3 DEF FreshInv
    <3>4. CASE pc[j] = "enum" /\ pc'[j] = "list"
      <4>1. EnumFiles(j)
        BY <1>6, <3>4, WorkMoves DEF Moves, StructInv
      <4>2. UpdateProgress("ENUM_FILES", 0, NoFile, FALSE)
        BY <4>1 DEF EnumFiles
      <4>3. program_progress'.progress = 0 BY <4>2, Reported
      <4>4. Fresh(progress_copy) BY <3>4 DEF FreshInv
      <4> QED BY <4>3, <4>4
    <3> QED BY <3>1, <3>3, <3>4 DEF ReportStep
  <2> QED BY <2>2, <2>3, <2>4, <2>5, <2>6 DEF FreshInv
<1>7. CASE SetFileBuffer \/ (\E j \in Jobs : Terminate(j)) \/ UNCHANGED vars
  <2>1. UNCHANGED <<program_progress, progress_copy, pack_thread, pc, client>>
    BY <1>7 DEF SetFileBuffer, Terminate, vars, shared, clientVars
  <2>2. /\ AllEnded' <=> AllEnded
        /\ Calling' <=> Calling
    BY <2>1 DEF AllEnded, Launched, Ended, Calling
  <2> QED BY <2>1, <2>2 DEF FreshInv
<1> QED
  BY <1>1, <1>2, <1>3, <1>4, <1>5, <1>6, <1>7 DEF Next, Client, CallStartPacking

(* Only a poll changes what the client is shown.                           *)
LEMMA ShownStep ==
  ASSUME StructInv, FreshInv, [Next]_vars
  PROVE  \/ progress_copy.finished
         \/ progress_copy'.progress >= progress_copy.progress
<1>0. /\ program_progress.progress \in Int
      /\ progress_copy.progress \in Int
  BY DEF StructInv, TypeOK, Progress
<1>1. CASE PollProgress
  BY <1>0, <1>1 DEF PollProgress, FreshInv
<1>2. CASE ReadProgressCopy
  BY <1>0, <1>2 DEF ReadProgressCopy, StructInv, TypeOK, Progress
<1>3. ASSUME NEW j \in Jobs, Work(j)
      PROVE  progress_copy'.progress >= progress_copy.progress
  BY <1>0, <1>3, WorkEffects DEF WorkEffect, StructInv
<1>4. CASE \/ StartPacking \/ CallStartPacking \/ SetFileBuffer
           \/ (\E j \in Jobs : Terminate(j)) \/ UNCHANGED vars
  <2>1. progress_copy' = progress_copy
    BY <1>4 DEF StartPacking, CallStartPacking, CopyGamePath, CopyDestPath,
                LaunchThread, SetFileBuffer, Terminate, vars, shared
  <2> QED BY <1>0, <2>1
<1> QED BY <1>1, <1>2, <1>3, <1>4 DEF Next, Client

(* The progress a waiting client is shown falls only after the end of a    *)
(* pack, whatever the number of packs.                                     *)
THEOREM SerialNeverBackwards ==
  ASSUME ClientWaits PROVE Spec /\ Serially => NeverBackwards
<1>1. Init => FreshInv
  BY DEF Init, FreshInv, Fresh, ZeroProgress
<1>2. SerialAll /\ FreshInv /\ [Next]_vars => FreshInv'
  BY FreshStep
<1>3. SerialAll /\ FreshInv /\ [Next]_vars
        => [progress_copy.finished
              \/ progress_copy'.progress >= progress_copy.progress]_vars
  BY ShownStep DEF SerialAll
<1> QED
  BY <1>1, <1>2, <1>3, SerialStructure, PTL DEF Spec, NeverBackwards

-----------------------------------------------------------------------------
(* A client that waits for `finished` calls serially while it packs no more*)
(* than twice: what it reads after the first pack is about the first pack. *)
LEMMA WaitStep ==
  ASSUME ClientWaits, MaxJobs <= 2, StructInv, FinishedJustified, WaitInv,
         [Next]_vars
  PROVE  WaitInv'
<1> USE SessionAssumption
<1>1. CASE ReadProgressCopy
  <2> SUFFICES ASSUME client' = "idle", pack_thread' < MaxJobs
               PROVE  AllEnded'
    BY DEF WaitInv
  <2>1. /\ progress_copy.finished
        /\ pack_thread' = pack_thread /\ pc' = pc
    BY <1>1 DEF ReadProgressCopy
  <2>2. PICK k \in Launched : Ended(k)
    BY <2>1 DEF FinishedJustified
  <2>3. pack_thread = 1 /\ k = 1
    BY <2>1, <2>2 DEF Launched, StructInv, TypeOK
  <2>4. AllEnded BY <2>2, <2>3 DEF AllEnded, Launched
  <2> QED BY <2>1, <2>4 DEF AllEnded, Launched, Ended
<1>2. CASE StartPacking \/ CallStartPacking \/ PollProgress
  <2>1. client' # "idle"
    BY <1>2 DEF StartPacking, CallStartPacking, CopyGamePath, CopyDestPath,
                LaunchThread, PollProgress
  <2> QED BY <2>1 DEF WaitInv
<1>3. CASE \/ SetFileBuffer
           \/ \E j \in Jobs : Work(j) \/ Terminate(j)
           \/ UNCHANGED vars
  <2>1. client' = client /\ pack_thread' = pack_thread
    <3>1. ASSUME NEW j \in Jobs, Work(j) PROVE UNCHANGED clientVars
      BY <3>1, WorkEffects DEF WorkEffect, StructInv
    <3> QED BY <1>3, <3>1 DEF SetFileBuffer, Terminate, vars, clientVars
  <2> QED BY <2>1, AllEndedStays DEF WaitInv
<1> QED BY <1>1, <1>2, <1>3 DEF Next, Client

(* A client that waits for `finished` and calls start_packing twice at most*)
(* never has two packs at once (Test.cpp's loop, API.cpp, lines 62 to 80). *)
THEOREM TwoWaitedPacksAreSerial ==
  ASSUME ClientWaits, MaxJobs <= 2 PROVE Spec => Serially
<1>1. Init => WaitInv
  BY DEF Init, WaitInv, AllEnded, Launched
<1>2. StructInv /\ FinishedJustified /\ WaitInv /\ [Next]_vars => WaitInv'
  BY WaitStep
<1>3. WaitInv => [StartPacking => AllEnded]_vars
  <2> SUFFICES ASSUME WaitInv, StartPacking PROVE AllEnded
    OBVIOUS
  <2>1. client = "idle" /\ pack_thread < MaxJobs BY DEF StartPacking
  <2> QED BY <2>1 DEF WaitInv
<1> QED
  BY <1>1, <1>2, <1>3, Structure, FinishedIsJustified, PTL DEF Spec, Serially

(* So two packs that a client waits for keep all four properties, without  *)
(* any assumption on the behaviour.                                        *)
THEOREM TwoWaitedPacks ==
  ASSUME ClientWaits, MaxJobs <= 2
  PROVE  Spec => /\ []OwnPaths
                 /\ []ProgressAccounted
                 /\ NeverBackwards
                 /\ RefinesProgressProtocol
<1>1. Spec => Serially BY TwoWaitedPacksAreSerial
<1>2. Spec /\ Serially => NeverBackwards BY SerialNeverBackwards
<1> QED
  BY <1>1, <1>2, SerialOwnPaths, SerialProgressAccounted, SerialRefinement, PTL
=============================================================================
