------------------------- MODULE PackSession_proofs -------------------------
(***************************************************************************)
(* Theorems about PackSession for every number of jobs, of files, every    *)
(* progress scale and both kinds of client.                                *)
(***************************************************************************)
EXTENDS PackSession, TLAPS

(* Where a worker is and how many files it has announced: nothing before   *)
(* the loop, one more file to announce inside it.                          *)
LoopInv ==
  \A j \in Jobs :
    /\ pc[j] \in {"none", "start", "enum", "list", "sectors", "open", "header"}
         => next[j] = 0
    /\ pc[j] \in {"progress", "announce"} => next[j] < files[j]

(* A worker exists exactly for the start_packing calls that have returned. *)
LaunchInv == \A j \in Jobs : pc[j] = "none" <=> j > pack_thread

StructInv == TypeOK /\ LoopInv /\ LaunchInv

-----------------------------------------------------------------------------
(* An update of a report is a report.                                      *)
LEMMA UpdatedType ==
  ASSUME NEW old \in Progress, NEW state \in ProgressStates,
         NEW progress \in Int, NEW file \in Files, NEW finished \in BOOLEAN
  PROVE  Updated(old, state, progress, file, finished) \in Progress
BY DEF Updated, Progress

(* The empty file name may stand in a report.                              *)
LEMMA NoFileType == NoFile \in Files
BY DEF Files

(* update_progress keeps the shared reports well typed.                    *)
LEMMA UpdateType ==
  ASSUME TypeOK, NEW state \in ProgressStates, NEW progress \in Int,
         NEW file \in Files, NEW finished \in BOOLEAN,
         UpdateProgress(state, progress, file, finished)
  PROVE  /\ program_progress' \in Progress
         /\ progress_copy' \in Progress
         /\ progress_dirty' \in BOOLEAN
         /\ program_progress'.finished = finished
         /\ progress_dirty'
         /\ progress_copy' = progress_copy
<1>1. program_progress \in Progress BY DEF TypeOK
<1>2. program_progress' =
        Updated(program_progress, state, progress, file, finished)
  BY DEF UpdateProgress
<1>3. program_progress' \in Progress BY <1>1, <1>2, UpdatedType
<1>4. program_progress'.finished = finished BY <1>2 DEF Updated
<1> QED BY <1>3, <1>4 DEF UpdateProgress, TypeOK

(* The quotient the progress grows by is an integer.                       *)
LEMMA IncrementType ==
  ASSUME TypeOK, NEW j \in Jobs, files[j] > 0
  PROVE  Increment(j) \in Int
<1>1. files[j] \in Int /\ 8 * Scale \in Int BY SessionAssumption DEF TypeOK
<1> QED BY <1>1 DEF Increment

(* The numbers reported as progress.                                       *)
LEMMA ConstantTypes == 0 \in Int /\ Scale \in Int /\ 10 * Scale \in Int
BY SessionAssumption

(* The structural invariant holds at the start,                            *)
LEMMA InitStruct == Init => StructInv
<1> SUFFICES ASSUME Init PROVE StructInv OBVIOUS
<1> USE SessionAssumption
<1>1. ZeroProgress \in Progress
  BY DEF ZeroProgress, Progress, ProgressStates, Files
<1>2. /\ NoPath \in Paths
      /\ 0 \in 0 .. MaxJobs
      /\ 0 \in 0 .. MaxFiles
      /\ 0 \in Int
      /\ 1 \in BufferSizes
  BY DEF Paths, BufferSizes
<1>3. TypeOK
  BY <1>1, <1>2 DEF Init, TypeOK, ClientSteps, WorkerSteps
<1>4. LoopInv BY DEF Init, LoopInv
<1>5. LaunchInv BY DEF Init, LaunchInv, Jobs
<1> QED BY <1>3, <1>4, <1>5 DEF StructInv

(* Steps of the client.                                                    *)
LEMMA ClientStruct == StructInv /\ Client => StructInv'
<1> SUFFICES ASSUME StructInv, Client PROVE StructInv' OBVIOUS
<1> USE SessionAssumption DEF StructInv
<1>1. CASE StartPacking
  <2>1. UNCHANGED <<shared, workerVars, pack_thread, pc, process>>
    BY <1>1 DEF StartPacking
  <2>2. /\ game_path' \in Paths /\ dest_path' \in Paths
        /\ buffer_size' = buffer_size
        /\ client' \in ClientSteps
        /\ client' \in {"game", "dest", "launch"} => pack_thread < MaxJobs
    BY <1>1 DEF StartPacking, TypeOK, Paths, ClientSteps
  <2>3. TypeOK'
    BY <2>1, <2>2 DEF TypeOK, shared, workerVars
  <2>4. LoopInv' /\ LaunchInv'
    BY <2>1 DEF LoopInv, LaunchInv, workerVars
  <2> QED  BY <2>3, <2>4
<1>2. CASE CopyGamePath
  <2>1. UNCHANGED <<shared, workerVars, pack_thread, pc, process>>
    BY <1>2 DEF CopyGamePath
  <2>2. /\ game_path' \in Paths /\ dest_path' \in Paths
        /\ buffer_size' = buffer_size
        /\ client' \in ClientSteps
        /\ client' \in {"game", "dest", "launch"} => pack_thread < MaxJobs
    BY <1>2 DEF CopyGamePath, TypeOK, Paths, ClientSteps, Jobs
  <2>3. TypeOK'
    BY <2>1, <2>2 DEF TypeOK, shared, workerVars
  <2>4. LoopInv' /\ LaunchInv'
    BY <2>1 DEF LoopInv, LaunchInv, workerVars
  <2> QED  BY <2>3, <2>4
<1>3. CASE CopyDestPath
  <2>1. UNCHANGED <<shared, workerVars, pack_thread, pc, process>>
    BY <1>3 DEF CopyDestPath
  <2>2. /\ game_path' \in Paths /\ dest_path' \in Paths
        /\ buffer_size' = buffer_size
        /\ client' \in ClientSteps
        /\ client' \in {"game", "dest", "launch"} => pack_thread < MaxJobs
    BY <1>3 DEF CopyDestPath, TypeOK, Paths, ClientSteps, Jobs
  <2>3. TypeOK'
    BY <2>1, <2>2 DEF TypeOK, shared, workerVars
  <2>4. LoopInv' /\ LaunchInv'
    BY <2>1 DEF LoopInv, LaunchInv, workerVars
  <2> QED  BY <2>3, <2>4
<1>4. CASE LaunchThread
  <2>1. TypeOK'
    <3>1. /\ UNCHANGED <<shared, buffers>>
          /\ pack_thread < MaxJobs /\ pack_thread' = pack_thread + 1
          /\ client' \in ClientSteps \ {"game", "dest", "launch"}
      BY <1>4 DEF LaunchThread, TypeOK, ClientSteps
    <3>2. pack_thread' \in 0 .. MaxJobs
      BY <3>1 DEF TypeOK
    <3>3. /\ pc' \in [Jobs -> WorkerSteps]
          /\ UNCHANGED <<source, image, files, next, seen, process>>
      BY <1>4 DEF LaunchThread, TypeOK, WorkerSteps, workerVars
    <3> QED  BY <3>1, <3>2, <3>3 DEF TypeOK, shared, buffers
  <2>2. LoopInv'
    <3>1. /\ UNCHANGED <<files, next>>
          /\ \A k \in Jobs : k # pack_thread + 1 => pc'[k] = pc[k]
      BY <1>4 DEF LaunchThread, TypeOK, workerVars
    <3>2. ASSUME NEW k \in Jobs, k = pack_thread + 1
          PROVE  pc[k] = "none" /\ pc'[k] = "start"
      BY <1>4, <3>2 DEF LaunchThread, TypeOK, LaunchInv, Jobs
    <3>3. \A k \in Jobs : pc[k] = "none" => next[k] = 0
      BY DEF LoopInv
    <3> QED  BY <3>1, <3>2, <3>3 DEF LoopInv
  <2>3. LaunchInv'
    <3>1. pack_thread' = pack_thread + 1 /\ pack_thread \in 0 .. MaxJobs
      BY <1>4 DEF LaunchThread, TypeOK
    <3>2. \A k \in Jobs : pc'[k] = IF k = pack_thread + 1 THEN "start" ELSE pc[k]
      BY <1>4 DEF LaunchThread, TypeOK
    <3> QED  BY <3>1, <3>2 DEF LaunchInv, Jobs
  <2> QED BY <2>1, <2>2, <2>3
<1>5. CASE PollProgress
  BY <1>5 DEF PollProgress, TypeOK, LoopInv, LaunchInv, ClientSteps, buffers,
              workerVars
<1>6. CASE ReadProgressCopy
  <2>1. progress_copy' \in Progress
    BY <1>6 DEF ReadProgressCopy, TypeOK, Progress
  <2> QED
    BY <1>6, <2>1 DEF ReadProgressCopy, TypeOK, LoopInv, LaunchInv, ClientSteps,
                      buffers, workerVars
<1>7. CASE SetFileBuffer
  BY <1>7 DEF SetFileBuffer, TypeOK, LoopInv, LaunchInv, shared, clientVars,
              workerVars
<1> QED BY <1>1, <1>2, <1>3, <1>4, <1>5, <1>6, <1>7 DEF Client, CallStartPacking

(* Steps of a worker.                                                      *)
LEMMA WorkStruct == ASSUME NEW j \in Jobs PROVE StructInv /\ Work(j) => StructInv'
<1> SUFFICES ASSUME StructInv, Work(j) PROVE StructInv' OBVIOUS
<1> USE SessionAssumption, NoFileType DEF StructInv
<1> USE DEF shared, buffers, clientVars, workerVars
<1>1. CASE ReadGamePath(j)
  BY <1>1 DEF ReadGamePath, Goto, TypeOK, LoopInv, LaunchInv, WorkerSteps
<1>2. CASE EnumFiles(j)
  <2>1. UpdateProgress("ENUM_FILES", 0, NoFile, FALSE) BY <1>2 DEF EnumFiles
  <2>2. /\ program_progress' \in Progress /\ progress_copy' \in Progress
        /\ progress_dirty' \in BOOLEAN
    BY <2>1, ConstantTypes, UpdateType, Zenon DEF ProgressStates
  <2> QED
    BY <1>2, <2>2 DEF EnumFiles, Goto, TypeOK, LoopInv, LaunchInv, WorkerSteps
<1>3. CASE ListFails(j)
  BY <1>3 DEF ListFails, Goto, TypeOK, LoopInv, LaunchInv, WorkerSteps
<1>4. CASE ListFiles(j)
  BY <1>4 DEF ListFiles, Goto, TypeOK, LoopInv, LaunchInv, WorkerSteps
<1>5. CASE Fail(j)
  <2>1. UpdateProgress("FAILED", 10 * Scale, NoFile, TRUE) BY <1>5 DEF Fail
  <2>2. /\ program_progress' \in Progress /\ progress_copy' \in Progress
        /\ progress_dirty' \in BOOLEAN
    BY <2>1, ConstantTypes, UpdateType, Zenon DEF ProgressStates
  <2> QED
    BY <1>5, <2>2 DEF Fail, Goto, TypeOK, LoopInv, LaunchInv, WorkerSteps
<1>6. CASE WriteSectors(j)
  <2>1. UpdateProgress("WRITE_SECTORS", Scale, NoFile, FALSE)
    BY <1>6 DEF WriteSectors
  <2>2. /\ program_progress' \in Progress /\ progress_copy' \in Progress
        /\ progress_dirty' \in BOOLEAN
    BY <2>1, ConstantTypes, UpdateType, Zenon DEF ProgressStates
  <2> QED
    BY <1>6, <2>2 DEF WriteSectors, Goto, TypeOK, LoopInv, LaunchInv, WorkerSteps
<1>7. CASE OpenImage(j)
  BY <1>7 DEF OpenImage, Goto, TypeOK, LoopInv, LaunchInv, WorkerSteps
<1>8. CASE WriteHeader(j)
  BY <1>8 DEF WriteHeader, NextFile, Goto, TypeOK, LoopInv, LaunchInv, WorkerSteps
<1>9. CASE ReadProgress(j)
  <2>1. program_progress.progress \in Int BY DEF TypeOK, Progress
  <2> QED
    BY <1>9, <2>1 DEF ReadProgress, Goto, TypeOK, LoopInv, LaunchInv, WorkerSteps
<1>10. CASE AnnounceFile(j)
  <2>1. /\ UpdateProgress("WRITE_FILES", seen[j] + Increment(j),
                          <<j, next[j] + 1>>, FALSE)
        /\ pc[j] = "announce"
    BY <1>10 DEF AnnounceFile, Goto
  <2>2. next[j] < files[j] /\ next[j] \in 0 .. MaxFiles /\ files[j] \in 0 .. MaxFiles
    BY <2>1 DEF LoopInv, TypeOK
  <2>3. seen[j] + Increment(j) \in Int
    <3>1. Increment(j) \in Int BY <2>2, IncrementType
    <3> QED BY <3>1 DEF TypeOK
  <2>4. next[j] + 1 \in 1 .. MaxFiles BY <2>2
  <2>5. <<j, next[j] + 1>> \in Files BY <2>4 DEF Files
  <2>6. /\ program_progress' \in Progress /\ progress_copy' \in Progress
        /\ progress_dirty' \in BOOLEAN
    BY <2>1, <2>3, <2>5, UpdateType DEF ProgressStates
  <2>7. next' \in [Jobs -> 0 .. MaxFiles]
    BY <1>10, <2>4 DEF AnnounceFile, TypeOK
  <2>8. TypeOK'
    BY <1>10, <2>6, <2>7 DEF AnnounceFile, Goto, TypeOK, WorkerSteps
  <2> QED
    BY <1>10, <2>8 DEF AnnounceFile, Goto, TypeOK, LoopInv, LaunchInv
<1>11. CASE CopyFile(j)
  BY <1>11 DEF CopyFile, NextFile, Goto, TypeOK, LoopInv, LaunchInv, WorkerSteps
<1>12. CASE ReadProgressAtEnd(j)
  <2>1. program_progress.progress \in Int BY DEF TypeOK, Progress
  <2> QED
    BY <1>12, <2>1 DEF ReadProgressAtEnd, Goto, TypeOK, LoopInv, LaunchInv,
                       WorkerSteps
<1>13. CASE AnnounceEnd(j)
  <2>1. UpdateProgress("WRITE_END", seen[j], NoFile, FALSE)
    BY <1>13 DEF AnnounceEnd
  <2>2. /\ program_progress' \in Progress /\ progress_copy' \in Progress
        /\ progress_dirty' \in BOOLEAN
    <3>1. seen[j] \in Int BY DEF TypeOK
    <3> QED BY <2>1, <3>1, UpdateType DEF ProgressStates
  <2> QED
    BY <1>13, <2>2 DEF AnnounceEnd, Goto, TypeOK, LoopInv, LaunchInv, WorkerSteps
<1>14. CASE WriteTrailer(j)
  BY <1>14 DEF WriteTrailer, Goto, TypeOK, LoopInv, LaunchInv, WorkerSteps
<1>15. CASE Finish(j)
  <2>1. UpdateProgress("FINISHED", 10 * Scale, NoFile, TRUE) BY <1>15 DEF Finish
  <2>2. /\ program_progress' \in Progress /\ progress_copy' \in Progress
        /\ progress_dirty' \in BOOLEAN
    BY <2>1, ConstantTypes, UpdateType, Zenon DEF ProgressStates
  <2> QED
    BY <1>15, <2>2 DEF Finish, Goto, TypeOK, LoopInv, LaunchInv, WorkerSteps
<1>16. CASE CopyStalls(j)
  BY <1>16 DEF CopyStalls, Goto, TypeOK, LoopInv, LaunchInv, WorkerSteps
<1> QED
  BY <1>1, <1>2, <1>3, <1>4, <1>5, <1>6, <1>7, <1>8, <1>9, <1>10, <1>11, <1>12,
     <1>13, <1>14, <1>15, <1>16 DEF Work

(* every step of client and workers keeps it,                              *)
LEMMA StructStep == StructInv /\ [Next]_vars => StructInv'
<1> SUFFICES ASSUME StructInv, [Next]_vars PROVE StructInv' OBVIOUS
<1>1. CASE Client BY <1>1, ClientStruct
<1>2. ASSUME NEW j \in Jobs, Work(j) PROVE StructInv' BY <1>2, WorkStruct
<1>3. ASSUME NEW j \in Jobs, Terminate(j) PROVE StructInv'
  BY <1>3 DEF Terminate, StructInv, TypeOK, LoopInv, LaunchInv, shared, buffers,
              clientVars, workerVars
<1>4. CASE UNCHANGED vars
  BY <1>4 DEF vars, StructInv, TypeOK, LoopInv, LaunchInv, shared, buffers,
              clientVars, workerVars
<1> QED BY <1>1, <1>2, <1>3, <1>4 DEF Next

(* and so it holds always.                                                 *)
THEOREM Structure == Spec => []StructInv
<1> QED BY InitStruct, StructStep, PTL DEF Spec

(* The globals, the client and the workers of API.cpp always hold values of*)
(* their types, and a worker never announces more files than it found.     *)
THEOREM TypeCorrect == Spec => []TypeOK
<1>1. StructInv => TypeOK BY DEF StructInv
<1> QED BY <1>1, Structure, PTL

-----------------------------------------------------------------------------
(* What a step of a worker may do to the rest of the system: it advances   *)
(* itself only, and either leaves the shared progress alone without ending,*)
(* or reports, and reports `finished` exactly when it ends.                *)
WorkEffect(j) ==
  /\ pc[j] \notin {"none", "done"}
  /\ pc'[j] # "none"
  /\ \A k \in Jobs : k # j => pc'[k] = pc[k]
  /\ UNCHANGED <<buffers, clientVars, progress_copy>>
  /\ \/ pc'[j] # "done" /\ UNCHANGED shared
     \/ progress_dirty' /\ (program_progress'.finished <=> pc'[j] = "done")

(* What moving a worker on changes.                                        *)
LEMMA GotoEffect ==
  ASSUME TypeOK, NEW j \in Jobs, NEW from, NEW to, Goto(j, from, to)
  PROVE  /\ pc[j] = from
         /\ pc'[j] = to
         /\ \A k \in Jobs : k # j => pc'[k] = pc[k]
BY DEF TypeOK, Goto

(* A step that reports, and goes from one place to another.                *)
LEMMA ReportEffect ==
  ASSUME TypeOK, NEW j \in Jobs, NEW from, NEW to, Goto(j, from, to),
         from \notin {"none", "done"}, to # "none",
         NEW state, NEW progress, NEW file, NEW finished \in BOOLEAN,
         UpdateProgress(state, progress, file, finished),
         finished <=> to = "done",
         UNCHANGED <<buffers, clientVars>>
  PROVE  WorkEffect(j)
<1>1. /\ pc[j] = from
      /\ pc'[j] = to
      /\ \A k \in Jobs : k # j => pc'[k] = pc[k]
  BY GotoEffect
<1>2. progress_dirty' BY DEF UpdateProgress
<1>3. program_progress'.finished = finished BY DEF UpdateProgress, Updated
<1>4. progress_copy' = progress_copy BY DEF UpdateProgress
<1>5. pc[j] \notin {"none", "done"} /\ pc'[j] # "none" BY <1>1
<1>6. program_progress'.finished <=> pc'[j] = "done"
  <2>1. pc'[j] = "done" <=> to = "done" BY <1>1
  <2>2. program_progress'.finished <=> finished BY <1>3
  <2> QED BY <2>1, <2>2
<1> QED BY <1>1, <1>2, <1>4, <1>5, <1>6, Zenon DEF WorkEffect

(* What a step of a worker does to the shared state.                       *)
LEMMA WorkEffects ==
  ASSUME NEW j \in Jobs, TypeOK, Work(j)
  PROVE  WorkEffect(j)
<1> USE DEF WorkEffect, shared, buffers, clientVars
<1>1. CASE ReadGamePath(j) BY <1>1, GotoEffect DEF ReadGamePath
<1>2. CASE EnumFiles(j)
  <2>1. Goto(j, "enum", "list") BY <1>2 DEF EnumFiles
  <2>2. UpdateProgress("ENUM_FILES", 0, NoFile, FALSE) BY <1>2 DEF EnumFiles
  <2>3. UNCHANGED <<buffers, clientVars>> BY <1>2 DEF EnumFiles
  <2>4. /\ "enum" \notin {"none", "done"} /\ "list" # "none"
        /\ FALSE <=> "list" = "done"
    OBVIOUS
  <2> QED BY <2>1, <2>2, <2>3, <2>4, ReportEffect, Zenon
<1>3. CASE ListFails(j) BY <1>3, GotoEffect DEF ListFails
<1>4. CASE ListFiles(j) BY <1>4, GotoEffect DEF ListFiles
<1>5. CASE Fail(j)
  <2>1. Goto(j, "failed", "done") BY <1>5 DEF Fail
  <2>2. UpdateProgress("FAILED", 10 * Scale, NoFile, TRUE) BY <1>5 DEF Fail
  <2>3. UNCHANGED <<buffers, clientVars>> BY <1>5 DEF Fail
  <2>4. /\ "failed" \notin {"none", "done"} /\ "done" # "none"
        /\ TRUE <=> "done" = "done"
    OBVIOUS
  <2> QED BY <2>1, <2>2, <2>3, <2>4, ReportEffect, Zenon
<1>6. CASE WriteSectors(j)
  <2>1. Goto(j, "sectors", "open") BY <1>6 DEF WriteSectors
  <2>2. UpdateProgress("WRITE_SECTORS", Scale, NoFile, FALSE)
    BY <1>6 DEF WriteSectors
  <2>3. UNCHANGED <<buffers, clientVars>> BY <1>6 DEF WriteSectors
  <2>4. /\ "sectors" \notin {"none", "done"} /\ "open" # "none"
        /\ FALSE <=> "open" = "done"
    OBVIOUS
  <2> QED BY <2>1, <2>2, <2>3, <2>4, ReportEffect, Zenon
<1>7. CASE OpenImage(j) BY <1>7, GotoEffect DEF OpenImage
<1>8. CASE WriteHeader(j) BY <1>8, GotoEffect DEF WriteHeader, NextFile
<1>9. CASE ReadProgress(j) BY <1>9, GotoEffect DEF ReadProgress
<1>10. CASE AnnounceFile(j)
  <2>1. Goto(j, "announce", "copy") BY <1>10 DEF AnnounceFile
  <2>2. UpdateProgress("WRITE_FILES", seen[j] + Increment(j),
                       <<j, next[j] + 1>>, FALSE)
    BY <1>10 DEF AnnounceFile
  <2>3. UNCHANGED <<buffers, clientVars>> BY <1>10 DEF AnnounceFile
  <2>4. /\ "announce" \notin {"none", "done"} /\ "copy" # "none"
        /\ FALSE <=> "copy" = "done"
    OBVIOUS
  <2> QED BY <2>1, <2>2, <2>3, <2>4, ReportEffect, Zenon
<1>11. CASE CopyFile(j) BY <1>11, GotoEffect DEF CopyFile, NextFile
<1>12. CASE ReadProgressAtEnd(j) BY <1>12, GotoEffect DEF ReadProgressAtEnd
<1>13. CASE AnnounceEnd(j)
  <2>1. Goto(j, "end", "trailer") BY <1>13 DEF AnnounceEnd
  <2>2. UpdateProgress("WRITE_END", seen[j], NoFile, FALSE)
    BY <1>13 DEF AnnounceEnd
  <2>3. UNCHANGED <<buffers, clientVars>> BY <1>13 DEF AnnounceEnd
  <2>4. /\ "end" \notin {"none", "done"} /\ "trailer" # "none"
        /\ FALSE <=> "trailer" = "done"
    OBVIOUS
  <2> QED BY <2>1, <2>2, <2>3, <2>4, ReportEffect, Zenon
<1>14. CASE WriteTrailer(j) BY <1>14, GotoEffect DEF WriteTrailer
<1>15. CASE Finish(j)
  <2>1. Goto(j, "finish", "done") BY <1>15 DEF Finish
  <2>2. UpdateProgress("FINISHED", 10 * Scale, NoFile, TRUE) BY <1>15 DEF Finish
  <2>3. UNCHANGED <<buffers, clientVars>> BY <1>15 DEF Finish
  <2>4. /\ "finish" \notin {"none", "done"} /\ "done" # "none"
        /\ TRUE <=> "done" = "done"
    OBVIOUS
  <2> QED BY <2>1, <2>2, <2>3, <2>4, ReportEffect, Zenon
<1>16. CASE CopyStalls(j) BY <1>16, GotoEffect DEF CopyStalls
<1> QED
  BY <1>1, <1>2, <1>3, <1>4, <1>5, <1>6, <1>7, <1>8, <1>9, <1>10, <1>11, <1>12,
     <1>13, <1>14, <1>15, <1>16 DEF Work

-----------------------------------------------------------------------------
(* Every step keeps polls fresh.                                           *)
LEMMA PollFreshStep == StructInv /\ PollFresh /\ [Next]_vars => PollFresh'
<1> SUFFICES ASSUME StructInv, PollFresh, [Next]_vars PROVE PollFresh' OBVIOUS
<1>1. CASE PollProgress
  BY <1>1 DEF PollProgress, PollFresh
<1>2. CASE ReadProgressCopy
  BY <1>2 DEF ReadProgressCopy, PollFresh, StructInv, TypeOK, Progress
<1>3. CASE StartPacking \/ CallStartPacking \/ SetFileBuffer
  BY <1>3 DEF StartPacking, CallStartPacking, CopyGamePath, CopyDestPath,
              LaunchThread, SetFileBuffer, PollFresh, shared
<1>4. ASSUME NEW j \in Jobs, Work(j) PROVE PollFresh'
  BY <1>4, WorkEffects DEF StructInv, WorkEffect, PollFresh, shared
<1>5. ASSUME NEW j \in Jobs, Terminate(j) PROVE PollFresh'
  BY <1>5 DEF Terminate, PollFresh, shared
<1>6. CASE UNCHANGED vars
  BY <1>6 DEF vars, shared, PollFresh
<1> QED BY <1>1, <1>2, <1>3, <1>4, <1>5, <1>6 DEF Next, Client

(* poll_progress never misses a report: with progress_dirty clear, what the*)
(* client reads is what the workers last reported.                         *)
THEOREM PollsAreFresh == Spec => []PollFresh
<1>1. Init => PollFresh BY DEF Init, PollFresh
<1> QED BY <1>1, Structure, PollFreshStep, PTL DEF Spec

(* Every step keeps `finished` justified.                                  *)
LEMMA FinishedStep ==
  StructInv /\ FinishedJustified /\ [Next]_vars => FinishedJustified'
<1> SUFFICES ASSUME StructInv, FinishedJustified, [Next]_vars
             PROVE  FinishedJustified'
  OBVIOUS
<1> USE DEF FinishedJustified, Launched, Ended
<1>1. CASE PollProgress
  BY <1>1 DEF PollProgress
<1>2. CASE ReadProgressCopy
  BY <1>2 DEF ReadProgressCopy, StructInv, TypeOK, Progress
<1>3. CASE StartPacking \/ CopyGamePath \/ CopyDestPath \/ SetFileBuffer
  BY <1>3 DEF StartPacking, CopyGamePath, CopyDestPath, SetFileBuffer, shared,
              clientVars
<1>4. CASE LaunchThread
  <2>1. /\ pack_thread' = pack_thread + 1 /\ pack_thread \in 0 .. MaxJobs
        /\ UNCHANGED <<program_progress, progress_copy>>
        /\ pc' = [pc EXCEPT ![pack_thread + 1] = "start"]
        /\ DOMAIN pc = Jobs /\ pack_thread < MaxJobs
    BY <1>4 DEF LaunchThread, StructInv, TypeOK, shared
  <2>2. \A k \in 1 .. pack_thread : k \in 1 .. pack_thread' /\ pc'[k] = pc[k]
    BY <2>1, SessionAssumption DEF Jobs
  <2> SUFFICES ASSUME program_progress'.finished \/ progress_copy'.finished
               PROVE  \E k \in 1 .. pack_thread' : pc'[k] = "done"
    OBVIOUS
  <2>3. PICK k \in 1 .. pack_thread : pc[k] = "done"
    BY <2>1
  <2> QED  BY <2>2, <2>3
<1>5. ASSUME NEW j \in Jobs, Work(j) PROVE FinishedJustified'
  <2>1. WorkEffect(j) BY <1>5, WorkEffects DEF StructInv
  <2>2. pack_thread' = pack_thread BY <2>1 DEF WorkEffect, clientVars
  <2>3. j \in 1 .. pack_thread
    BY <2>1 DEF WorkEffect, StructInv, LaunchInv, TypeOK, Jobs
  <2>4. ASSUME NEW k \in 1 .. pack_thread, pc[k] = "done" PROVE pc'[k] = "done"
    <3>1. k \in Jobs
      BY SessionAssumption DEF StructInv, TypeOK, Jobs
    <3>2. k # j
      BY <2>1, <2>4 DEF WorkEffect
    <3> QED  BY <2>1, <2>4, <3>1, <3>2 DEF WorkEffect
  <2>5. CASE pc'[j] = "done" BY <2>2, <2>3, <2>5
  <2>6. CASE pc'[j] # "done"
    BY <2>1, <2>2, <2>4, <2>6 DEF WorkEffect, shared
  <2> QED BY <2>5, <2>6
<1>6. ASSUME NEW j \in Jobs, Terminate(j) PROVE FinishedJustified'
  BY <1>6 DEF Terminate, shared, clientVars
<1>7. CASE UNCHANGED vars
  BY <1>7 DEF vars, shared, clientVars
<1> QED
  BY <1>1, <1>2, <1>3, <1>4, <1>5, <1>6, <1>7 DEF Next, Client, CallStartPacking

(* `finished` is never reported, nor seen by the client, before some pack  *)
(* has closed its image (or failed).                                       *)
THEOREM FinishedIsJustified == Spec => []FinishedJustified
<1>1. Init => FinishedJustified BY DEF Init, FinishedJustified, ZeroProgress
<1> QED BY <1>1, Structure, FinishedStep, PTL DEF Spec

(* Every step keeps the completion of packs reported.                      *)
LEMMA CompletionStep ==
  StructInv /\ CompletionReported /\ [Next]_vars => CompletionReported'
<1> SUFFICES ASSUME StructInv, CompletionReported, [Next]_vars
             PROVE  CompletionReported'
  OBVIOUS
<1> USE DEF CompletionReported, Launched, Ended
<1>1. CASE PollProgress \/ ReadProgressCopy
  BY <1>1 DEF PollProgress, ReadProgressCopy
<1>2. CASE StartPacking \/ CopyGamePath \/ CopyDestPath \/ SetFileBuffer
  BY <1>2 DEF StartPacking, CopyGamePath, CopyDestPath, SetFileBuffer, shared,
              clientVars
<1>3. CASE LaunchThread
  <2>1. pack_thread + 1 \in Jobs /\ pack_thread' = pack_thread + 1
    BY <1>3, SessionAssumption DEF LaunchThread, StructInv, TypeOK, Jobs
  <2>2. pc'[pack_thread'] = "start"
    BY <1>3, <2>1 DEF LaunchThread, StructInv, TypeOK
  <2> QED BY <2>1, <2>2 DEF Jobs
<1>4. ASSUME NEW j \in Jobs, Work(j) PROVE CompletionReported'
  <2>1. WorkEffect(j) BY <1>4, WorkEffects DEF StructInv
  <2>2. pack_thread' = pack_thread BY <2>1 DEF WorkEffect, clientVars
  <2>3. j \in 1 .. pack_thread
    BY <2>1 DEF WorkEffect, StructInv, LaunchInv, TypeOK, Jobs
  <2>4. CASE pc'[j] = "done" BY <2>1, <2>4 DEF WorkEffect
  <2>5. CASE pc'[j] # "done" BY <2>2, <2>3, <2>5
  <2> QED BY <2>4, <2>5
<1>5. ASSUME NEW j \in Jobs, Terminate(j) PROVE CompletionReported'
  BY <1>5 DEF Terminate, shared, clientVars
<1>6. CASE UNCHANGED vars
  BY <1>6 DEF vars, shared, clientVars
<1> QED
  BY <1>1, <1>2, <1>3, <1>4, <1>5, <1>6 DEF Next, Client, CallStartPacking

(* Once every pack has ended the shared progress says so, whatever the     *)
(* order in which overlapping packs set and cleared `finished`.            *)
THEOREM CompletionIsReported == Spec => []CompletionReported
<1>1. Init => CompletionReported BY DEF Init, CompletionReported
<1> QED BY <1>1, Structure, CompletionStep, PTL DEF Spec

-----------------------------------------------------------------------------
(* Places of a worker that has not opened an image.                        *)
Unopened ==
  {"none", "start", "enum", "list", "failed", "sectors", "open"}

(* The global destination buffer is never behind the last worker launched; *)
(* a worker's image is what it found there, and none before it opens one.  *)
DestInv ==
  /\ pack_thread > 0 => dest_path = Torn \/ dest_path >= pack_thread
  /\ client = "launch" => dest_path = pack_thread + 1

ImageInv ==
  \A j \in Jobs :
    \/ pc[j] \in Unopened \cup {"done"} /\ image[j] = NoPath
    \/ pc[j] \notin Unopened /\ (image[j] = Torn \/ image[j] >= j)

(* Every step keeps earlier destinations out of the path buffer.           *)
LEMMA DestStep ==
  StructInv /\ DestInv /\ [Next]_vars => DestInv'
<1> SUFFICES ASSUME StructInv, DestInv, [Next]_vars PROVE DestInv' OBVIOUS
<1> USE SessionAssumption DEF DestInv, StructInv, TypeOK
<1>1. CASE StartPacking BY <1>1 DEF StartPacking
<1>2. CASE CopyGamePath BY <1>2 DEF CopyGamePath
<1>3. CASE CopyDestPath BY <1>3 DEF CopyDestPath
<1>4. CASE LaunchThread BY <1>4 DEF LaunchThread, buffers
<1>5. CASE PollProgress \/ ReadProgressCopy \/ SetFileBuffer
  BY <1>5 DEF PollProgress, ReadProgressCopy, SetFileBuffer, buffers, clientVars
<1>6. ASSUME NEW j \in Jobs, Work(j) PROVE DestInv'
  BY <1>6, WorkEffects DEF WorkEffect, buffers, clientVars
<1>7. ASSUME NEW j \in Jobs, Terminate(j) PROVE DestInv'
  BY <1>7 DEF Terminate, buffers, clientVars
<1>8. CASE UNCHANGED vars BY <1>8 DEF vars, buffers, clientVars
<1> QED
  BY <1>1, <1>2, <1>3, <1>4, <1>5, <1>6, <1>7, <1>8
  DEF Next, Client, CallStartPacking

(* Every step keeps packs off the images of earlier calls.                 *)
LEMMA ImageStep ==
  StructInv /\ DestInv /\ ImageInv /\ [Next]_vars => ImageInv'
<1> SUFFICES ASSUME StructInv, DestInv, ImageInv, [Next]_vars PROVE ImageInv'
  OBVIOUS
<1> USE DEF ImageInv, Unopened, workerVars
<1>1. CASE Client
  <2>1. image' = image
    BY <1>1 DEF Client, CallStartPacking, StartPacking, CopyGamePath,
                CopyDestPath, LaunchThread, SetFileBuffer, PollProgress,
                ReadProgressCopy
  <2>2. CASE LaunchThread
    <3>1. pack_thread + 1 \in Jobs /\ pc[pack_thread + 1] = "none"
      BY <2>2, SessionAssumption
      DEF LaunchThread, StructInv, TypeOK, LaunchInv, Jobs
    <3> QED BY <2>1, <2>2, <3>1 DEF LaunchThread, StructInv, TypeOK
  <2>3. CASE ~LaunchThread
    <3>1. pc' = pc
      BY <1>1, <2>3 DEF Client, CallStartPacking, StartPacking, CopyGamePath,
                        CopyDestPath, SetFileBuffer, PollProgress,
                        ReadProgressCopy
    <3> QED BY <2>1, <3>1
  <2> QED BY <2>2, <2>3
<1>2. ASSUME NEW j \in Jobs, Work(j) PROVE ImageInv'
  <2> USE <1>2, GotoEffect DEF StructInv
  <2>1. CASE OpenImage(j)
    <3>1. Goto(j, "open", "header") /\ image' = [image EXCEPT ![j] = dest_path]
      BY <2>1 DEF OpenImage
    <3>2. pc[j] = "open" /\ pc'[j] = "header" BY <3>1
    <3>3. j <= pack_thread /\ pack_thread > 0
      <4>1. ~(j > pack_thread) BY <3>2 DEF LaunchInv
      <4>2. j \in Int /\ j >= 1 /\ pack_thread \in Int
        BY SessionAssumption DEF TypeOK, Jobs
      <4> QED BY <4>1, <4>2
    <3>4. dest_path = Torn \/ dest_path >= j
      BY <3>3, SessionAssumption DEF DestInv, TypeOK, Jobs, Paths, NoPath, Torn
    <3>5. image'[j] = dest_path /\ \A k \in Jobs : k # j => image'[k] = image[k]
      BY <3>1 DEF TypeOK
    <3> QED BY <3>1, <3>2, <3>4, <3>5
  <2>2. CASE ~OpenImage(j)
    <3>1. /\ image' = image
          /\ pc[j] # "open"
          /\ \/ pc[j] \in Unopened /\ pc'[j] \in Unopened
             \/ pc[j] = "failed" /\ pc'[j] = "done"
             \/ pc[j] \notin Unopened /\ pc'[j] \notin Unopened
                  /\ pc[j] # "done"
      <4>1. CASE ReadGamePath(j) \/ ListFails(j) \/ ListFiles(j)
        BY <4>1 DEF ReadGamePath, ListFails, ListFiles
      <4>2. CASE EnumFiles(j) \/ Fail(j) \/ WriteSectors(j)
        BY <4>2 DEF EnumFiles, Fail, WriteSectors
      <4>3. CASE WriteHeader(j) \/ CopyFile(j) \/ CopyStalls(j)
        BY <4>3 DEF WriteHeader, CopyFile, CopyStalls, NextFile
      <4>4. CASE ReadProgress(j) BY <4>4 DEF ReadProgress
      <4>5. CASE AnnounceFile(j) BY <4>5 DEF AnnounceFile
      <4>6. CASE ReadProgressAtEnd(j) BY <4>6 DEF ReadProgressAtEnd
      <4>7. CASE AnnounceEnd(j) BY <4>7 DEF AnnounceEnd
      <4>8. CASE WriteTrailer(j) BY <4>8 DEF WriteTrailer
      <4>9. CASE Finish(j) BY <4>9 DEF Finish
      <4> QED
        BY <2>2, <4>1, <4>2, <4>3, <4>4, <4>5, <4>6, <4>7, <4>8, <4>9 DEF Work
    <3>2. \A k \in Jobs : k # j => pc'[k] = pc[k]
      BY WorkEffects DEF WorkEffect
    <3> QED BY <3>1, <3>2
  <2> QED BY <2>1, <2>2
<1>3. ASSUME NEW j \in Jobs, Terminate(j) PROVE ImageInv'
  BY <1>3 DEF Terminate
<1>4. CASE UNCHANGED vars BY <1>4 DEF vars
<1> QED BY <1>1, <1>2, <1>3, <1>4 DEF Next

(* However start_packing calls overlap the packs, none ever opens - and    *)
(* truncates - the image of a call made before its own.                    *)
THEOREM NoEarlierDestination == Spec => []NeverEarlierDestination
<1>1. Init => DestInv /\ ImageInv
  BY SessionAssumption DEF Init, DestInv, ImageInv, Unopened
<1>2. ImageInv => NeverEarlierDestination
  BY DEF ImageInv, Unopened, NeverEarlierDestination
<1> QED BY <1>1, <1>2, Structure, DestStep, ImageStep, PTL DEF Spec
=============================================================================
