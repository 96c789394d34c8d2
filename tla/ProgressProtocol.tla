-------------------------- MODULE ProgressProtocol --------------------------
(***************************************************************************)
(* What the Progress structure of API.h promises a client, without threads,*)
(* locks or paths: the state of the pack moves along ENUM_FILES,           *)
(* WRITE_SECTORS, WRITE_FILES, WRITE_END, FINISHED (or to FAILED from the  *)
(* enumeration), `finished` is set exactly with the two final states, and  *)
(* the client's view is at each moment a state the pack has reported.      *)
(***************************************************************************)
VARIABLES state, finished, viewState, viewFinished

vars == <<state, finished, viewState, viewFinished>>

Init ==
  /\ state = "ENUM_FILES"
  /\ finished = FALSE
  /\ viewState = state
  /\ viewFinished = finished

(* The states a report may carry after a report of state s.                *)
Successors(s) ==
  CASE s = "ENUM_FILES"    -> {"ENUM_FILES", "WRITE_SECTORS", "FAILED"}
    [] s = "WRITE_SECTORS" -> {"WRITE_FILES", "WRITE_END"}
    [] s = "WRITE_FILES"   -> {"WRITE_FILES", "WRITE_END"}
    [] s = "WRITE_END"     -> {"FINISHED"}
    [] s \in {"FINISHED", "FAILED"} -> {"ENUM_FILES"}

Report ==
  /\ state' \in Successors(state)
  /\ finished' = (state' \in {"FAILED", "FINISHED"})
  /\ UNCHANGED <<viewState, viewFinished>>

View ==
  /\ viewState' = state
  /\ viewFinished' = finished
  /\ UNCHANGED <<state, finished>>

Next == Report \/ View

Spec == Init /\ [][Next]_vars
=============================================================================
