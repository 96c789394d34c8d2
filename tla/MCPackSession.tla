--------------------------- MODULE MCPackSession ---------------------------
(***************************************************************************)
(* TLC instances of PackSession, and its refinement of ProgressProtocol.   *)
(***************************************************************************)
EXTENDS PackSession

Abstract == INSTANCE ProgressProtocol WITH
  state <- program_progress.state,
  finished <- program_progress.finished,
  viewState <- progress_copy.state,
  viewFinished <- progress_copy.finished

(* As long as packs do not overlap, workers, lock and polling implement the*)
(* abstract progress protocol: states come in the order of API.h's enum,   *)
(* `finished` comes with a final one, the client sees only reported pairs. *)
RefinesProgressProtocol == Abstract!Spec
=============================================================================
