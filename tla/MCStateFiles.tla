----------------------------- MODULE MCStateFiles -----------------------------
(***************************************************************************)
(* StateFiles for TLC.  StateFiles.cfg has data that never return to an    *)
(* earlier value, StateFilesSkip.cfg a state that does after two changes.  *)
(***************************************************************************)
EXTENDS StateFiles
=============================================================================
