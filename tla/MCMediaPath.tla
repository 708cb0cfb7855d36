---------------------------- MODULE MCMediaPath ----------------------------
(***************************************************************************)
(* MediaPath for TLC; MediaPath.cfg has a hardware codec with a software   *)
(* fallback.                                                               *)
(***************************************************************************)
EXTENDS MediaPath
=============================================================================
