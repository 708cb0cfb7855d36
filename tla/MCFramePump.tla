----------------------------- MODULE MCFramePump ------------------------------
(***************************************************************************)
(* FramePump for TLC; FramePump.cfg gives the constants.                   *)
(***************************************************************************)
EXTENDS FramePump
=============================================================================
