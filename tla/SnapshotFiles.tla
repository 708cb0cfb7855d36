---------------------------- MODULE SnapshotFiles ----------------------------
(***************************************************************************)
(* What the writer thread (src/app/supervisor.cpp) promises to whoever     *)
(* reads metrics.json and health.json: a file is there as a whole or not   *)
(* at all, it says what was true at some moment up to now, and it is only  *)
(* ever replaced by one that is as new or newer, whatever fails in between *)
(* and however often the program is started again.  Module StateFiles      *)
(* implements this.                                                        *)
(***************************************************************************)
EXTENDS Naturals

CONSTANT Files

VARIABLES
  now,      \* the data, by the number of their changes
  shown     \* the change that each file tells of, 0 as long as there is none

fileVars == <<now, shown>>

FilesInit == now = 1 /\ shown = [f \in Files |-> 0]

Change == now' = now + 1 /\ UNCHANGED shown

Publish(f) ==
  /\ \E s \in 1..now : s >= shown[f] /\ shown' = [shown EXCEPT ![f] = s]
  /\ UNCHANGED now

FilesNext == Change \/ \E f \in Files : Publish(f)

FilesSpec == FilesInit /\ [][FilesNext]_fileVars
=============================================================================
