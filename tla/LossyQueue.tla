------------------------------ MODULE LossyQueue ------------------------------
(***************************************************************************)
(* What a FramePump promises to its consumer: a bounded queue of frames    *)
(* that never blocks its producer.  Frames are numbered in the order they  *)
(* are offered.  When the queue is full the oldest frame is dropped, and   *)
(* only then; frames are taken in order; clearing forgets them all.        *)
(***************************************************************************)
EXTENDS Naturals, Sequences

CONSTANT Capacity   \* a positive number

VARIABLES
  buffer,    \* the frames waiting, oldest first
  offered,   \* the number of the latest frame offered
  taken      \* the number of the latest frame taken, 0 before the first

queueVars == <<buffer, offered, taken>>

QueueInit == buffer = <<>> /\ offered = 0 /\ taken = 0

Offer ==
  /\ offered' = offered + 1
  /\ buffer' = Append(IF Len(buffer) < Capacity THEN buffer ELSE Tail(buffer), offered')
  /\ UNCHANGED taken

Take ==
  /\ buffer # <<>> /\ taken' = Head(buffer) /\ buffer' = Tail(buffer)
  /\ UNCHANGED offered

Clear == buffer' = <<>> /\ UNCHANGED <<offered, taken>>

QueueNext == Offer \/ Take \/ Clear
QueueSpec == QueueInit /\ [][QueueNext]_queueVars
=============================================================================
