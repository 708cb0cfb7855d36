------------------------------ MODULE FramePump -------------------------------
(***************************************************************************)
(* FramePump (src/capture/frame_pump.cpp): the capture thread that polls   *)
(* the Spout receiver, the bounded queue it fills, the consumer that pops  *)
(* from it (the encode thread) and the owner that starts and stops it (the *)
(* main thread).                                                           *)
(*                                                                         *)
(* A step is what a thread does between two points where another one can   *)
(* interfere: an access to the atomic running_, or a critical section of   *)
(* mutex_.  wait_pop() is cut further: the predicate is evaluated with the *)
(* mutex held, then the thread blocks on cv_ and releases it; stop()       *)
(* stores running_ and notifies without the mutex, so it can fall between  *)
(* the two.  The Supervisor joins its consumer before it stops the pump;   *)
(* the class does not rely on that, and neither does this module.          *)
(*                                                                         *)
(* A frame is its number in the order of capture.                          *)
(***************************************************************************)
EXTENDS Naturals, Sequences

CONSTANTS
  MaxQueueSize,      \* MAX_QUEUE_SIZE
  FrameBound         \* the model's sender shows this many frames and then stands still

ASSUME FramePumpAssumption == MaxQueueSize \in Nat \ {0} /\ FrameBound \in Nat

VARIABLES
  running,           \* running_
  queue,             \* queue_
  offered,           \* frames queued so far
  taken,             \* the frame popped last
  capture,           \* the capture thread; "none": not joinable, "done": returned
  owner,             \* inside start() or stop(), or "idle"
  restart,           \* stop() was called by start()
  consumer,          \* inside wait_pop(), or "idle"
  locked             \* mutex_ is held by the consumer between two of its steps

vars == <<running, queue, offered, taken, capture, owner, restart, consumer, locked>>
captureView == <<running, taken, owner, restart, locked>>
ownerView   == <<offered, taken, locked>>
popView     == <<running, offered, capture, owner, restart>>

TypeOK ==
  /\ running \in BOOLEAN /\ restart \in BOOLEAN /\ locked \in BOOLEAN
  /\ queue \in Seq(1..FrameBound) /\ Len(queue) <= MaxQueueSize
  /\ offered \in 0..FrameBound /\ taken \in 0..FrameBound
  /\ capture \in {"none", "top", "receive", "push", "done"}
  /\ owner \in {"idle", "stop", "notify", "join", "drain", "launch"}
  /\ consumer \in {"idle", "check", "block", "blocked", "woken", "timed_out"}

Init ==
  /\ running = FALSE /\ queue = <<>> /\ offered = 0 /\ taken = 0
  /\ capture = "none" /\ owner = "idle" /\ restart = FALSE
  /\ consumer = "idle" /\ locked = FALSE

(* cv_.notify_one() and notify_all(): there is one consumer; a consumer that has not
   blocked yet is not notified *)
Notify == consumer' = IF consumer = "blocked" THEN "woken" ELSE consumer

-----------------------------------------------------------------------------
(* start() and stop() *)

(* start(): if the pump runs, stop() it first *)
StartCall ==
  /\ owner = "idle" /\ owner' = (IF running THEN "stop" ELSE "launch")
  /\ restart' = TRUE /\ UNCHANGED <<running, capture, queue, consumer, ownerView>>

(* stop(): returns at once if the pump does not run *)
StopCall ==
  /\ owner = "idle" /\ running /\ owner' = "stop" /\ restart' = FALSE
  /\ UNCHANGED <<running, capture, queue, consumer, ownerView>>

StopStore ==
  /\ owner = "stop" /\ running' = FALSE /\ owner' = "notify"
  /\ UNCHANGED <<restart, capture, queue, consumer, ownerView>>

StopNotify ==
  /\ owner = "notify" /\ Notify /\ owner' = "join"
  /\ UNCHANGED <<running, restart, capture, queue, ownerView>>

SlipJoinAnyway ==
  /\ owner = "join" /\ owner' = "drain"
  /\ UNCHANGED <<running, restart, capture, queue, consumer, ownerView>>
StopJoin ==
  /\ owner = "join" /\ capture = "done" /\ capture' = "none" /\ owner' = "drain"
  /\ UNCHANGED <<running, restart, queue, consumer, ownerView>>

StopDrain ==
  /\ owner = "drain" /\ ~locked /\ queue' = <<>>
  /\ owner' = (IF restart THEN "launch" ELSE "idle")
  /\ UNCHANGED <<running, restart, capture, consumer, ownerView>>

Launch ==
  /\ owner = "launch" /\ running' = TRUE /\ capture' = "top" /\ owner' = "idle"
  /\ UNCHANGED <<restart, queue, consumer, ownerView>>

-----------------------------------------------------------------------------
(* capture_thread_func() *)

SlipNeverReturns ==
  /\ capture = "top" /\ capture' = "receive"
  /\ UNCHANGED <<queue, offered, consumer, captureView>>
CaptureTop ==
  /\ capture = "top" /\ capture' = (IF running THEN "receive" ELSE "done")
  /\ UNCHANGED <<queue, offered, consumer, captureView>>

(* receive_latest_frame(): a new frame, or none (a static source or no answer) *)
CaptureReceive ==
  /\ capture = "receive"
  /\ capture' \in (IF offered < FrameBound THEN {"push", "top"} ELSE {"top"})
  /\ UNCHANGED <<queue, offered, consumer, captureView>>

(* what stays in the queue when a frame is added *)
SlipOneTooMany == IF Len(queue) > MaxQueueSize THEN Tail(queue) ELSE queue
SlipDropNewest ==
  IF Len(queue) >= MaxQueueSize THEN SubSeq(queue, 1, Len(queue) - 1) ELSE queue
SlipFlush == IF Len(queue) >= MaxQueueSize THEN <<>> ELSE queue
Kept == IF Len(queue) >= MaxQueueSize THEN Tail(queue) ELSE queue

CapturePush ==
  /\ capture = "push" /\ ~locked /\ offered' = offered + 1
  /\ queue' = Append(Kept, offered') /\ Notify /\ capture' = "top"
  /\ UNCHANGED captureView

-----------------------------------------------------------------------------
(* try_pop() and wait_pop() *)

Pop == taken' = Head(queue) /\ queue' = Tail(queue)
NoPop == UNCHANGED <<taken, queue>>
PopIfAny == IF queue = <<>> THEN NoPop ELSE Pop

TryPop ==
  consumer = "idle" /\ ~locked /\ PopIfAny /\ UNCHANGED <<consumer, locked, popView>>

(* wait_pop() takes the mutex, and takes it again when cv_ has woken it *)
WaitPop ==
  /\ consumer \in {"idle", "woken"} /\ ~locked /\ consumer' = "check" /\ locked' = TRUE
  /\ NoPop /\ UNCHANGED popView

(* the predicate of wait_for(): a frame, or not running *)
WaitCheck ==
  /\ consumer = "check"
  /\ IF queue # <<>> \/ ~running
       THEN consumer' = "idle" /\ locked' = FALSE /\ PopIfAny
       ELSE consumer' = "block" /\ UNCHANGED locked /\ NoPop
  /\ UNCHANGED popView

WaitBlock ==
  /\ consumer = "block" /\ consumer' = "blocked" /\ locked' = FALSE
  /\ NoPop /\ UNCHANGED popView

WaitTimeout ==
  /\ consumer = "blocked" /\ consumer' = "timed_out" /\ UNCHANGED locked
  /\ NoPop /\ UNCHANGED popView

SpuriousWakeup ==
  /\ consumer = "blocked" /\ consumer' = "woken" /\ UNCHANGED locked
  /\ NoPop /\ UNCHANGED popView

(* after the time-out the predicate decides, with the mutex held again *)
SlipBlockAgain ==
  /\ consumer = "timed_out" /\ ~locked /\ UNCHANGED locked
  /\ consumer' = (IF queue # <<>> \/ ~running THEN "idle" ELSE "blocked")
  /\ PopIfAny /\ UNCHANGED popView
WaitGiveUp ==
  /\ consumer = "timed_out" /\ ~locked /\ consumer' = "idle" /\ UNCHANGED locked
  /\ PopIfAny /\ UNCHANGED popView

-----------------------------------------------------------------------------
OwnerStep   == StopStore \/ StopNotify \/ StopJoin \/ StopDrain \/ Launch
CaptureStep == CaptureTop \/ CaptureReceive \/ CapturePush
Relock      == consumer = "woken" /\ WaitPop
WaitStep    == WaitCheck \/ WaitBlock \/ WaitTimeout \/ SpuriousWakeup \/ WaitGiveUp
CallStep    == StartCall \/ StopCall \/ TryPop \/ WaitPop

Next == OwnerStep \/ CaptureStep \/ WaitStep \/ CallStep

Spec == Init /\ [][Next]_vars

(* The threads run, and a thread that waits for mutex_ gets it in the end.  The deadline of
   wait_for() is absolute: once it has passed, blocking again after a spurious wakeup times
   out at once, hence the strong fairness.  Nothing is assumed of the callers, of the source
   or of spurious wakeups. *)
Fairness ==
  /\ WF_vars(OwnerStep) /\ SF_vars(StopDrain)
  /\ WF_vars(CaptureTop) /\ WF_vars(CaptureReceive) /\ SF_vars(CapturePush)
  /\ WF_vars(WaitCheck) /\ WF_vars(WaitBlock) /\ SF_vars(WaitTimeout)
  /\ WF_vars(Relock) /\ WF_vars(WaitGiveUp)

FairSpec == Spec /\ Fairness

-----------------------------------------------------------------------------
(* The frames waiting are consecutive, end with the latest one captured, and are all
   newer than the frame popped last: what is dropped is always the oldest, and a restart
   brings no frame back. *)
NewestInOrder ==
  /\ \A i \in 1..Len(queue) : queue[i] = offered - Len(queue) + i
  /\ queue # <<>> => taken < Head(queue)

(* After stop() has returned, and until start(), nothing is left: no capture thread and no
   frame, even one captured while stop() was at work. *)
StoppedIsEmpty == owner = "idle" /\ ~running => capture = "none" /\ queue = <<>>

(* The inductive invariant behind the theorems of FramePumpProofs *)

(* What each step of start() and stop() has left behind: running_ is cleared before the
   join, the thread is gone before the queue is emptied, and both before a new launch. *)
OwnerInv ==
  /\ owner = "stop" => running
  /\ owner \in {"notify", "join", "drain", "launch"} => ~running
  /\ owner \in {"drain", "launch"} => capture = "none"
  /\ owner = "launch" => queue = <<>>

(* The frames are numbered in the order they come. *)
OrderInv == taken <= offered /\ (capture = "push" => offered < FrameBound)

PumpInv == TypeOK /\ OwnerInv /\ OrderInv /\ NewestInOrder /\ StoppedIsEmpty

(* The class implements the queue it promises. *)
Lossy == INSTANCE LossyQueue
         WITH Capacity <- MaxQueueSize, buffer <- queue
ImplementsLossyQueue == Lossy!QueueSpec

(* stop() and start() return: the join waits for a thread that has seen running_. *)
StopReturns == owner # "idle" ~> owner = "idle"

(* wait_pop() returns, even when the notification of stop() falls between its predicate
   and its blocking. *)
WaitPopReturns == consumer # "idle" ~> consumer = "idle"
=============================================================================
