---------------------------- MODULE FramePumpProofs ----------------------------
(***************************************************************************)
(* Proofs about FramePump, for every queue size and any number of frames:  *)
(* its safety properties, and that it implements LossyQueue.  All rest on  *)
(* PumpInv.                                                                *)
(***************************************************************************)
EXTENDS FramePump, TLAPS

USE FramePumpAssumption DEF FramePumpAssumption

(* The parts of TypeOK.  Zenon handles Boolean-valued variables, SMT the numbers. *)
TypeSwitches == running \in BOOLEAN /\ restart \in BOOLEAN /\ locked \in BOOLEAN
TypeData ==
  /\ queue \in Seq(1..FrameBound) /\ Len(queue) <= MaxQueueSize
  /\ offered \in 0..FrameBound /\ taken \in 0..FrameBound
TypePhases ==
  /\ capture \in {"none", "top", "receive", "push", "done"}
  /\ owner \in {"idle", "stop", "notify", "join", "drain", "launch"}
  /\ consumer \in {"idle", "check", "block", "blocked", "woken", "timed_out"}

LEMMA Parts == TypeOK <=> TypeSwitches /\ TypeData /\ TypePhases
BY Zenon DEF TypeOK, TypeSwitches, TypeData, TypePhases

LEMMA PumpInit == Init => PumpInv
<1> SUFFICES ASSUME Init PROVE PumpInv
  OBVIOUS
<1>1. TypeSwitches
  BY Zenon DEF Init, TypeSwitches
<1>3. TypeData /\ TypePhases
  BY DEF Init, TypeData, TypePhases
<1>2. OwnerInv /\ OrderInv /\ NewestInOrder /\ StoppedIsEmpty
  BY DEF Init, OwnerInv, OrderInv, NewestInOrder, StoppedIsEmpty
<1> QED BY <1>1, <1>2, <1>3, Parts DEF PumpInv

-----------------------------------------------------------------------------
(* The three operations on the queue *)

(* Dropping the oldest frame of a full queue makes room and disturbs no other. *)
LEMMA KeptIsRecent ==
  ASSUME PumpInv
  PROVE  /\ Kept \in Seq(1..FrameBound) /\ Len(Kept) < MaxQueueSize
         /\ \A i \in 1..Len(Kept) : Kept[i] = offered - Len(Kept) + i
         /\ Kept # <<>> => taken < Kept[1]
<1>1. /\ queue \in Seq(1..FrameBound) /\ Len(queue) \in 0..MaxQueueSize
      /\ offered \in 0..FrameBound /\ taken \in 0..FrameBound
      /\ \A i \in 1..Len(queue) : queue[i] = offered - Len(queue) + i
      /\ queue # <<>> => taken < queue[1]
  BY Parts DEF PumpInv, TypeData, NewestInOrder
<1>2. CASE Len(queue) < MaxQueueSize
  <2>1. Kept = queue
    BY <1>1, <1>2 DEF Kept
  <2> QED BY <1>1, <1>2, <2>1
<1>3. CASE Len(queue) >= MaxQueueSize
  <2>1. queue # <<>> /\ Kept = Tail(queue)
    BY <1>1, <1>3 DEF Kept
  <2>2. /\ Tail(queue) \in Seq(1..FrameBound) /\ Len(Tail(queue)) = Len(queue) - 1
        /\ \A i \in 1..Len(Tail(queue)) : Tail(queue)[i] = queue[i + 1]
    BY <1>1, <2>1
  <2>3. \A i \in 1..Len(Kept) : Kept[i] = offered - Len(Kept) + i
    BY <1>1, <2>1, <2>2
  <2>4. Kept # <<>> => taken < Kept[1]
    <3> SUFFICES ASSUME Kept # <<>> PROVE taken < Kept[1]
      OBVIOUS
    <3>1. Len(Kept) >= 1
      BY <2>1, <2>2
    <3>2. Kept[1] = offered - Len(queue) + 2 /\ queue[1] = offered - Len(queue) + 1
      BY <1>1, <2>1, <2>2, <2>3, <3>1
    <3> QED BY <1>1, <2>1, <3>2
  <2> QED BY <1>1, <2>1, <2>2, <2>3, <2>4
<1> QED BY <1>1, <1>2, <1>3

(* A frame is pushed into the room that has been made. *)
LEMMA PushPreserves ==
  ASSUME PumpInv, CapturePush
  PROVE  /\ queue' \in Seq(1..FrameBound) /\ Len(queue') <= MaxQueueSize
         /\ offered' \in 0..FrameBound
         /\ NewestInOrder'
<1>1. offered \in 0..FrameBound /\ offered < FrameBound /\ taken \in 0..FrameBound
      /\ taken <= offered /\ taken' = taken
  BY Parts DEF PumpInv, TypeData, OrderInv, CapturePush, captureView
<1>2. offered' = offered + 1 /\ queue' = Append(Kept, offered')
  BY DEF CapturePush
<1>3. queue' \in Seq(1..FrameBound) /\ Len(queue') = Len(Kept) + 1
  BY <1>1, <1>2, KeptIsRecent
<1>4. \A i \in 1..Len(queue') : queue'[i] = offered' - Len(queue') + i
  BY <1>1, <1>2, <1>3, KeptIsRecent
<1>5. taken' < Head(queue')
  BY <1>1, <1>2, <1>3, KeptIsRecent
<1> QED BY <1>1, <1>2, <1>3, <1>4, <1>5, KeptIsRecent DEF NewestInOrder

(* The oldest frame is popped, if there is one. *)
LEMMA PopPreserves ==
  ASSUME PumpInv, PopIfAny, offered' = offered
  PROVE  /\ queue' \in Seq(1..FrameBound) /\ Len(queue') <= MaxQueueSize
         /\ taken' \in 0..FrameBound /\ taken' <= offered'
         /\ NewestInOrder' /\ (queue = <<>> => queue' = <<>>)
<1>1. CASE queue = <<>>
  BY <1>1, Parts DEF PumpInv, TypeData, OrderInv, NewestInOrder, PopIfAny, NoPop
<1>2. CASE queue # <<>>
  <2>1. /\ queue \in Seq(1..FrameBound) /\ Len(queue) \in 1..MaxQueueSize
        /\ offered \in 0..FrameBound
        /\ \A i \in 1..Len(queue) : queue[i] = offered - Len(queue) + i
    BY <1>2, Parts DEF PumpInv, TypeData, NewestInOrder
  <2>2. /\ Tail(queue) \in Seq(1..FrameBound) /\ Len(Tail(queue)) = Len(queue) - 1
        /\ \A i \in 1..Len(Tail(queue)) : Tail(queue)[i] = queue[i + 1]
    BY <1>2, <2>1
  <2>3. queue' = Tail(queue) /\ taken' = queue[1]
    BY <1>2 DEF PopIfAny, Pop
  <2>4. taken' = offered - Len(queue) + 1 /\ taken' \in 0..FrameBound /\ taken' <= offered'
    BY <2>1, <2>3
  <2>5. \A i \in 1..Len(queue') : queue'[i] = offered' - Len(queue') + i
    BY <2>1, <2>2, <2>3
  <2>6. queue' # <<>> => taken' < Head(queue')
    BY <2>1, <2>2, <2>3, <2>4, <2>5
  <2> QED BY <1>2, <2>1, <2>2, <2>3, <2>4, <2>5, <2>6 DEF NewestInOrder
<1> QED BY <1>1, <1>2

-----------------------------------------------------------------------------
(* The steps, by what they do to the queue *)

Pushing  == CapturePush
Popping  == PopIfAny /\ offered' = offered /\ UNCHANGED <<capture, owner, running>>
Clearing == StopDrain
Leaving  == UNCHANGED <<queue, offered, taken>>

(* Every step offers a frame, takes one, clears the queue or leaves it alone. *)
LEMMA FourKinds == Next => Pushing \/ Popping \/ Clearing \/ Leaving
<1> SUFFICES ASSUME Next PROVE Pushing \/ Popping \/ Clearing \/ Leaving
  OBVIOUS
<1>1. CASE StartCall \/ StopCall \/ StopStore \/ StopNotify \/ StopJoin \/ Launch
  BY <1>1 DEF StartCall, StopCall, StopStore, StopNotify, StopJoin, Launch, ownerView, Leaving
<1>2. CASE CaptureTop \/ CaptureReceive
  BY <1>2 DEF CaptureTop, CaptureReceive, captureView, Leaving
<1>3. CASE WaitPop \/ WaitBlock \/ WaitTimeout \/ SpuriousWakeup
  BY <1>3 DEF WaitPop, WaitBlock, WaitTimeout, SpuriousWakeup, NoPop, popView, Leaving
<1>4. CASE TryPop \/ WaitGiveUp \/ WaitCheck
  BY <1>4 DEF TryPop, WaitGiveUp, WaitCheck, NoPop, popView, Leaving, Popping
<1>5. CASE CapturePush \/ StopDrain
  BY <1>5 DEF Pushing, Clearing
<1> QED BY <1>1, <1>2, <1>3, <1>4, <1>5
        DEF Next, OwnerStep, CaptureStep, WaitStep, CallStep

(* Only a reception that finds room among the frames of the source goes on to a push. *)
LEMMA OrderPreserved == ASSUME PumpInv, Next PROVE OrderInv'
<1>0. taken <= offered /\ offered \in 0..FrameBound /\ taken \in 0..FrameBound
  BY Parts DEF PumpInv, TypeData, OrderInv
<1>1. taken' <= offered'
  <2>1. CASE Pushing
    <3>1. taken' = taken /\ offered' = offered + 1
      BY <2>1 DEF Pushing, CapturePush, captureView
    <3> QED BY <1>0, <3>1
  <2>2. CASE Popping
    BY <2>2, PopPreserves DEF Popping
  <2>3. CASE Clearing \/ Leaving
    BY <1>0, <2>3 DEF Clearing, StopDrain, ownerView, Leaving
  <2> QED BY <2>1, <2>2, <2>3, FourKinds
<1>2. capture' = "push" => offered' < FrameBound
  <2>1. CASE CaptureReceive \/ CaptureTop \/ CapturePush
    BY <1>0, <2>1 DEF CaptureReceive, CaptureTop, CapturePush
  <2>2. CASE OwnerStep \/ WaitStep \/ CallStep
    <3>1. offered' = offered /\ (capture' = capture \/ capture' \in {"none", "top"})
      BY <2>2 DEF OwnerStep, WaitStep, CallStep, StopStore, StopNotify, StopJoin, StopDrain,
         Launch, WaitCheck, WaitBlock, WaitTimeout, SpuriousWakeup, WaitGiveUp, StartCall,
         StopCall, TryPop, WaitPop, ownerView, popView
    <3> QED BY <3>1 DEF PumpInv, OrderInv
  <2> QED BY <2>1, <2>2 DEF Next, CaptureStep
<1> QED BY <1>1, <1>2 DEF OrderInv

LEMMA QueuePreserved == ASSUME PumpInv, Next PROVE TypeData' /\ NewestInOrder'
<1>1. CASE Pushing
  BY <1>1, PushPreserves, Parts DEF Pushing, CapturePush, captureView, PumpInv, TypeData
<1>2. CASE Popping
  BY <1>2, PopPreserves, Parts DEF Popping, PumpInv, TypeData
<1>3. CASE Clearing
  BY <1>3, Parts DEF Clearing, StopDrain, ownerView, PumpInv, TypeData, NewestInOrder
<1>4. CASE Leaving
  BY <1>4, Parts DEF Leaving, PumpInv, TypeData, NewestInOrder
<1> QED BY <1>1, <1>2, <1>3, <1>4, FourKinds

-----------------------------------------------------------------------------
(* The steps of start(), stop() and the threads *)

LEMMA SwitchesPreserved == ASSUME PumpInv, Next PROVE TypeSwitches'
<1>0. TypeSwitches
  BY Parts DEF PumpInv
<1>1. CASE OwnerStep
  BY <1>0, <1>1, Zenon DEF OwnerStep, StopStore, StopNotify, StopJoin, StopDrain, Launch, ownerView,
     TypeSwitches
<1>2. CASE CaptureStep
  BY <1>0, <1>2, Zenon DEF CaptureStep, CaptureTop, CaptureReceive, CapturePush, captureView,
     TypeSwitches
<1>3. CASE WaitStep
  BY <1>0, <1>3, Zenon DEF WaitStep, WaitCheck, WaitBlock, WaitTimeout, SpuriousWakeup, WaitGiveUp,
     popView, TypeSwitches
<1>4. CASE CallStep
  BY <1>0, <1>4, Zenon DEF CallStep, StartCall, StopCall, TryPop, WaitPop, ownerView, popView,
     TypeSwitches
<1> QED BY <1>1, <1>2, <1>3, <1>4 DEF Next

LEMMA PhasesPreserved == ASSUME PumpInv, Next PROVE TypePhases'
<1>0. TypePhases
  BY Parts DEF PumpInv
<1>1. CASE OwnerStep
  BY <1>0, <1>1 DEF OwnerStep, StopStore, StopNotify, StopJoin, StopDrain, Launch, Notify,
     TypePhases
<1>2. CASE CaptureStep
  BY <1>0, <1>2 DEF CaptureStep, CaptureTop, CaptureReceive, CapturePush, captureView, Notify,
     TypePhases
<1>3. CASE WaitStep
  BY <1>0, <1>3 DEF WaitStep, WaitCheck, WaitBlock, WaitTimeout, SpuriousWakeup, WaitGiveUp,
     popView, TypePhases
<1>4. CASE CallStep
  BY <1>0, <1>4 DEF CallStep, StartCall, StopCall, TryPop, WaitPop, popView, TypePhases
<1> QED BY <1>1, <1>2, <1>3, <1>4 DEF Next

(* Nothing is captured between the join and the next launch, so what stop() has emptied
   stays empty. *)
LEMMA OwnerPreserved == ASSUME PumpInv, Next PROVE OwnerInv' /\ StoppedIsEmpty'
<1>0. OwnerInv /\ StoppedIsEmpty
  BY DEF PumpInv
<1>1. CASE OwnerStep
  BY <1>0, <1>1 DEF OwnerStep, StopStore, StopNotify, StopJoin, StopDrain, Launch, ownerView,
     OwnerInv, StoppedIsEmpty
<1>2. CASE CaptureStep
  BY <1>0, <1>2 DEF CaptureStep, CaptureTop, CaptureReceive, CapturePush, captureView, OwnerInv,
     StoppedIsEmpty
<1>3. CASE WaitStep \/ TryPop \/ WaitPop
  <2>1. UNCHANGED <<running, capture, owner>> /\ (queue = <<>> => queue' = <<>>)
    BY <1>3 DEF WaitStep, WaitCheck, WaitBlock, WaitTimeout, SpuriousWakeup, WaitGiveUp, TryPop,
       WaitPop, NoPop, PopIfAny, popView
  <2> QED BY <1>0, <2>1 DEF OwnerInv, StoppedIsEmpty
<1>4. CASE StartCall \/ StopCall
  BY <1>0, <1>4 DEF StartCall, StopCall, OwnerInv, StoppedIsEmpty
<1> QED BY <1>1, <1>2, <1>3, <1>4 DEF Next, CallStep

LEMMA PumpStep == PumpInv /\ [Next]_vars => PumpInv'
<1>1. ASSUME PumpInv, Next PROVE PumpInv'
  <2>1. TypeOK'
    BY <1>1, Parts, SwitchesPreserved, QueuePreserved, PhasesPreserved
       DEF TypeOK, TypeSwitches, TypeData, TypePhases
  <2> QED BY <1>1, <2>1, OrderPreserved, QueuePreserved, OwnerPreserved DEF PumpInv
<1>2. ASSUME PumpInv, UNCHANGED vars PROVE PumpInv'
  BY <1>2 DEF vars, PumpInv, TypeOK, OwnerInv, OrderInv, NewestInOrder, StoppedIsEmpty
<1> QED BY <1>1, <1>2

(* Owner, queue and numbering together: what follows rests on it (frame_pump.cpp). *)
THEOREM PumpInductive == Spec => []PumpInv
BY PumpInit, PumpStep, PTL DEF Spec

-----------------------------------------------------------------------------
(* Every variable keeps its type; in particular the queue never holds more than
   MAX_QUEUE_SIZE frames (frame_pump.cpp:68-70). *)
THEOREM PumpTypeCorrect == Spec => []TypeOK
<1>1. PumpInv => TypeOK
  BY DEF PumpInv
<1> QED BY <1>1, PumpInductive, PTL

(* The queue holds the newest frames, consecutive and in order, for any number of overflows
   and restarts (frame_pump.cpp:66-72). *)
THEOREM NewestKept == Spec => []NewestInOrder
<1>1. PumpInv => NewestInOrder
  BY DEF PumpInv
<1> QED BY <1>1, PumpInductive, PTL

(* A stopped pump has neither thread nor frames (frame_pump.cpp:19-27). *)
THEOREM StopLeavesNothing == Spec => []StoppedIsEmpty
<1>1. PumpInv => StoppedIsEmpty
  BY DEF PumpInv
<1> QED BY <1>1, PumpInductive, PTL

-----------------------------------------------------------------------------
(* FramePump implements LossyQueue: a push offers, a pop takes, the drain of stop() clears,
   and every other step stutters (frame_pump.cpp, frame_pump.hpp). *)
THEOREM PumpIsLossyQueue == Spec => ImplementsLossyQueue
<1>1. Init => Lossy!QueueInit
  BY DEF Init, Lossy!QueueInit
<1>2. PumpInv /\ [Next]_vars => [Lossy!QueueNext]_(Lossy!queueVars)
  <2> SUFFICES ASSUME PumpInv, [Next]_vars
               PROVE  Lossy!QueueNext \/ UNCHANGED Lossy!queueVars
    OBVIOUS
  <2>1. CASE Pushing
    <3>1. Len(queue) \in 0..MaxQueueSize /\ UNCHANGED taken
      BY <2>1, Parts DEF PumpInv, TypeData, Pushing, CapturePush, captureView
    <3>2. Kept = IF Len(queue) < MaxQueueSize THEN queue ELSE Tail(queue)
      BY <3>1 DEF Kept
    <3>3. Lossy!Offer
      BY <2>1, <3>1, <3>2 DEF Pushing, CapturePush, Lossy!Offer
    <3> QED BY <3>3 DEF Lossy!QueueNext
  <2>2. CASE Popping
    BY <2>2 DEF Popping, PopIfAny, Pop, NoPop, Lossy!QueueNext, Lossy!Take, Lossy!queueVars
  <2>3. CASE Clearing
    BY <2>3 DEF Clearing, StopDrain, ownerView, Lossy!QueueNext, Lossy!Clear
  <2>4. CASE Leaving \/ UNCHANGED vars
    BY <2>4 DEF Leaving, vars, Lossy!queueVars
  <2> QED BY <2>1, <2>2, <2>3, <2>4, FourKinds
<1> QED BY <1>1, <1>2, PumpInductive, PTL DEF Spec, ImplementsLossyQueue, Lossy!QueueSpec
=============================================================================
