----------------------- MODULE SupervisorSessionProofs -----------------------
(***************************************************************************)
(* More proofs about Supervisor, for every value of its constants: what    *)
(* becomes of the session, the frame to show next and the resolutions when *)
(* streaming, placeholder and recovery hand them to one another.           *)
(*                                                                         *)
(* SInv adds six conjuncts to the IInv of SupervisorProofs.  They are      *)
(* about what the main thread and the encode thread own, so the two first  *)
(* lemmas dispose of the other steps, and each conjunct then has one case  *)
(* per group of actions of those two threads.                              *)
(***************************************************************************)
EXTENDS SupervisorProofs

USE DEF mainVars, encVars, flagVars, threadVars, frameVars, outVars, pumpVars, streamVars,
   retryVars, holdVars, waitVars, noteVars, envVars, worldVars, Goto, Leave, At, Handles

(* What the capture thread, the clocks, the metrics thread, the user and the world around
   the program leave alone. *)
OwnedVars ==
  <<mainVars, threadVars, frameVars, outVars, pump, seamless_handoff, placeholder>>
Others == CaptureStep \/ TimeStep \/ EnvStep \/ MetricsExit

LEMMA OthersLeave == ASSUME Others PROVE UNCHANGED OwnedVars
<1> USE DEF OwnedVars
<1>1. CASE CaptureStep
  BY <1>1 DEF CaptureStep, CaptureStatic, CaptureFrame, CaptureOnly
<1>2. CASE TimeStep
  BY <1>2 DEF TimeStep, SourceAges, CaptureOnly, StallAges, ClockOnly, WaitExpires,
     CooldownEnds, ProbeFallsDue
<1>3. CASE EnvStep
  BY <1>3 DEF EnvStep, RequestStop, AppOnly, SenderChanges, EnvOnly, DeviceLost
<1>4. CASE MetricsExit
  BY <1>4 DEF MetricsExit, AppOnly
<1> QED BY <1>1, <1>2, <1>3, <1>4 DEF Others

(* The encode thread moves no resolution and no handle but the state of its client; it
   runs only while it has been started and not joined. *)
LEMMA EncodeLeaves ==
  ASSUME IInv, EncodeStep
  PROVE  /\ UNCHANGED <<mainVars, encode_stop, current, last_source, encoder, pump,
                        seamless_handoff, placeholder, metrics_thread>>
         /\ Watching \/ pc = "final_join"
         /\ rtsp # "none" /\ rtsp' # "none"
<1>1. enc # "none"
  BY DEF EncodeStep, EncodeBegin, EncodeTop, EncodeNoFrame, EncodePop, EncodeSkip, EncodeDue,
     Encode, EncodeFails
<1>2. (Watching \/ pc = "final_join") /\ rtsp # "none"
  BY <1>1 DEF IInv, ThreadInv, ResourceInv
<1>3. rtsp' = rtsp \/ rtsp' \in {"connected", "broken"}
  BY DEF EncodeStep, EncodeBegin, EncodeTop, EncodeNoFrame, EncodePop, EncodeSkip, EncodeDue,
     Encode, EncodeFails, EncodeMoves
<1>4. EncodeThreadOnly
  BY DEF EncodeStep, EncodeBegin, EncodeTop, EncodeNoFrame, EncodePop, EncodeSkip, EncodeDue,
     Encode, EncodeFails, EncodeMoves
<1> QED BY <1>2, <1>3, <1>4 DEF EncodeThreadOnly

LEMMA Steps == Next = (RunStep \/ SearchStep \/ ConnectStep \/ WatchStep \/ JoinedStep
                         \/ RepairStep \/ EncodeStep \/ Others)
BY DEF Next, MainStep, Others

-----------------------------------------------------------------------------
(* The thread is started with encode_stop_ and the flags reset, and the check that stores
   encode_stop_ or clears a flag is on its way to the join. *)
LEMMA StreamPreserved == ASSUME SInv, Next PROVE StreamInv'
<1> USE Table, ToStopping DEF SInv, IInv, TypeOK, TypePhases, ControlInv, Watching, Joins, EncAlive, StreamInv
<1>1. CASE RunStep
  BY <1>1 DEF RunStep, LoopEnter, ControlOnly, LoopExit, HandleStopping, ReleaseStreaming,
     Joined, TeardownPump, TeardownOutput, JoinMetrics, HandleFatal, TeardownStreaming
<1>2. CASE SearchStep
  BY <1>2 DEF SearchStep, HandleIdle, ControlOnly, ProbingStop, ProbingFound,
     ProbingMissing, StopWithoutThread, TeardownStreaming, ReleaseStreaming, Joined,
     TeardownPump, TeardownOutput, PlaceholderContinue, PlaceholderStart, CanSeamlessHandoff,
     SessionUp, InitEncoderAndRtsp, PlaceholderStartFails, PlaceholderSourceFound,
     PlaceholderNoSource, PlaceholderSend, PlaceholderSendFails
<1>3. CASE ConnectStep
  BY <1>3 DEF ConnectStep, ConnectBegin, ControlOnly, ConnectStop, ConnectFirstFrame,
     ConnectNoFrame, ConnectSuccess, CanSeamlessHandoff, SessionUp, InitEncoderAndRtsp,
     StartPump, StartEncodeThread, ConnectFails
<1>4. CASE WatchStep
  BY <1>4 DEF WatchStep, WatchBegin, RequestEncodeStop, WatchDevice, Check,
     WatchEncodeFlag, WatchRtspFlag, WatchResolutionFlag, StreamingLiveness, StalledLiveness,
     StalledMissing, StalledProlonged
<1>5. CASE JoinedStep
  BY <1>5 DEF JoinedStep, JoinedTeardown, ReleaseStreaming, Joined, TeardownPump,
     TeardownOutput, JoinedDevice, JoinedReconnect, JoinedReconfigure, JoinedMissing,
     SessionUp, ProlongedRecovery
<1>6. CASE RepairStep
  BY <1>6 DEF RepairStep, RecoverDevice, TeardownStreaming, ReleaseStreaming, Joined,
     TeardownPump, TeardownOutput, Reconfigure, InitEncoderAndRtsp, StartPump,
     StartEncodeThread, ReconfigureFails, ReconnectBegin, Reconnect, ReconnectFails
<1>7. CASE EncodeStep
  <2>1. UNCHANGED <<state, pc, encode_stop>>
    BY <1>7, EncodeLeaves
  <2>2. enc' # "none"
    BY <1>7 DEF EncodeStep, EncodeBegin, EncodeTop, EncodeNoFrame, EncodePop, EncodeSkip,
       EncodeDue, Encode, EncodeFails
  <2>3. ~encode_stop => enc' \in EncAlive \/ (enc' = "done" /\ flags' # {})
    BY <1>7, ZenonT(90) DEF EncodeStep, EncodeBegin, EncodeTop, EncodeNoFrame, EncodePop,
       EncodeSkip, EncodeDue, Encode, EncodeFails
  <2> QED BY <2>1, <2>2, <2>3
<1>8. CASE Others
  BY <1>8, OthersLeave DEF OwnedVars
<1> QED BY <1>1, <1>2, <1>3, <1>4, <1>5, <1>6, <1>7, <1>8, Steps

-----------------------------------------------------------------------------
(* Every return of the encode thread saves the frame it shows, and every start of it
   takes the saved one. *)
LEMMA FreezePreserved == ASSUME SInv, Next PROVE FreezeInv'
<1> USE Table, ToStopping, SupervisorAssumption DEF SInv, IInv, TypeOK, TypePhases, ControlInv, Watching, Joins,
    EncAlive, TypeFrames, MaybeRes, ThreadInv, StreamInv, FreezeInv
<1>1. CASE RunStep
  BY <1>1 DEF RunStep, LoopEnter, ControlOnly, LoopExit, HandleStopping, ReleaseStreaming,
     Joined, TeardownPump, TeardownOutput, JoinMetrics, HandleFatal, TeardownStreaming
<1>2. CASE SearchStep
  BY <1>2 DEF SearchStep, HandleIdle, ControlOnly, ProbingStop, ProbingFound,
     ProbingMissing, StopWithoutThread, TeardownStreaming, ReleaseStreaming, Joined,
     TeardownPump, TeardownOutput, PlaceholderContinue, PlaceholderStart, CanSeamlessHandoff,
     SessionUp, InitEncoderAndRtsp, PlaceholderStartFails, PlaceholderSourceFound,
     PlaceholderNoSource, PlaceholderSend, PlaceholderSendFails
<1>3. CASE ConnectStep
  BY <1>3 DEF ConnectStep, ConnectBegin, ControlOnly, ConnectStop, ConnectFirstFrame,
     ConnectNoFrame, ConnectSuccess, CanSeamlessHandoff, SessionUp, InitEncoderAndRtsp,
     StartPump, StartEncodeThread, ConnectFails
<1>4. CASE WatchStep
  BY <1>4 DEF WatchStep, WatchBegin, RequestEncodeStop, WatchDevice, Check,
     WatchEncodeFlag, WatchRtspFlag, WatchResolutionFlag, StreamingLiveness, StalledLiveness,
     StalledMissing, StalledProlonged
<1>5. CASE JoinedStep
  BY <1>5 DEF JoinedStep, JoinedTeardown, ReleaseStreaming, Joined, TeardownPump,
     TeardownOutput, JoinedDevice, JoinedReconnect, JoinedReconfigure, JoinedMissing,
     SessionUp, ProlongedRecovery
<1>6. CASE RepairStep
  BY <1>6 DEF RepairStep, RecoverDevice, TeardownStreaming, ReleaseStreaming, Joined,
     TeardownPump, TeardownOutput, Reconfigure, InitEncoderAndRtsp, StartPump,
     StartEncodeThread, ReconfigureFails, ReconnectBegin, Reconnect, ReconnectFails
<1>7. CASE EncodeStep
  BY <1>7 DEF EncodeStep, EncodeBegin, EncodeThreadOnly, EncodeTop, EncodeNoFrame,
     EncodeMoves, EncodePop, EncodeSkip, EncodeDue, Encode, EncodeFails
<1>8. CASE Others
  BY <1>8, OthersLeave DEF OwnedVars
<1> QED BY <1>1, <1>2, <1>3, <1>4, <1>5, <1>6, <1>7, <1>8, Steps

-----------------------------------------------------------------------------
(* current_width_/height_ and last_source_width_/height_ follow the encoder, whether it is
   new or taken over. *)
LEMMA SizePreserved == ASSUME SInv, Next PROVE SizeInv'
<1> USE Table, ToStopping DEF SInv, IInv, TypeOK, TypePhases, ControlInv, Watching, Joins, HandoffInv, SizeInv
<1>1. CASE RunStep
  BY <1>1 DEF RunStep, LoopEnter, ControlOnly, LoopExit, HandleStopping, ReleaseStreaming,
     Joined, TeardownPump, TeardownOutput, JoinMetrics, HandleFatal, TeardownStreaming
<1>2. CASE SearchStep
  BY <1>2 DEF SearchStep, HandleIdle, ControlOnly, ProbingStop, ProbingFound,
     ProbingMissing, StopWithoutThread, TeardownStreaming, ReleaseStreaming, Joined,
     TeardownPump, TeardownOutput, PlaceholderContinue, PlaceholderStart, CanSeamlessHandoff,
     SessionUp, InitEncoderAndRtsp, PlaceholderStartFails, PlaceholderSourceFound,
     PlaceholderNoSource, PlaceholderSend, PlaceholderSendFails
<1>3. CASE ConnectStep
  BY <1>3 DEF ConnectStep, ConnectBegin, ControlOnly, ConnectStop, ConnectFirstFrame,
     ConnectNoFrame, ConnectSuccess, CanSeamlessHandoff, SessionUp, InitEncoderAndRtsp,
     StartPump, StartEncodeThread, ConnectFails
<1>4. CASE WatchStep
  BY <1>4 DEF WatchStep, WatchBegin, RequestEncodeStop, WatchDevice, Check,
     WatchEncodeFlag, WatchRtspFlag, WatchResolutionFlag, StreamingLiveness, StalledLiveness,
     StalledMissing, StalledProlonged
<1>5. CASE JoinedStep
  BY <1>5 DEF JoinedStep, JoinedTeardown, ReleaseStreaming, Joined, TeardownPump,
     TeardownOutput, JoinedDevice, JoinedReconnect, JoinedReconfigure, JoinedMissing,
     SessionUp, ProlongedRecovery
<1>6. CASE RepairStep
  BY <1>6 DEF RepairStep, RecoverDevice, TeardownStreaming, ReleaseStreaming, Joined,
     TeardownPump, TeardownOutput, Reconfigure, InitEncoderAndRtsp, StartPump,
     StartEncodeThread, ReconfigureFails, ReconnectBegin, Reconnect, ReconnectFails
<1>7. CASE EncodeStep
  BY <1>7, EncodeLeaves DEF SizeInv
<1>8. CASE Others
  BY <1>8, OthersLeave DEF OwnedVars
<1> QED BY <1>1, <1>2, <1>3, <1>4, <1>5, <1>6, <1>7, <1>8, Steps

-----------------------------------------------------------------------------
(* placeholder_active_ is set with the encoder in place and cleared before it is released
   or handed over. *)
LEMMA PlaceholderPreserved == ASSUME SInv, Next PROVE PlaceholderInv'
<1> USE Table, ToStopping, SupervisorAssumption DEF SInv, IInv, TypeOK, TypePhases, ControlInv, Watching, Joins,
    HandoffInv, PlaceholderSize, PlaceholderInv
<1>1. CASE RunStep
  BY <1>1 DEF RunStep, LoopEnter, ControlOnly, LoopExit, HandleStopping, ReleaseStreaming,
     Joined, TeardownPump, TeardownOutput, JoinMetrics, HandleFatal, TeardownStreaming
<1>2. CASE SearchStep
  BY <1>2 DEF SearchStep, HandleIdle, ControlOnly, ProbingStop, ProbingFound,
     ProbingMissing, StopWithoutThread, TeardownStreaming, ReleaseStreaming, Joined,
     TeardownPump, TeardownOutput, PlaceholderContinue, PlaceholderStart, CanSeamlessHandoff,
     SessionUp, InitEncoderAndRtsp, PlaceholderStartFails, PlaceholderSourceFound,
     PlaceholderNoSource, PlaceholderSend, PlaceholderSendFails
<1>3. CASE ConnectStep
  BY <1>3 DEF ConnectStep, ConnectBegin, ControlOnly, ConnectStop, ConnectFirstFrame,
     ConnectNoFrame, ConnectSuccess, CanSeamlessHandoff, SessionUp, InitEncoderAndRtsp,
     StartPump, StartEncodeThread, ConnectFails
<1>4. CASE WatchStep
  BY <1>4 DEF WatchStep, WatchBegin, RequestEncodeStop, WatchDevice, Check,
     WatchEncodeFlag, WatchRtspFlag, WatchResolutionFlag, StreamingLiveness, StalledLiveness,
     StalledMissing, StalledProlonged
<1>5. CASE JoinedStep
  BY <1>5 DEF JoinedStep, JoinedTeardown, ReleaseStreaming, Joined, TeardownPump,
     TeardownOutput, JoinedDevice, JoinedReconnect, JoinedReconfigure, JoinedMissing,
     SessionUp, ProlongedRecovery
<1>6. CASE RepairStep
  BY <1>6 DEF RepairStep, RecoverDevice, TeardownStreaming, ReleaseStreaming, Joined,
     TeardownPump, TeardownOutput, Reconfigure, InitEncoderAndRtsp, StartPump,
     StartEncodeThread, ReconfigureFails, ReconnectBegin, Reconnect, ReconnectFails
<1>7. CASE EncodeStep
  BY <1>7, EncodeLeaves DEF PlaceholderInv
<1>8. CASE Others
  BY <1>8, OthersLeave DEF OwnedVars
<1> QED BY <1>1, <1>2, <1>3, <1>4, <1>5, <1>6, <1>7, <1>8, Steps

-----------------------------------------------------------------------------
(* seamless_handoff_ is set with a session up, and cleared by the step that takes it over
   or replaces it. *)
LEMMA HandoffPreserved == ASSUME SInv, Next PROVE HandoffInv'
<1> USE Table, ToStopping DEF SInv, IInv, TypeOK, TypePhases, ControlInv, Watching, Joins,
    ResourceInv, SizeInv, PlaceholderInv, PlaceholderSize, HandoffInv
<1>1. CASE RunStep
  BY <1>1 DEF RunStep, LoopEnter, ControlOnly, LoopExit, HandleStopping, ReleaseStreaming,
     Joined, TeardownPump, TeardownOutput, JoinMetrics, HandleFatal, TeardownStreaming
<1>2. CASE SearchStep
  BY <1>2 DEF SearchStep, HandleIdle, ControlOnly, ProbingStop, ProbingFound,
     ProbingMissing, StopWithoutThread, TeardownStreaming, ReleaseStreaming, Joined,
     TeardownPump, TeardownOutput, PlaceholderContinue, PlaceholderStart, CanSeamlessHandoff,
     SessionUp, InitEncoderAndRtsp, PlaceholderStartFails, PlaceholderSourceFound,
     PlaceholderNoSource, PlaceholderSend, PlaceholderSendFails
<1>3. CASE ConnectStep
  BY <1>3 DEF ConnectStep, ConnectBegin, ControlOnly, ConnectStop, ConnectFirstFrame,
     ConnectNoFrame, ConnectSuccess, CanSeamlessHandoff, SessionUp, InitEncoderAndRtsp,
     StartPump, StartEncodeThread, ConnectFails
<1>4. CASE WatchStep
  BY <1>4 DEF WatchStep, WatchBegin, RequestEncodeStop, WatchDevice, Check,
     WatchEncodeFlag, WatchRtspFlag, WatchResolutionFlag, StreamingLiveness, StalledLiveness,
     StalledMissing, StalledProlonged
<1>5. CASE JoinedStep
  <2>1. CASE JoinedMissing /\ PlaceholderEnabled
    <3>1. seamless_handoff' = SessionUp
      BY <2>1, Zenon DEF JoinedMissing
    <3> UNCHANGED <<frameVars, outVars>> /\ state' = TransitionTo(state, "PLACEHOLDER")
      BY <2>1, Zenon DEF JoinedMissing
    <3> pc \in {"missing_join", "prolonged_join"}
      BY <2>1 DEF JoinedMissing
    <3>2. CASE SessionUp
      BY <3>2, SupervisorAssumption DEF SessionUp, TypeFrames, MaybeRes
    <3>3. CASE ~SessionUp
      <4>1. ~seamless_handoff'
        BY <3>1, <3>3, Zenon
      <4> QED BY <4>1
    <3> QED BY <3>2, <3>3
  <2>2. CASE JoinedMissing /\ ~PlaceholderEnabled
    BY <2>2 DEF JoinedMissing
  <2> QED BY <1>5, <2>1, <2>2 DEF JoinedStep, JoinedTeardown, JoinedDevice, JoinedReconnect,
     JoinedReconfigure, ProlongedRecovery
<1>6. CASE RepairStep
  BY <1>6 DEF RepairStep, RecoverDevice, TeardownStreaming, ReleaseStreaming, Joined,
     TeardownPump, TeardownOutput, Reconfigure, InitEncoderAndRtsp, StartPump,
     StartEncodeThread, ReconfigureFails, ReconnectBegin, Reconnect, ReconnectFails
<1>7. CASE EncodeStep
  BY <1>7, EncodeLeaves DEF HandoffInv
<1>8. CASE Others
  BY <1>8, OthersLeave DEF OwnedVars
<1> QED BY <1>1, <1>2, <1>3, <1>4, <1>5, <1>6, <1>7, <1>8, Steps

-----------------------------------------------------------------------------
(* Who leaves the streaming states releases what the next state does not take over. *)
LEMMA ReleasePreserved == ASSUME SInv, Next PROVE ReleaseInv'
<1> USE Table, ToStopping DEF SInv, IInv, TypeOK, TypePhases, ControlInv, Watching, Joins,
    ThreadInv, ResourceInv, HandoffInv, ReleaseInv
<1>1. CASE RunStep
  BY <1>1 DEF RunStep, LoopEnter, ControlOnly, LoopExit, HandleStopping, ReleaseStreaming,
     Joined, TeardownPump, TeardownOutput, JoinMetrics, HandleFatal, TeardownStreaming
<1>2. CASE SearchStep
  BY <1>2 DEF SearchStep, HandleIdle, ControlOnly, ProbingStop, ProbingFound,
     ProbingMissing, StopWithoutThread, TeardownStreaming, ReleaseStreaming, Joined,
     TeardownPump, TeardownOutput, PlaceholderContinue, PlaceholderStart, CanSeamlessHandoff,
     SessionUp, InitEncoderAndRtsp, PlaceholderStartFails, PlaceholderSourceFound,
     PlaceholderNoSource, PlaceholderSend, PlaceholderSendFails
<1>3. CASE ConnectStep
  BY <1>3 DEF ConnectStep, ConnectBegin, ControlOnly, ConnectStop, ConnectFirstFrame,
     ConnectNoFrame, ConnectSuccess, CanSeamlessHandoff, SessionUp, InitEncoderAndRtsp,
     StartPump, StartEncodeThread, ConnectFails
<1>4. CASE WatchStep
  BY <1>4 DEF WatchStep, WatchBegin, RequestEncodeStop, WatchDevice, Check,
     WatchEncodeFlag, WatchRtspFlag, WatchResolutionFlag, StreamingLiveness, StalledLiveness,
     StalledMissing, StalledProlonged
<1>5. CASE JoinedStep
  BY <1>5 DEF JoinedStep, JoinedTeardown, ReleaseStreaming, Joined, TeardownPump,
     TeardownOutput, JoinedDevice, JoinedReconnect, JoinedReconfigure, JoinedMissing,
     SessionUp, ProlongedRecovery
<1>6. CASE RepairStep
  BY <1>6 DEF RepairStep, RecoverDevice, TeardownStreaming, ReleaseStreaming, Joined,
     TeardownPump, TeardownOutput, Reconfigure, InitEncoderAndRtsp, StartPump,
     StartEncodeThread, ReconfigureFails, ReconnectBegin, Reconnect, ReconnectFails
<1>7. CASE EncodeStep
  BY <1>7, EncodeLeaves DEF ReleaseInv
<1>8. CASE Others
  BY <1>8, OthersLeave DEF OwnedVars, ReleaseInv, Others, CaptureStep, CaptureStatic,
     CaptureFrame, CaptureOnly, TimeStep, SourceAges, StallAges, ClockOnly, WaitExpires,
     CooldownEnds, ProbeFallsDue, EnvStep, RequestStop, AppOnly, SenderChanges, EnvOnly,
     DeviceLost, MetricsExit
<1> QED BY <1>1, <1>2, <1>3, <1>4, <1>5, <1>6, <1>7, <1>8, Steps

-----------------------------------------------------------------------------
LEMMA SInvInit == Init => SInv
<1> SUFFICES ASSUME Init PROVE SInv
  OBVIOUS
<1>1. state = "IDLE" /\ pc = "loop"
  BY Table DEF Init
<1> QED BY <1>1, InitEstablishes DEF Init, SInv, StreamInv, FreezeInv, SizeInv,
   PlaceholderInv, HandoffInv, ReleaseInv, Watching, EncAlive

LEMMA SInvStep == SInv /\ [Next]_vars => SInv'
<1>1. ASSUME SInv, Next PROVE SInv'
  <2>1. IInv'
    BY <1>1, StepPreserves DEF SInv
  <2> QED BY <1>1, <2>1, StreamPreserved, FreezePreserved, SizePreserved,
     PlaceholderPreserved, HandoffPreserved, ReleasePreserved DEF SInv
<1>2. ASSUME SInv, UNCHANGED vars PROVE SInv'
  <2>1. IInv'
    BY <1>2, StepPreserves DEF SInv
  <2>2. StreamInv' /\ FreezeInv' /\ SizeInv'
    BY <1>2 DEF vars, SInv, StreamInv, FreezeInv, SizeInv, Watching
  <2>3. PlaceholderInv' /\ HandoffInv' /\ ReleaseInv'
    BY <1>2 DEF vars, SInv, PlaceholderInv, HandoffInv, ReleaseInv, PlaceholderSize
  <2> QED BY <2>1, <2>2, <2>3 DEF SInv
<1> QED BY <1>1, <1>2

(* The invariant of the session, on top of that of the control: streams, the frame to
   show next, sizes, placeholder, handoff and releases (supervisor.cpp, all handlers). *)
THEOREM SessionInductive == Spec => []SInv
BY SInvInit, SInvStep, PTL DEF Spec

(* In STREAMING and STALLED the encode thread runs, or a flag tells why it does not. *)
THEOREM StreamNeverDiesSilently == Spec => []NoSilentStreamDeath
<1>1. SInv => NoSilentStreamDeath
  BY DEF SInv, StreamInv, NoSilentStreamDeath, Joins
<1> QED BY <1>1, SessionInductive, PTL

(* run() returns with nothing left running or held. *)
THEOREM ExitsClean == Spec => []CleanExit
<1>1. SInv => CleanExit
  BY DEF SInv, IInv, ControlInv, ThreadInv, ReleaseInv, Watching, CleanExit
<1> QED BY <1>1, SessionInductive, PTL

(* At the top of the loop each state finds the resources it relies on, and no other. *)
THEOREM ResourcesFollowState == Spec => []ResourcesMatchState
<1>1. SInv => ResourcesMatchState
  BY DEF SInv, IInv, ThreadInv, ResourceInv, ReleaseInv, Watching, ResourcesMatchState
<1> QED BY <1>1, SessionInductive, PTL

(* Whoever finds seamless_handoff_ set finds the session it promises. *)
THEOREM HandoffSound == Spec => []HandoffHasSession
<1>1. SInv => HandoffHasSession
  <2> SUFFICES ASSUME SInv, seamless_handoff, state \notin {"STOPPING", "IDLE"}
               PROVE  /\ encoder # None /\ rtsp = "connected" /\ pump = "none" /\ enc = "none"
                      /\ state \in {"PLACEHOLDER", "CONNECTING_OUTPUT", "PROBING"}
                      /\ state = "PLACEHOLDER" => PlaceholderSize = current
    BY Zenon DEF HandoffHasSession
  <2>1. state # "FATAL"
    BY DEF SInv, HandoffInv
  <2> QED BY <2>1 DEF SInv, IInv, ControlInv, ThreadInv, HandoffInv, ReleaseInv, Watching
<1> QED BY <1>1, SessionInductive, PTL

(* Frames are compared with, and handed to, an encoder of the size that is noted. *)
THEOREM EncoderSizeKnown == Spec => []EncoderMatchesCurrent
<1>1. SInv => EncoderMatchesCurrent
  BY DEF SInv, SizeInv, EncoderMatchesCurrent
<1> QED BY <1>1, SessionInductive, PTL

(* The placeholder is published through an encoder of its own size. *)
THEOREM PlaceholderFits == Spec => []PlaceholderOnItsEncoder
<1>1. SInv => PlaceholderOnItsEncoder
  BY DEF SInv, PlaceholderInv, PlaceholderOnItsEncoder
<1> QED BY <1>1, SessionInductive, PTL

(* No start of the encode thread on the CPU path begins with a black picture. *)
THEOREM NeverBlackAtRestart == Spec => RestartNeverBlack
<1>1. ASSUME SInv, Next, enc' = "begin", enc # "begin" PROVE initial_frame' # None
  BY <1>1, SInvStep DEF SInv, FreezeInv
<1>2. SInv /\ [Next]_vars => [enc' = "begin" /\ enc # "begin" => initial_frame' # None]_vars
  BY <1>1
<1> QED BY <1>2, SessionInductive, PTL DEF Spec, RestartNeverBlack

-----------------------------------------------------------------------------
(* What no step does to the receiver and the delays *)

(* The capture thread, the clocks, the user and the world leave these alone too. *)
LEMMA OthersLeaveNotes ==
  ASSUME Others PROVE UNCHANGED <<connected, backoff_attempt, backoff_delay>>
<1>1. CASE CaptureStep
  BY <1>1 DEF CaptureStep, CaptureStatic, CaptureFrame, CaptureOnly
<1>2. CASE TimeStep
  BY <1>2 DEF TimeStep, SourceAges, CaptureOnly, StallAges, ClockOnly, WaitExpires,
     CooldownEnds, ProbeFallsDue
<1>3. CASE EnvStep \/ MetricsExit
  BY <1>3 DEF EnvStep, RequestStop, AppOnly, SenderChanges, EnvOnly, DeviceLost, MetricsExit
<1> QED BY <1>1, <1>2, <1>3 DEF Others

(* A source is only waited for with a receiver.  With it, a stream is deaf only if it was
   deaf before or its reconfiguration fails. *)
Listening == state = "CONNECTING_OUTPUT" => connected
Deafened == state = "RECONFIGURING" /\ state' = "RECONFIGURING" /\ encoder' = None

(* No handler disconnects the receiver and stays with the stream, but the one that fails. *)
LEMMA ReceiverKept ==
  ASSUME IInv, Listening, Next
  PROVE  Listening' /\ (~Deaf /\ Deaf' => Deafened)
<1> USE Table, ToStopping DEF IInv, TypeOK, TypePhases, ControlInv, Watching, Joins, Listening,
        StreamHeld, Deaf, Deafened
<1>1. CASE RunStep
  BY <1>1 DEF RunStep, LoopEnter, ControlOnly, LoopExit, HandleStopping, JoinMetrics, HandleFatal
<1>2. CASE SearchStep
  BY <1>2 DEF SearchStep, HandleIdle, ControlOnly, ProbingStop, ProbingFound, ProbingMissing,
     StopWithoutThread, PlaceholderContinue, PlaceholderStart, PlaceholderStartFails,
     PlaceholderSourceFound,
     PlaceholderNoSource, PlaceholderSend, PlaceholderSendFails
<1>3. CASE ConnectStep
  BY <1>3 DEF ConnectStep, ConnectBegin, ControlOnly, ConnectStop, ConnectFirstFrame,
     ConnectNoFrame, ConnectSuccess, ConnectFails
<1>4. CASE WatchStep
  BY <1>4 DEF WatchStep, WatchBegin, RequestEncodeStop, WatchDevice, Check, WatchEncodeFlag,
     WatchRtspFlag, WatchResolutionFlag, StreamingLiveness, StalledLiveness, StalledMissing,
     StalledProlonged
<1>5. CASE JoinedStep
  BY <1>5 DEF JoinedStep, JoinedTeardown, JoinedDevice, JoinedReconnect, JoinedReconfigure,
     JoinedMissing, ProlongedRecovery
<1>6. CASE RepairStep
  BY <1>6 DEF RepairStep, RecoverDevice, Reconfigure, ReconfigureFails, TeardownOutput,
     ReconnectBegin, Reconnect, ReconnectFails
<1>7. CASE EncodeStep
  BY <1>7 DEF EncodeStep, EncodeBegin, EncodeThreadOnly, EncodeTop, EncodeNoFrame, EncodeMoves,
     EncodePop, EncodeSkip, EncodeDue, Encode, EncodeFails
<1>8. CASE Others
  BY <1>8, OthersLeave, OthersLeaveNotes DEF OwnedVars
<1> QED BY <1>1, <1>2, <1>3, <1>4, <1>5, <1>6, <1>7, <1>8, Steps

(* Only a reconfiguration that fails can make a stream start again without its receiver. *)
THEOREM DeafAfterReconfiguration == Spec => OnlyReconfigurationDeafens
<1>1. Init => Listening
  BY Table DEF Init, Listening
<1>2. IInv /\ Listening /\ [Next]_vars => Listening'
  BY ReceiverKept DEF vars, Listening
<1>3. IInv /\ Listening /\ [Next]_vars => [~Deaf /\ Deaf' => Deafened]_vars
  BY ReceiverKept
<1> QED BY <1>1, <1>2, <1>3, Inductive, PTL DEF Spec, OnlyReconfigurationDeafens, Deafened

(* next_delay() never shortens a delay, and every reset but one finds nothing to shorten. *)
LEMMA DelayMoves ==
  ASSUME IInv, Next, backoff_delay' < backoff_delay
  PROVE  state = "RECONNECTING_OUTPUT" /\ state' = "STREAMING" /\ rtsp' = "connected"
<1> USE Table, ToStopping, Limits DEF IInv, TypeOK, TypePhases, TypeCounters, ControlInv, Watching,
        Joins, RetryInv
<1>1. CASE RunStep
  BY <1>1 DEF RunStep, LoopEnter, ControlOnly, LoopExit, HandleStopping, JoinMetrics, HandleFatal
<1>2. CASE SearchStep
  BY <1>2 DEF SearchStep, HandleIdle, ControlOnly, ProbingStop, ProbingFound, ProbingMissing,
     StopWithoutThread, PlaceholderContinue, PlaceholderStart, PlaceholderStartFails,
     PlaceholderSourceFound,
     PlaceholderNoSource, PlaceholderSend, PlaceholderSendFails
<1>3. CASE ConnectStep
  BY <1>3 DEF ConnectStep, ConnectBegin, ControlOnly, ConnectStop, ConnectFirstFrame,
     ConnectNoFrame, ConnectSuccess, ResetRetries, ConnectFails
<1>4. CASE WatchStep
  BY <1>4 DEF WatchStep, WatchBegin, RequestEncodeStop, WatchDevice, Check, WatchEncodeFlag,
     WatchRtspFlag, WatchResolutionFlag, StreamingLiveness, StalledLiveness, StalledMissing,
     StalledProlonged
<1>5. CASE JoinedStep
  BY <1>5 DEF JoinedStep, JoinedTeardown, JoinedDevice, JoinedReconnect, JoinedReconfigure,
     JoinedMissing, ProlongedRecovery
<1>6. CASE RepairStep
  BY <1>6, DelayBounded DEF RepairStep, RecoverDevice, Reconfigure, ReconfigureFails,
     TeardownOutput, ReconnectBegin, Reconnect, ReconnectFails, ResetRetries
<1>7. CASE EncodeStep
  BY <1>7 DEF EncodeStep, EncodeBegin, EncodeThreadOnly, EncodeTop, EncodeNoFrame, EncodeMoves,
     EncodePop, EncodeSkip, EncodeDue, Encode, EncodeFails
<1>8. CASE Others
  BY <1>8, OthersLeaveNotes
<1> QED BY <1>1, <1>2, <1>3, <1>4, <1>5, <1>6, <1>7, <1>8, Steps

(* A delay gets shorter only when the server is back. *)
THEOREM DelaysOnlyGrow == Spec => DelaysGrow
<1>1. IInv /\ [Next]_vars =>
        [backoff_delay' < backoff_delay
           => state = "RECONNECTING_OUTPUT" /\ state' = "STREAMING" /\ rtsp' = "connected"]_vars
  BY DelayMoves
<1> QED BY <1>1, Inductive, PTL DEF Spec, DelaysGrow
=============================================================================
