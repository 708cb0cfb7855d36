--------------------------- MODULE SupervisorProofs ---------------------------
(***************************************************************************)
(* Proofs about Supervisor, for every value of its constants.              *)
(*                                                                         *)
(* IInv is inductive: one lemma per conjunct shows that a step of Next     *)
(* preserves it, with one case per group of actions, or per action where   *)
(* the group is too large for one.  The invariants and the action          *)
(* properties that the model checking runs check then follow from IInv.    *)
(***************************************************************************)
EXTENDS Supervisor, TLAPS

(* The groups of variables and the control helpers are abbreviations: they are
   expanded everywhere below. *)
USE DEF mainVars, encVars, flagVars, threadVars, frameVars, outVars, pumpVars, streamVars,
   retryVars, holdVars, waitVars, noteVars, envVars, worldVars, Goto, Leave, At, Handles

-----------------------------------------------------------------------------
(* What transition_to() does with the requests that the handlers make: all are in the
   table except the one of handle_reconfiguring() after a failure (supervisor.cpp:677),
   and that of run() when a handler has already entered STOPPING (:85). *)
LEMMA Table ==
  /\ TransitionTo("INIT", "IDLE") = "IDLE"
  /\ TransitionTo("IDLE", "PROBING") = "PROBING"
  /\ TransitionTo("IDLE", "STOPPING") = "STOPPING"
  /\ TransitionTo("PROBING", "CONNECTING_OUTPUT") = "CONNECTING_OUTPUT"
  /\ TransitionTo("PROBING", "PLACEHOLDER") = "PLACEHOLDER"
  /\ TransitionTo("PROBING", "STOPPING") = "STOPPING"
  /\ TransitionTo("PLACEHOLDER", "CONNECTING_OUTPUT") = "CONNECTING_OUTPUT"
  /\ TransitionTo("PLACEHOLDER", "STOPPING") = "STOPPING"
  /\ TransitionTo("CONNECTING_OUTPUT", "STREAMING") = "STREAMING"
  /\ TransitionTo("CONNECTING_OUTPUT", "PROBING") = "PROBING"
  /\ TransitionTo("CONNECTING_OUTPUT", "STOPPING") = "STOPPING"
  /\ TransitionTo("STREAMING", "STALLED") = "STALLED"
  /\ TransitionTo("STREAMING", "RECONFIGURING") = "RECONFIGURING"
  /\ TransitionTo("STREAMING", "RECONNECTING_OUTPUT") = "RECONNECTING_OUTPUT"
  /\ TransitionTo("STREAMING", "STOPPING") = "STOPPING"
  /\ TransitionTo("STREAMING", "PROBING") = "PROBING"
  /\ TransitionTo("STREAMING", "RECOVERING_DEVICE") = "RECOVERING_DEVICE"
  /\ TransitionTo("STALLED", "STREAMING") = "STREAMING"
  /\ TransitionTo("STALLED", "RECONNECTING_OUTPUT") = "RECONNECTING_OUTPUT"
  /\ TransitionTo("STALLED", "STOPPING") = "STOPPING"
  /\ TransitionTo("STALLED", "IDLE") = "IDLE"
  /\ TransitionTo("STALLED", "PROBING") = "PROBING"
  /\ TransitionTo("STALLED", "PLACEHOLDER") = "PLACEHOLDER"
  /\ TransitionTo("STALLED", "RECOVERING_DEVICE") = "RECOVERING_DEVICE"
  /\ TransitionTo("RECONFIGURING", "STREAMING") = "STREAMING"
  /\ TransitionTo("RECONFIGURING", "STOPPING") = "STOPPING"
  /\ TransitionTo("RECONNECTING_OUTPUT", "STREAMING") = "STREAMING"
  /\ TransitionTo("RECONNECTING_OUTPUT", "STOPPING") = "STOPPING"
  /\ TransitionTo("RECONNECTING_OUTPUT", "FATAL") = "FATAL"
  /\ TransitionTo("RECOVERING_DEVICE", "PROBING") = "PROBING"
  /\ TransitionTo("RECOVERING_DEVICE", "FATAL") = "FATAL"
  /\ TransitionTo("RECOVERING_DEVICE", "STOPPING") = "STOPPING"
  /\ TransitionTo("STOPPING", "IDLE") = "IDLE"
  /\ TransitionTo("RECONFIGURING", "PROBING") = "RECONFIGURING"
  /\ TransitionTo("STOPPING", "STOPPING") = "STOPPING"
BY DEF TransitionTo, CanTransition, Successors

(* Granted or refused, a request leads to a state. *)
LEMMA Closed ==
  ASSUME NEW from \in PublisherState, NEW to \in PublisherState
  PROVE  TransitionTo(from, to) \in PublisherState
BY DEF TransitionTo

(* run() can stop from every state in which its loop may be left, FATAL apart. *)
LEMMA ToStopping ==
  ASSUME NEW s \in PublisherState, s # "INIT", s # "FATAL"
  PROVE  TransitionTo(s, "STOPPING") = "STOPPING"
BY Table DEF PublisherState

LEMMA Limits ==
  /\ SourceAgeLimit \in Nat /\ StallAgeLimit \in Nat /\ MaxReconnectAttempts \in Nat
  /\ ReconnectDelay \in Nat /\ ReconnectMaxDelay \in Nat
  /\ ReconnectMaxDelay >= ReconnectDelay
BY SupervisorAssumption DEF ConfigAccepted, SourceAgeLimit, StallAgeLimit, MaxOf

(* The truncated product of a delay with a multiplier of at least 1 is not shorter. *)
LEMMA Growth ==
  ASSUME NEW d \in Nat
  PROVE  Grown(d) \in Nat /\ Grown(d) >= d
<1> DEFINE n == BackoffNumerator
           m == BackoffDenominator
           q == (d * n) \div m
<1>1. n \in Nat /\ m \in Nat \ {0} /\ n >= m
  BY SupervisorAssumption DEF ConfigAccepted
<1>2. d * n \in Nat /\ d * n >= d * m
  BY <1>1
<1> HIDE DEF n, m
<1>3. q \in Nat /\ d * n < m * q + m
  BY <1>1, <1>2
<1>4. m * d < m * (q + 1)
  BY <1>1, <1>2, <1>3
<1>5. d < q + 1
  BY <1>1, <1>3, <1>4
<1> QED BY <1>3, <1>5 DEF Grown, n, m

(* The next delay is no shorter than this one, and never beyond the configured maximum. *)
LEMMA DelayBounded ==
  ASSUME NEW d \in ReconnectDelay..ReconnectMaxDelay
  PROVE  NextDelay(d) \in d..ReconnectMaxDelay
<1>1. Grown(d) \in Nat /\ Grown(d) >= d
  BY Growth, Limits
<1> QED BY <1>1, Limits DEF NextDelay

-----------------------------------------------------------------------------
(* Booleans stay Booleans.  Zenon handles Boolean-valued variables. *)
LEMMA SwitchesPreserved == ASSUME IInv, Next PROVE TypeSwitches'
<1>0. TypeSwitches
  BY ZenonT(90) DEF IInv, TypeOK, TypeSwitches
<1> USE <1>0 DEF TypeSwitches
<1>1. CASE RunStep
  BY <1>1, ZenonT(90) DEF RunStep, LoopEnter, ControlOnly, LoopExit, HandleStopping,
     JoinMetrics, HandleFatal, TeardownStreaming
<1>2. CASE SearchStep
  <2>1. CASE HandleIdle \/ ProbingStop \/ ProbingFound \/ ProbingMissing \/ StopWithoutThread
    BY <2>1, ZenonT(90) DEF HandleIdle, ControlOnly, ProbingStop, ProbingFound, ProbingMissing,
       StopWithoutThread, TeardownStreaming
  <2>2. CASE PlaceholderContinue \/ PlaceholderStart \/ PlaceholderStartFails
    BY <2>2, ZenonT(90) DEF PlaceholderContinue, ControlOnly, PlaceholderStart,
       CanSeamlessHandoff, SessionUp, InitEncoderAndRtsp, PlaceholderStartFails
  <2>3. CASE PlaceholderSourceFound \/ PlaceholderNoSource
    BY <2>3, ZenonT(90) DEF PlaceholderSourceFound, SessionUp, PlaceholderNoSource
  <2>4. CASE PlaceholderSend \/ PlaceholderSendFails
    BY <2>4, ZenonT(90) DEF PlaceholderSend, ControlOnly, PlaceholderSendFails
  <2> QED BY <1>2, <2>1, <2>2, <2>3, <2>4 DEF SearchStep
<1>3. CASE ConnectStep
  <2>1. CASE ConnectBegin \/ ConnectStop \/ ConnectFirstFrame \/ ConnectNoFrame
    BY <2>1, ZenonT(90) DEF ConnectBegin, ControlOnly, ConnectStop, EndWait, ConnectFirstFrame,
       CanReceive, ConnectNoFrame, ResetConnectTimerOnce
  <2>2. CASE \E res \in Resolutions : ConnectSuccess(res) \/ ConnectFails(res)
    BY <2>2, ZenonT(90) DEF ConnectSuccess, CanSeamlessHandoff, SessionUp, InitEncoderAndRtsp,
       StartEncodeThread, ConnectFails
  <2> QED BY <1>3, <2>1, <2>2 DEF ConnectStep
<1>4. CASE WatchStep
  <2>1. CASE WatchBegin \/ WatchDevice \/ WatchEncodeFlag \/ WatchRtspFlag \/ WatchResolutionFlag
    BY <2>1, ZenonT(90) DEF WatchBegin, RequestEncodeStop, WatchDevice, Check, WatchEncodeFlag,
       WatchRtspFlag, WatchResolutionFlag
  <2>2. CASE StreamingLiveness \/ StalledLiveness \/ StalledMissing \/ StalledProlonged
    BY <2>2, ZenonT(90) DEF StreamingLiveness, StalledLiveness, StalledMissing, StalledProlonged,
       Check, RequestEncodeStop
  <2> QED BY <1>4, <2>1, <2>2 DEF WatchStep
<1>5. CASE JoinedStep
  BY <1>5, ZenonT(90) DEF JoinedStep, JoinedTeardown, JoinedDevice, JoinedReconnect,
     JoinedReconfigure, JoinedMissing, SessionUp, ProlongedRecovery
<1>6. CASE RepairStep
  BY <1>6, ZenonT(90) DEF RepairStep, RecoverDevice, TeardownStreaming, Reconfigure,
     InitEncoderAndRtsp, StartEncodeThread, ReconfigureFails, ReconnectBegin, Reconnect,
     ReconnectFails
<1>7. CASE EncodeStep
  <2>1. CASE EncodeBegin \/ EncodeTop \/ EncodeNoFrame
    BY <2>1, ZenonT(90) DEF EncodeBegin, EncodeThreadOnly, EncodeTop, EncodeNoFrame, EncodeMoves
  <2>2. CASE EncodePop
    BY <2>2, ZenonT(90) DEF EncodePop, EncodeThreadOnly, EncodeMoves
  <2>3. CASE EncodeSkip \/ EncodeDue
    BY <2>3, ZenonT(90) DEF EncodeSkip, EncodeDue, EncodeThreadOnly, EncodeMoves
  <2>4. CASE Encode \/ EncodeFails
    BY <2>4, ZenonT(90) DEF Encode, EncodeFails, EncodeThreadOnly, EncodeMoves
  <2> QED BY <1>7, <2>1, <2>2, <2>3, <2>4 DEF EncodeStep
<1>8. CASE CaptureStep
  BY <1>8, ZenonT(90) DEF CaptureStep, CaptureStatic, CanReceive, CaptureOnly, CaptureFrame
<1>9. CASE TimeStep
  BY <1>9, ZenonT(90) DEF TimeStep, SourceAges, CaptureOnly, StallAges, ClockOnly,
     WaitExpires, CooldownEnds, ProbeFallsDue
<1>10. CASE EnvStep
  BY <1>10, ZenonT(90) DEF EnvStep, RequestStop, AppOnly, SenderChanges, EnvOnly, DeviceLost
<1>11. CASE MetricsExit
  BY <1>11, ZenonT(90) DEF MetricsExit, AppOnly
<1> QED BY <1>1, <1>2, <1>3, <1>4, <1>5, <1>6, <1>7, <1>8, <1>9, <1>10, <1>11 DEF Next,
   MainStep

-----------------------------------------------------------------------------
(* Every thread, the state and the handles stay in their sets of phases. *)
LEMMA PhasesPreserved == ASSUME IInv, Next PROVE TypePhases'
<1> USE Closed DEF IInv, TypeOK, TypePhases, MainPC, Joins, EncAlive, PublisherState
<1>1. CASE RunStep
  BY <1>1 DEF RunStep, LoopEnter, ControlOnly, LoopExit, HandleStopping, ReleaseStreaming,
     Joined, TeardownPump, TeardownOutput, JoinMetrics, HandleFatal, TeardownStreaming
<1>2. CASE SearchStep
  BY <1>2 DEF SearchStep, HandleIdle, ControlOnly, ProbingStop, ProbingFound,
     ProbingMissing, StopWithoutThread, TeardownStreaming, ReleaseStreaming, Joined,
     TeardownPump, TeardownOutput, PlaceholderContinue, PlaceholderStart,
     CanSeamlessHandoff, SessionUp, InitEncoderAndRtsp, PlaceholderStartFails,
     PlaceholderSourceFound, PlaceholderNoSource, PlaceholderSend,
     PlaceholderSendFails
<1>3. CASE ConnectStep
  BY <1>3 DEF ConnectStep, ConnectBegin, ControlOnly, ConnectStop, ConnectFirstFrame,
     ConnectNoFrame, ConnectSuccess, CanSeamlessHandoff, SessionUp, InitEncoderAndRtsp,
     StartPump, StartEncodeThread, ConnectFails
<1>4. CASE WatchStep
  BY <1>4 DEF WatchStep, WatchBegin, Watching, RequestEncodeStop, WatchDevice, Check,
     WatchEncodeFlag, WatchRtspFlag, WatchResolutionFlag, StreamingLiveness,
     StalledLiveness, StalledMissing, StalledProlonged
<1>5. CASE JoinedStep
  BY <1>5 DEF JoinedStep, JoinedTeardown, ReleaseStreaming, Joined, TeardownPump,
     TeardownOutput, JoinedDevice, JoinedReconnect, JoinedReconfigure, JoinedMissing,
     SessionUp, ProlongedRecovery
<1>6. CASE RepairStep
  BY <1>6 DEF RepairStep, RecoverDevice, TeardownStreaming, ReleaseStreaming, Joined,
     TeardownPump, TeardownOutput, Reconfigure, InitEncoderAndRtsp, StartPump,
     StartEncodeThread, ReconfigureFails, ReconnectBegin, Reconnect, ReconnectFails
<1>7. CASE EncodeStep
  BY <1>7 DEF EncodeStep, EncodeBegin, EncodeThreadOnly, EncodeTop, EncodeNoFrame,
     EncodeMoves, EncodePop, EncodeSkip, EncodeDue, Encode, EncodeFails
<1>8. CASE CaptureStep
  BY <1>8 DEF CaptureStep, CaptureStatic, CaptureOnly, CaptureFrame
<1>9. CASE TimeStep
  BY <1>9 DEF TimeStep, SourceAges, CaptureOnly, StallAges, ClockOnly, WaitExpires,
     CooldownEnds, ProbeFallsDue
<1>10. CASE EnvStep
  BY <1>10 DEF EnvStep, RequestStop, AppOnly, SenderChanges, EnvOnly, DeviceLost
<1>11. CASE MetricsExit
  BY <1>11 DEF MetricsExit, AppOnly
<1> QED BY <1>1, <1>2, <1>3, <1>4, <1>5, <1>6, <1>7, <1>8, <1>9, <1>10, <1>11 DEF Next,
   MainStep

-----------------------------------------------------------------------------
(* Only the three flags are ever raised. *)
LEMMA FlagsPreserved == ASSUME IInv, Next PROVE TypeFlags'
<1> USE DEF IInv, TypeOK, TypeFlags, Flag
<1>1. CASE RunStep
  BY <1>1 DEF RunStep, LoopEnter, ControlOnly, LoopExit, HandleStopping, JoinMetrics,
     HandleFatal
<1>2. CASE SearchStep
  BY <1>2 DEF SearchStep, HandleIdle, ControlOnly, ProbingStop, ProbingFound,
     ProbingMissing, StopWithoutThread, PlaceholderContinue, PlaceholderStart,
     PlaceholderStartFails, PlaceholderSourceFound, PlaceholderNoSource, PlaceholderSend,
     PlaceholderSendFails
<1>3. CASE ConnectStep
  BY <1>3 DEF ConnectStep, ConnectBegin, ControlOnly, ConnectStop, ConnectFirstFrame,
     ConnectNoFrame, ConnectSuccess, StartEncodeThread, ConnectFails
<1>4. CASE WatchStep
  BY <1>4 DEF WatchStep, WatchBegin, WatchDevice, Check, WatchEncodeFlag, WatchRtspFlag,
     WatchResolutionFlag, StreamingLiveness, StalledLiveness, StalledMissing,
     StalledProlonged
<1>5. CASE JoinedStep
  BY <1>5 DEF JoinedStep, JoinedTeardown, JoinedDevice, JoinedReconnect, JoinedReconfigure,
     JoinedMissing, ProlongedRecovery
<1>6. CASE RepairStep
  BY <1>6 DEF RepairStep, RecoverDevice, Reconfigure, StartEncodeThread, ReconfigureFails,
     ReconnectBegin, Reconnect, ReconnectFails
<1>7. CASE EncodeStep
  BY <1>7 DEF EncodeStep, EncodeBegin, EncodeTop, EncodeNoFrame, EncodeMoves, EncodePop,
     EncodeSkip, EncodeDue, Encode, EncodeFails
<1>8. CASE CaptureStep
  BY <1>8 DEF CaptureStep, CaptureStatic, CaptureOnly, CaptureFrame
<1>9. CASE TimeStep
  BY <1>9 DEF TimeStep, SourceAges, CaptureOnly, StallAges, ClockOnly, WaitExpires,
     CooldownEnds, ProbeFallsDue
<1>10. CASE EnvStep
  BY <1>10 DEF EnvStep, RequestStop, AppOnly, SenderChanges, EnvOnly, DeviceLost
<1>11. CASE MetricsExit
  BY <1>11 DEF MetricsExit, AppOnly
<1> QED BY <1>1, <1>2, <1>3, <1>4, <1>5, <1>6, <1>7, <1>8, <1>9, <1>10, <1>11 DEF Next,
   MainStep

-----------------------------------------------------------------------------
(* Every resolution kept anywhere is one of Resolutions or None, and the queue is
   bounded: the capture thread makes room before it appends. *)
LEMMA FramesPreserved == ASSUME IInv, Next PROVE TypeFrames'
<1> USE SupervisorAssumption DEF IInv, TypeOK, TypeFrames, MaybeRes
<1>1. CASE RunStep
  <2>1. CASE LoopEnter
    BY <2>1 DEF LoopEnter, ControlOnly
  <2>2. CASE LoopExit
    BY <2>2 DEF LoopExit
  <2>3. CASE HandleStopping
    BY <2>3 DEF HandleStopping, ReleaseStreaming, Joined, TeardownPump, TeardownOutput
  <2>4. CASE JoinMetrics
    BY <2>4 DEF JoinMetrics
  <2>5. CASE HandleFatal
    BY <2>5 DEF HandleFatal, TeardownStreaming, ReleaseStreaming, Joined, TeardownPump,
       TeardownOutput
  <2> QED BY <1>1, <2>1, <2>2, <2>3, <2>4, <2>5 DEF RunStep
<1>2. CASE SearchStep
  <2>1. CASE HandleIdle
    BY <2>1 DEF HandleIdle, ControlOnly
  <2>2. CASE ProbingStop
    BY <2>2 DEF ProbingStop, ControlOnly
  <2>3. CASE ProbingFound
    BY <2>3 DEF ProbingFound
  <2>4. CASE ProbingMissing
    BY <2>4 DEF ProbingMissing
  <2>5. CASE StopWithoutThread
    BY <2>5 DEF StopWithoutThread, TeardownStreaming, ReleaseStreaming, Joined,
       TeardownPump, TeardownOutput
  <2>6. CASE PlaceholderContinue
    BY <2>6 DEF PlaceholderContinue, ControlOnly, PlaceholderSize
  <2>7. CASE PlaceholderStart
    BY <2>7 DEF PlaceholderStart, PlaceholderSize, CanSeamlessHandoff, SessionUp,
       InitEncoderAndRtsp
  <2>8. CASE PlaceholderStartFails
    BY <2>8 DEF PlaceholderStartFails, PlaceholderSize, CanSeamlessHandoff, SessionUp,
       TeardownOutput
  <2>9. CASE PlaceholderSourceFound
    BY <2>9 DEF PlaceholderSourceFound, SessionUp, TeardownOutput
  <2>10. CASE PlaceholderNoSource \/ PlaceholderSend
    BY <2>10 DEF PlaceholderNoSource, PlaceholderSend, ControlOnly
  <2>11. CASE PlaceholderSendFails
    BY <2>11 DEF PlaceholderSendFails, TeardownOutput
  <2> QED BY <1>2, <2>1, <2>2, <2>3, <2>4, <2>5, <2>6, <2>7, <2>8, <2>9, <2>10, <2>11 DEF
     SearchStep
<1>3. CASE ConnectStep
  <2>1. CASE ConnectBegin
    BY <2>1 DEF ConnectBegin, ControlOnly
  <2>2. CASE ConnectStop
    BY <2>2 DEF ConnectStop
  <2>3. CASE ConnectFirstFrame
    BY <2>3 DEF ConnectFirstFrame
  <2>4. CASE ConnectNoFrame
    BY <2>4 DEF ConnectNoFrame
  <2>5. ASSUME NEW res \in Resolutions, ConnectSuccess(res) PROVE TypeFrames'
    BY <2>5 DEF ConnectSuccess, CanSeamlessHandoff, SessionUp, InitEncoderAndRtsp,
       StartPump, StartEncodeThread
  <2>6. ASSUME NEW res \in Resolutions, ConnectFails(res) PROVE TypeFrames'
    BY <2>6 DEF ConnectFails, CanSeamlessHandoff, SessionUp
  <2> QED BY <1>3, <2>1, <2>2, <2>3, <2>4, <2>5, <2>6 DEF ConnectStep
<1>4. CASE WatchStep
  BY <1>4 DEF WatchStep, WatchBegin, WatchDevice, Check, WatchEncodeFlag, WatchRtspFlag,
     WatchResolutionFlag, StreamingLiveness, StalledLiveness, StalledMissing,
     StalledProlonged
<1>5. CASE JoinedStep
  <2>1. CASE JoinedTeardown
    BY <2>1 DEF JoinedTeardown, ReleaseStreaming, Joined, TeardownPump, TeardownOutput
  <2>2. CASE JoinedDevice
    BY <2>2 DEF JoinedDevice, Joined
  <2>3. CASE JoinedReconnect
    BY <2>3 DEF JoinedReconnect, Joined
  <2>4. CASE JoinedReconfigure
    BY <2>4 DEF JoinedReconfigure, Joined
  <2>5. CASE JoinedMissing
    BY <2>5 DEF JoinedMissing, Joined, TeardownPump, SessionUp, TeardownOutput
  <2>6. CASE ProlongedRecovery
    <3>1. CASE ShouldForceSpoutRecovery(NextStallCount)
      BY <2>6, <3>1 DEF ProlongedRecovery, Joined, TeardownPump, TeardownOutput
    <3>2. CASE ~ShouldForceSpoutRecovery(NextStallCount)
      BY <2>6, <3>2 DEF ProlongedRecovery, Joined
    <3> QED BY <3>1, <3>2
  <2> QED BY <1>5, <2>1, <2>2, <2>3, <2>4, <2>5, <2>6 DEF JoinedStep
<1>6. CASE RepairStep
  <2>1. CASE RecoverDevice
    BY <2>1 DEF RecoverDevice, TeardownStreaming, ReleaseStreaming, Joined, TeardownPump,
       TeardownOutput
  <2>2. CASE Reconfigure
    BY <2>2 DEF Reconfigure, InitEncoderAndRtsp, StartPump, StartEncodeThread
  <2>3. CASE ReconfigureFails
    BY <2>3 DEF ReconfigureFails, TeardownOutput
  <2>4. CASE ReconnectBegin
    <3>1. CASE Exhausted(reconnect_attempts + 1)
      BY <2>4, <3>1 DEF ReconnectBegin, TeardownStreaming, ReleaseStreaming, Joined, TeardownPump,
        TeardownOutput
    <3>2. CASE ~Exhausted(reconnect_attempts + 1)
      BY <2>4, <3>2 DEF ReconnectBegin
    <3> QED BY <3>1, <3>2
  <2>5. CASE Reconnect
    BY <2>5 DEF Reconnect, StartEncodeThread
  <2>6. CASE ReconnectFails
    BY <2>6 DEF ReconnectFails
  <2> QED BY <1>6, <2>1, <2>2, <2>3, <2>4, <2>5, <2>6 DEF RepairStep
<1>7. CASE EncodeStep
  BY <1>7 DEF EncodeStep, EncodeBegin, EncodeThreadOnly, EncodeTop, EncodeNoFrame,
     EncodeMoves, EncodePop, EncodeSkip, EncodeDue, Encode, EncodeFails
<1>8. CASE CaptureStep
  <2>1. CASE CaptureStatic
    BY <2>1 DEF CaptureStatic, CaptureOnly
  <2>2. ASSUME NEW res \in Resolutions, CaptureFrame(res) PROVE TypeFrames'
    <3>1. RoomInQueue \in Seq(Resolutions) /\ Len(RoomInQueue) < MaxQueueSize
      BY DEF RoomInQueue
    <3>2. Append(RoomInQueue, res) \in Seq(Resolutions)
          /\ Len(Append(RoomInQueue, res)) <= MaxQueueSize
      BY <3>1
    <3> QED BY <2>2, <3>2 DEF CaptureFrame, CaptureOnly
  <2> QED BY <1>8, <2>1, <2>2 DEF CaptureStep
<1>9. CASE TimeStep
  BY <1>9 DEF TimeStep, SourceAges, CaptureOnly, StallAges, ClockOnly, WaitExpires,
     CooldownEnds, ProbeFallsDue
<1>10. CASE EnvStep
  BY <1>10 DEF EnvStep, RequestStop, AppOnly, SenderChanges, EnvOnly, DeviceLost
<1>11. CASE MetricsExit
  BY <1>11 DEF MetricsExit, AppOnly
<1> QED BY <1>1, <1>2, <1>3, <1>4, <1>5, <1>6, <1>7, <1>8, <1>9, <1>10, <1>11 DEF Next,
   MainStep

-----------------------------------------------------------------------------
(* The clocks saturate; the attempts are bounded because RetryInv bounds them
   before each increment. *)
LEMMA CountersPreserved == ASSUME IInv, Next PROVE TypeCounters'
<1> USE SupervisorAssumption, Limits, DelayBounded
    DEF IInv, TypeOK, TypePhases, TypeCounters, RetryInv, ControlInv
<1>1. CASE RunStep
  BY <1>1 DEF RunStep, LoopEnter, ControlOnly, LoopExit, HandleStopping, ReleaseStreaming,
     TeardownPump, JoinMetrics, HandleFatal, TeardownStreaming
<1>2. CASE SearchStep
  BY <1>2 DEF SearchStep, HandleIdle, ControlOnly, ProbingStop, ProbingFound,
     ProbingMissing, StopWithoutThread, TeardownStreaming, ReleaseStreaming, TeardownPump,
     PlaceholderContinue, PlaceholderStart, PlaceholderStartFails, PlaceholderSourceFound,
     PlaceholderNoSource, PlaceholderSend, PlaceholderSendFails
<1>3. CASE ConnectStep
  BY <1>3, SMTT(60) DEF ConnectStep, ConnectBegin, ControlOnly, ConnectStop, ConnectFirstFrame,
     ConnectNoFrame, ConnectSuccess, StartPump, ResetRetries, ConnectFails
<1>4. CASE WatchStep
  BY <1>4 DEF WatchStep, WatchBegin, Watching, RequestEncodeStop, WatchDevice, Check,
     WatchEncodeFlag, WatchRtspFlag, WatchResolutionFlag, StreamingLiveness,
     StalledLiveness, StalledMissing, StalledProlonged
<1>5. CASE JoinedStep
  BY <1>5, SMTT(60) DEF JoinedStep, JoinedTeardown, ReleaseStreaming, TeardownPump, JoinedDevice,
     JoinedReconnect, JoinedReconfigure, JoinedMissing, ProlongedRecovery, NextStallCount
<1>6. CASE RepairStep
  BY <1>6, SMTT(60) DEF RepairStep, RecoverDevice, TeardownStreaming, ReleaseStreaming, TeardownPump,
     Reconfigure, StartPump, ReconfigureFails, ReconnectBegin, Reconnect, ResetRetries,
     ReconnectFails, Exhausted
<1>7. CASE EncodeStep
  BY <1>7 DEF EncodeStep, EncodeBegin, EncodeThreadOnly, EncodeTop, EncodeNoFrame,
     EncodeMoves, EncodePop, EncodeSkip, EncodeDue, Encode, EncodeFails
<1>8. CASE CaptureStep
  <2>1. source_age' = 0
    BY <1>8 DEF CaptureStep, CaptureStatic, CaptureFrame
  <2> QED BY <1>8, <2>1, SMTT(60) DEF CaptureStep, CaptureStatic, CaptureOnly, CaptureFrame
<1>9. CASE TimeStep
  BY <1>9 DEF TimeStep, SourceAges, CaptureOnly, StallAges, ClockOnly, WaitExpires,
     CooldownEnds, ProbeFallsDue
<1>10. CASE EnvStep
  BY <1>10 DEF EnvStep, RequestStop, AppOnly, SenderChanges, EnvOnly, DeviceLost
<1>11. CASE MetricsExit
  BY <1>11 DEF MetricsExit, AppOnly
<1> QED BY <1>1, <1>2, <1>3, <1>4, <1>5, <1>6, <1>7, <1>8, <1>9, <1>10, <1>11 DEF Next,
   MainStep

-----------------------------------------------------------------------------
(* Only the main thread moves state and pc, and each handler ends in its own state. *)
LEMMA ControlPreserved == ASSUME IInv, Next PROVE ControlInv'
<1> USE Table, ToStopping DEF IInv, TypeOK, TypePhases, ControlInv, Watching, Joins
<1>1. CASE RunStep
  BY <1>1 DEF RunStep, LoopEnter, LoopExit, HandleStopping, JoinMetrics, HandleFatal
<1>2. CASE SearchStep
  BY <1>2 DEF SearchStep, HandleIdle, ProbingStop, ProbingFound, ProbingMissing,
     StopWithoutThread, PlaceholderContinue, PlaceholderStart, PlaceholderStartFails,
     PlaceholderSourceFound, PlaceholderNoSource, PlaceholderSend,
     PlaceholderSendFails
<1>3. CASE ConnectStep
  BY <1>3 DEF ConnectStep, ConnectBegin, ConnectStop, ConnectFirstFrame, ConnectNoFrame,
     ConnectSuccess, ConnectFails
<1>4. CASE WatchStep
  BY <1>4 DEF WatchStep, WatchBegin, RequestEncodeStop, WatchDevice, Check, WatchEncodeFlag,
     WatchRtspFlag, WatchResolutionFlag, StreamingLiveness, StalledLiveness, StalledMissing,
     StalledProlonged
<1>5. CASE JoinedStep
  BY <1>5 DEF JoinedStep, JoinedTeardown, JoinedDevice, JoinedReconnect, JoinedReconfigure,
     JoinedMissing, ProlongedRecovery
<1>6. CASE RepairStep
  BY <1>6 DEF RepairStep, RecoverDevice, Reconfigure, ReconfigureFails, ReconnectBegin,
     Reconnect, ReconnectFails
<1>7. CASE EncodeStep
  BY <1>7 DEF EncodeStep, EncodeBegin, EncodeThreadOnly, EncodeTop, EncodeNoFrame,
     EncodeMoves, EncodePop, EncodeSkip, EncodeDue, Encode, EncodeFails
<1>8. CASE CaptureStep
  BY <1>8 DEF CaptureStep, CaptureStatic, CaptureOnly, CaptureFrame
<1>9. CASE TimeStep
  BY <1>9 DEF TimeStep, SourceAges, CaptureOnly, StallAges, ClockOnly, WaitExpires,
     CooldownEnds, ProbeFallsDue
<1>10. CASE EnvStep
  BY <1>10 DEF EnvStep, RequestStop, AppOnly, SenderChanges, EnvOnly, DeviceLost
<1>11. CASE MetricsExit
  BY <1>11 DEF MetricsExit, AppOnly
<1> QED BY <1>1, <1>2, <1>3, <1>4, <1>5, <1>6, <1>7, <1>8, <1>9, <1>10, <1>11 DEF Next,
   MainStep

-----------------------------------------------------------------------------
(* STREAMING and STALLED are left only through a join, or by run() to its last one. *)
LEMMA ThreadPreserved == ASSUME IInv, Next PROVE ThreadInv'
<1> USE Table DEF IInv, ControlInv, ThreadInv, Watching, Joins
<1>1. CASE RunStep
  BY <1>1 DEF RunStep, LoopEnter, ControlOnly, LoopExit, HandleStopping, ReleaseStreaming,
     Joined, JoinMetrics, HandleFatal, TeardownStreaming
<1>2. CASE SearchStep
  BY <1>2 DEF SearchStep, HandleIdle, ControlOnly, ProbingStop, ProbingFound,
     ProbingMissing, StopWithoutThread, TeardownStreaming, ReleaseStreaming, Joined,
     PlaceholderContinue, PlaceholderStart, PlaceholderStartFails, PlaceholderSourceFound,
     PlaceholderNoSource, PlaceholderSend, PlaceholderSendFails
<1>3. CASE ConnectStep
  BY <1>3 DEF ConnectStep, ConnectBegin, ControlOnly, ConnectStop, ConnectFirstFrame,
     ConnectNoFrame, ConnectSuccess, StartEncodeThread, ConnectFails
<1>4. CASE WatchStep
  BY <1>4 DEF WatchStep, WatchBegin, RequestEncodeStop, WatchDevice, Check, WatchEncodeFlag,
     WatchRtspFlag, WatchResolutionFlag, StreamingLiveness, StalledLiveness, StalledMissing,
     StalledProlonged
<1>5. CASE JoinedStep
  BY <1>5 DEF JoinedStep, JoinedTeardown, ReleaseStreaming, Joined, JoinedDevice,
     JoinedReconnect, JoinedReconfigure, JoinedMissing, ProlongedRecovery
<1>6. CASE RepairStep
  BY <1>6 DEF RepairStep, RecoverDevice, TeardownStreaming, ReleaseStreaming, Joined,
     Reconfigure, StartEncodeThread, ReconfigureFails, ReconnectBegin, Reconnect,
     ReconnectFails
<1>7. CASE EncodeStep
  BY <1>7 DEF EncodeStep, EncodeBegin, EncodeThreadOnly, EncodeTop, EncodeNoFrame,
     EncodeMoves, EncodePop, EncodeSkip, EncodeDue, Encode, EncodeFails
<1>8. CASE CaptureStep
  BY <1>8 DEF CaptureStep, CaptureStatic, CaptureOnly, CaptureFrame
<1>9. CASE TimeStep
  BY <1>9 DEF TimeStep, SourceAges, CaptureOnly, StallAges, ClockOnly, WaitExpires,
     CooldownEnds, ProbeFallsDue
<1>10. CASE EnvStep
  BY <1>10 DEF EnvStep, RequestStop, AppOnly, SenderChanges, EnvOnly, DeviceLost
<1>11. CASE MetricsExit
  BY <1>11 DEF MetricsExit, AppOnly
<1> QED BY <1>1, <1>2, <1>3, <1>4, <1>5, <1>6, <1>7, <1>8, <1>9, <1>10, <1>11 DEF Next,
   MainStep

-----------------------------------------------------------------------------
(* Whatever releases the pump, the encoder or the client runs after the join and
   leaves the states that promise them. *)
LEMMA ResourcesPreserved == ASSUME IInv, Next PROVE ResourceInv'
<1> USE Table, SupervisorAssumption DEF IInv, TypeOK, TypeFrames, ControlInv, ThreadInv, ResourceInv, Watching, Joins, EncAlive, MaybeRes
<1>1. CASE RunStep
  <2>1. CASE LoopEnter
    BY <2>1 DEF LoopEnter, ControlOnly
  <2>2. CASE LoopExit
    <3>1. CASE state = "FATAL"
      BY <2>2, <3>1 DEF LoopExit, Watching, Joins
    <3>2. CASE state # "FATAL"
      <4>1. state' = "STOPPING" /\ pc' = "final_join"
        BY <2>2, <3>2, ToStopping DEF LoopExit, TypePhases
      <4> QED BY <2>2, <4>1 DEF LoopExit
    <3> QED BY <3>1, <3>2
  <2>3. CASE HandleStopping
    BY <2>3 DEF HandleStopping, ReleaseStreaming, Joined, TeardownPump, TeardownOutput
  <2>4. CASE JoinMetrics
    BY <2>4 DEF JoinMetrics
  <2>5. CASE HandleFatal
    BY <2>5 DEF HandleFatal, TeardownStreaming, ReleaseStreaming, Joined, TeardownPump,
       TeardownOutput
  <2> QED BY <1>1, <2>1, <2>2, <2>3, <2>4, <2>5 DEF RunStep
<1>2. CASE SearchStep
  BY <1>2 DEF SearchStep, HandleIdle, ControlOnly, ProbingStop, ProbingFound,
     ProbingMissing, StopWithoutThread, TeardownStreaming, ReleaseStreaming, Joined,
     TeardownPump, TeardownOutput, PlaceholderContinue, PlaceholderStart,
     CanSeamlessHandoff, SessionUp, InitEncoderAndRtsp, PlaceholderStartFails,
     PlaceholderSourceFound, PlaceholderNoSource, PlaceholderSend,
     PlaceholderSendFails
<1>3. CASE ConnectStep
  BY <1>3 DEF ConnectStep, ConnectBegin, ControlOnly, ConnectStop, ConnectFirstFrame,
     ConnectNoFrame, ConnectSuccess, CanSeamlessHandoff, SessionUp, InitEncoderAndRtsp,
     StartPump, StartEncodeThread, ConnectFails
<1>4. CASE WatchStep
  BY <1>4 DEF WatchStep, WatchBegin, RequestEncodeStop, WatchDevice, Check, WatchEncodeFlag,
     WatchRtspFlag, WatchResolutionFlag, StreamingLiveness, StalledLiveness, StalledMissing,
     StalledProlonged
<1>5. CASE JoinedStep
  BY <1>5 DEF JoinedStep, JoinedTeardown, ReleaseStreaming, Joined, TeardownPump,
     TeardownOutput, JoinedDevice, JoinedReconnect, JoinedReconfigure, JoinedMissing,
     SessionUp, ProlongedRecovery
<1>6. CASE RepairStep
  BY <1>6 DEF RepairStep, RecoverDevice, TeardownStreaming, ReleaseStreaming, Joined,
     TeardownPump, TeardownOutput, Reconfigure, InitEncoderAndRtsp, StartPump,
     StartEncodeThread, ReconfigureFails, ReconnectBegin, Reconnect, ReconnectFails
<1>7. CASE EncodeStep
  BY <1>7 DEF EncodeStep, EncodeBegin, EncodeThreadOnly, EncodeTop, EncodeNoFrame,
     EncodeMoves, EncodePop, EncodeSkip, EncodeDue, Encode, EncodeFails
<1>8. CASE CaptureStep
  BY <1>8 DEF CaptureStep, CaptureStatic, CaptureOnly, CaptureFrame, RoomInQueue
<1>9. CASE TimeStep
  BY <1>9 DEF TimeStep, SourceAges, CaptureOnly, StallAges, ClockOnly, WaitExpires,
     CooldownEnds, ProbeFallsDue
<1>10. CASE EnvStep
  BY <1>10 DEF EnvStep, RequestStop, AppOnly, SenderChanges, EnvOnly, DeviceLost
<1>11. CASE MetricsExit
  BY <1>11 DEF MetricsExit, AppOnly
<1> QED BY <1>1, <1>2, <1>3, <1>4, <1>5, <1>6, <1>7, <1>8, <1>9, <1>10, <1>11 DEF Next,
   MainStep

-----------------------------------------------------------------------------
(* Attempts and back-off advance and reset together, and the attempt that exceeds
   the limit ends in FATAL. *)
LEMMA RetryPreserved == ASSUME IInv, Next PROVE RetryInv'
<1> USE Table, Limits DEF IInv, TypeOK, TypeCounters, ControlInv, RetryInv, Watching, Joins
<1>1. CASE RunStep
  BY <1>1 DEF RunStep, LoopEnter, ControlOnly, LoopExit, HandleStopping, JoinMetrics,
     HandleFatal
<1>2. CASE SearchStep
  BY <1>2 DEF SearchStep, HandleIdle, ControlOnly, ProbingStop, ProbingFound,
     ProbingMissing, StopWithoutThread, PlaceholderContinue, PlaceholderStart,
     PlaceholderStartFails, PlaceholderSourceFound, PlaceholderNoSource, PlaceholderSend,
     PlaceholderSendFails
<1>3. CASE ConnectStep
  <2>1. CASE ConnectBegin
    BY <2>1 DEF ConnectBegin, ControlOnly
  <2>2. CASE ConnectStop
    BY <2>2 DEF ConnectStop
  <2>3. CASE ConnectFirstFrame
    BY <2>3 DEF ConnectFirstFrame
  <2>4. CASE ConnectNoFrame
    BY <2>4 DEF ConnectNoFrame
  <2>5. ASSUME NEW res \in Resolutions, ConnectSuccess(res) PROVE RetryInv'
    BY <2>5 DEF ConnectSuccess, ResetRetries
  <2>6. ASSUME NEW res \in Resolutions, ConnectFails(res) PROVE RetryInv'
    BY <2>6 DEF ConnectFails
  <2> QED BY <1>3, <2>1, <2>2, <2>3, <2>4, <2>5, <2>6 DEF ConnectStep
<1>4. CASE WatchStep
  BY <1>4 DEF WatchStep, WatchBegin, RequestEncodeStop, WatchDevice, Check, WatchEncodeFlag,
     WatchRtspFlag, WatchResolutionFlag, StreamingLiveness, StalledLiveness, StalledMissing,
     StalledProlonged
<1>5. CASE JoinedStep
  BY <1>5 DEF JoinedStep, JoinedTeardown, JoinedDevice, JoinedReconnect, JoinedReconfigure,
     JoinedMissing, ProlongedRecovery
<1>6. CASE RepairStep
  <2>1. CASE RecoverDevice
    BY <2>1 DEF RecoverDevice
  <2>2. CASE Reconfigure
    BY <2>2 DEF Reconfigure
  <2>3. CASE ReconfigureFails
    BY <2>3 DEF ReconfigureFails
  <2>4. CASE ReconnectBegin
    BY <2>4 DEF ReconnectBegin, Exhausted
  <2>5. CASE Reconnect
    BY <2>5 DEF Reconnect, ResetRetries
  <2>6. CASE ReconnectFails
    BY <2>6 DEF ReconnectFails
  <2> QED BY <1>6, <2>1, <2>2, <2>3, <2>4, <2>5, <2>6 DEF RepairStep
<1>7. CASE EncodeStep
  BY <1>7 DEF EncodeStep, EncodeBegin, EncodeThreadOnly, EncodeTop, EncodeNoFrame,
     EncodeMoves, EncodePop, EncodeSkip, EncodeDue, Encode, EncodeFails
<1>8. CASE CaptureStep
  BY <1>8 DEF CaptureStep, CaptureStatic, CaptureOnly, CaptureFrame
<1>9. CASE TimeStep
  BY <1>9 DEF TimeStep, SourceAges, CaptureOnly, StallAges, ClockOnly, WaitExpires,
     CooldownEnds, ProbeFallsDue
<1>10. CASE EnvStep
  BY <1>10 DEF EnvStep, RequestStop, AppOnly, SenderChanges, EnvOnly, DeviceLost
<1>11. CASE MetricsExit
  BY <1>11 DEF MetricsExit, AppOnly
<1> QED BY <1>1, <1>2, <1>3, <1>4, <1>5, <1>6, <1>7, <1>8, <1>9, <1>10, <1>11 DEF Next,
   MainStep

-----------------------------------------------------------------------------
(* The count of stall recoveries grows by one per prolonged stall, and the recovery that
   would bring it to the limit resets it. *)
LEMMA WatchdogPreserved == ASSUME IInv, Next PROVE WatchdogInTime'
<1> USE SupervisorAssumption DEF IInv, TypeOK, TypeCounters, WatchdogInTime
<1>1. CASE RunStep
  BY <1>1 DEF RunStep, LoopEnter, ControlOnly, LoopExit, HandleStopping, JoinMetrics,
     HandleFatal
<1>2. CASE SearchStep
  BY <1>2 DEF SearchStep, HandleIdle, ControlOnly, ProbingStop, ProbingFound,
     ProbingMissing, StopWithoutThread, PlaceholderContinue, PlaceholderStart,
     PlaceholderStartFails, PlaceholderSourceFound, PlaceholderNoSource, PlaceholderSend,
     PlaceholderSendFails
<1>3. CASE ConnectStep
  BY <1>3 DEF ConnectStep, ConnectBegin, ControlOnly, ConnectStop, ConnectFirstFrame,
     ConnectNoFrame, ConnectSuccess, ResetRetries, ConnectFails
<1>4. CASE WatchStep
  BY <1>4 DEF WatchStep, WatchBegin, RequestEncodeStop, WatchDevice, Check, WatchEncodeFlag,
     WatchRtspFlag, WatchResolutionFlag, StreamingLiveness, StalledLiveness, StalledMissing,
     StalledProlonged
<1>5. CASE JoinedStep
  <2>1. CASE ProlongedRecovery
    <3>1. CASE ShouldForceSpoutRecovery(NextStallCount)
      BY <2>1, <3>1 DEF ProlongedRecovery
    <3>2. CASE ~ShouldForceSpoutRecovery(NextStallCount)
      BY <2>1, <3>2 DEF ProlongedRecovery, ShouldForceSpoutRecovery, NextStallCount
    <3> QED BY <3>1, <3>2
  <2> QED BY <1>5, <2>1 DEF JoinedStep, JoinedTeardown, JoinedDevice, JoinedReconnect,
     JoinedReconfigure, JoinedMissing
<1>6. CASE RepairStep
  BY <1>6 DEF RepairStep, RecoverDevice, Reconfigure, ReconfigureFails, ReconnectBegin,
     Reconnect, ResetRetries, ReconnectFails
<1>7. CASE EncodeStep
  BY <1>7 DEF EncodeStep, EncodeBegin, EncodeThreadOnly, EncodeTop, EncodeNoFrame,
     EncodeMoves, EncodePop, EncodeSkip, EncodeDue, Encode, EncodeFails
<1>8. CASE CaptureStep
  BY <1>8 DEF CaptureStep, CaptureStatic, CaptureOnly, CaptureFrame
<1>9. CASE TimeStep
  BY <1>9 DEF TimeStep, SourceAges, CaptureOnly, StallAges, ClockOnly, WaitExpires,
     CooldownEnds, ProbeFallsDue
<1>10. CASE EnvStep
  BY <1>10 DEF EnvStep, RequestStop, AppOnly, SenderChanges, EnvOnly, DeviceLost
<1>11. CASE MetricsExit
  BY <1>11 DEF MetricsExit, AppOnly
<1> QED BY <1>1, <1>2, <1>3, <1>4, <1>5, <1>6, <1>7, <1>8, <1>9, <1>10, <1>11 DEF Next,
   MainStep

-----------------------------------------------------------------------------
(* RECOVERING_DEVICE is entered by the device check alone, and only the recovery
   itself repairs the device. *)
LEMMA DevicePreserved == ASSUME IInv, Next PROVE DeviceInv'
<1> USE Table, ToStopping DEF IInv, TypeOK, TypePhases, ControlInv, DeviceInv, Watching, Joins
<1>1. CASE RunStep
  BY <1>1 DEF RunStep, LoopEnter, ControlOnly, LoopExit, HandleStopping, JoinMetrics,
     HandleFatal
<1>2. CASE SearchStep
  BY <1>2 DEF SearchStep, HandleIdle, ControlOnly, ProbingStop, ProbingFound,
     ProbingMissing, StopWithoutThread, PlaceholderContinue, PlaceholderStart,
     PlaceholderStartFails, PlaceholderSourceFound, PlaceholderNoSource, PlaceholderSend,
     PlaceholderSendFails
<1>3. CASE ConnectStep
  BY <1>3 DEF ConnectStep, ConnectBegin, ControlOnly, ConnectStop, ConnectFirstFrame,
     CanReceive, ConnectNoFrame, ConnectSuccess, ConnectFails
<1>4. CASE WatchStep
  BY <1>4 DEF WatchStep, WatchBegin, RequestEncodeStop, WatchDevice, Check, WatchEncodeFlag,
     WatchRtspFlag, WatchResolutionFlag, StreamingLiveness, StalledLiveness, StalledMissing,
     StalledProlonged
<1>5. CASE JoinedStep
  BY <1>5 DEF JoinedStep, JoinedTeardown, JoinedDevice, JoinedReconnect, JoinedReconfigure,
     JoinedMissing, ProlongedRecovery
<1>6. CASE RepairStep
  BY <1>6 DEF RepairStep, RecoverDevice, Reconfigure, ReconfigureFails, ReconnectBegin,
     Reconnect, ReconnectFails
<1>7. CASE EncodeStep
  BY <1>7 DEF EncodeStep, EncodeBegin, EncodeThreadOnly, EncodeTop, EncodeNoFrame,
     EncodeMoves, EncodePop, EncodeSkip, EncodeDue, Encode, EncodeFails
<1>8. CASE CaptureStep
  BY <1>8 DEF CaptureStep, CaptureStatic, CanReceive, CaptureOnly, CaptureFrame
<1>9. CASE TimeStep
  BY <1>9 DEF TimeStep, SourceAges, CaptureOnly, StallAges, ClockOnly, WaitExpires,
     CooldownEnds, ProbeFallsDue
<1>10. CASE EnvStep
  BY <1>10 DEF EnvStep, RequestStop, AppOnly, SenderChanges, EnvOnly, DeviceLost
<1>11. CASE MetricsExit
  BY <1>11 DEF MetricsExit, AppOnly
<1> QED BY <1>1, <1>2, <1>3, <1>4, <1>5, <1>6, <1>7, <1>8, <1>9, <1>10, <1>11 DEF Next,
   MainStep

-----------------------------------------------------------------------------
LEMMA InitEstablishes == Init => IInv
<1> SUFFICES ASSUME Init PROVE IInv
  OBVIOUS
<1>1. state = "IDLE" /\ pc = "loop"
  BY Table DEF Init
<1>2. TypeSwitches
  BY DEF Init, TypeSwitches
<1>3. TypePhases /\ TypeFlags
  BY <1>1 DEF Init, TypePhases, TypeFlags, PublisherState, MainPC
<1>4. TypeFrames /\ TypeCounters
  BY SupervisorAssumption, Limits DEF Init, TypeFrames, TypeCounters, MaybeRes
<1>5. ControlInv /\ ThreadInv /\ ResourceInv
  BY <1>1 DEF Init, ControlInv, ThreadInv, ResourceInv, Watching, Joins
<1>6. RetryInv /\ WatchdogInTime /\ DeviceInv
  BY <1>1, Limits, SupervisorAssumption DEF Init, RetryInv, WatchdogInTime, DeviceInv
<1> QED BY <1>2, <1>3, <1>4, <1>5, <1>6 DEF IInv, TypeOK

LEMMA StepPreserves == IInv /\ [Next]_vars => IInv'
<1>1. ASSUME IInv, Next PROVE IInv'
  BY <1>1, SwitchesPreserved, PhasesPreserved, FlagsPreserved, FramesPreserved, CountersPreserved, ControlPreserved, ThreadPreserved, ResourcesPreserved, RetryPreserved,
     WatchdogPreserved, DevicePreserved
     DEF IInv, TypeOK
<1>2. ASSUME IInv, UNCHANGED vars PROVE IInv'
  <2> USE DEF vars
  <2>1. TypeSwitches' /\ TypePhases' /\ TypeFlags'
    BY <1>2 DEF IInv, TypeOK, TypeSwitches, TypePhases, TypeFlags
  <2>2. TypeFrames' /\ TypeCounters'
    BY <1>2 DEF IInv, TypeOK, TypeFrames, TypeCounters
  <2>3. ControlInv' /\ ThreadInv' /\ ResourceInv'
    BY <1>2 DEF IInv, ControlInv, ThreadInv, ResourceInv, Watching
  <2>4. RetryInv' /\ WatchdogInTime' /\ DeviceInv'
    BY <1>2 DEF IInv, RetryInv, WatchdogInTime, DeviceInv
  <2> QED BY <2>1, <2>2, <2>3, <2>4 DEF IInv, TypeOK
<1> QED BY <1>1, <1>2

(* The invariant of the control: control points, threads, resources, retries, watchdog
   and device together (supervisor.cpp, all handlers). *)
THEOREM Inductive == Spec => []IInv
BY InitEstablishes, StepPreserves, PTL DEF Spec

(* Every variable keeps its type. *)
THEOREM TypeCorrect == Spec => []TypeOK
<1>1. IInv => TypeOK
  BY DEF IInv
<1> QED BY <1>1, Inductive, PTL

(* The encode thread never dereferences a pump, an encoder or an RTSP client that has
   been released: supervisor.cpp:861, :920, :936. *)
THEOREM ResourcesHeld == Spec => []EncodeThreadHasItsResources
<1>1. IInv => EncodeThreadHasItsResources
  BY DEF IInv, ResourceInv, EncodeThreadHasItsResources, EncAlive
<1> QED BY <1>1, Inductive, PTL

(* No RTSP outage starts with attempts or a delay left over from the one before. *)
THEOREM RetriesFresh == Spec => []RetryCountersFresh
<1>1. IInv => RetryCountersFresh
  BY DEF IInv, RetryInv, RetryCountersFresh
<1> QED BY <1>1, Inductive, PTL

(* Prolonged stalls never outnumber stalled_recovery_max_attempts. *)
THEOREM WatchdogWorks == Spec => []WatchdogInTime
<1>1. IInv => WatchdogInTime
  BY DEF IInv
<1> QED BY <1>1, Inductive, PTL

-----------------------------------------------------------------------------
(* The handover rule: while the encode thread runs and makes no step, nobody touches
   what it reads without a lock (supervisor.hpp's note on thread safety). *)
THEOREM HandoverRespected == Spec => OwnershipWhileRunning
<1>1. ASSUME IInv, Next, enc \in EncAlive, enc' = enc
      PROVE  UNCHANGED <<encoder, current, initial_frame, rtsp, freeze, pump>>
  <2> USE <1>1, Table DEF IInv, ControlInv, ThreadInv, Watching, Joins, EncAlive
  <2>1. CASE RunStep
    BY <2>1 DEF RunStep, LoopEnter, ControlOnly, LoopExit, HandleStopping, ReleaseStreaming,
       Joined, TeardownPump, TeardownOutput, JoinMetrics, HandleFatal, TeardownStreaming
  <2>2. CASE SearchStep
    BY <2>2 DEF SearchStep, HandleIdle, ControlOnly, ProbingStop, ProbingFound,
       ProbingMissing, StopWithoutThread, TeardownStreaming, ReleaseStreaming, Joined,
       TeardownPump, TeardownOutput, PlaceholderContinue, PlaceholderStart,
       CanSeamlessHandoff, SessionUp, InitEncoderAndRtsp, PlaceholderStartFails,
       PlaceholderSourceFound, PlaceholderNoSource, PlaceholderSend,
       PlaceholderSendFails
  <2>3. CASE ConnectStep
    BY <2>3 DEF ConnectStep, ConnectBegin, ControlOnly, ConnectStop, ConnectFirstFrame,
       ConnectNoFrame, ConnectSuccess, CanSeamlessHandoff, SessionUp, InitEncoderAndRtsp,
       StartPump, StartEncodeThread, ConnectFails
  <2>4. CASE WatchStep
    BY <2>4 DEF WatchStep, WatchBegin, RequestEncodeStop, WatchDevice, Check,
       WatchEncodeFlag, WatchRtspFlag, WatchResolutionFlag, StreamingLiveness,
       StalledLiveness, StalledMissing, StalledProlonged
  <2>5. CASE JoinedStep
    BY <2>5 DEF JoinedStep, JoinedTeardown, ReleaseStreaming, Joined, TeardownPump,
       TeardownOutput, JoinedDevice, JoinedReconnect, JoinedReconfigure, JoinedMissing,
       SessionUp, ProlongedRecovery
  <2>6. CASE RepairStep
    BY <2>6 DEF RepairStep, RecoverDevice, TeardownStreaming, ReleaseStreaming, Joined,
       TeardownPump, TeardownOutput, Reconfigure, InitEncoderAndRtsp, StartPump,
       StartEncodeThread, ReconfigureFails, ReconnectBegin, Reconnect, ReconnectFails
  <2>7. CASE EncodeStep
    BY <2>7 DEF EncodeStep, EncodeBegin, EncodeThreadOnly, EncodeTop, EncodeNoFrame,
       EncodeMoves, EncodePop, EncodeSkip, EncodeDue, Encode, EncodeFails
  <2>8. CASE CaptureStep
    BY <2>8 DEF CaptureStep, CaptureStatic, CaptureOnly, CaptureFrame
  <2>9. CASE TimeStep
    BY <2>9 DEF TimeStep, SourceAges, CaptureOnly, StallAges, ClockOnly, WaitExpires,
       CooldownEnds, ProbeFallsDue
  <2>10. CASE EnvStep
    BY <2>10 DEF EnvStep, RequestStop, AppOnly, SenderChanges, EnvOnly, DeviceLost
  <2>11. CASE MetricsExit
    BY <2>11 DEF MetricsExit, AppOnly
  <2> QED BY <1>1, <2>1, <2>2, <2>3, <2>4, <2>5, <2>6, <2>7, <2>8, <2>9, <2>10, <2>11 DEF
     Next, MainStep
<1>2. IInv /\ [Next]_vars =>
        [(enc \in EncAlive /\ enc' = enc) =>
            UNCHANGED <<encoder, current, initial_frame, rtsp, freeze, pump>>]_vars
  BY <1>1
<1> QED BY <1>2, Inductive, PTL DEF Spec, OwnershipWhileRunning

(* start_encode_thread() never assigns to a std::thread that is still joinable. *)
THEOREM StartedAfterJoin == Spec => StartOnlyAfterJoin
<1>1. ASSUME IInv, Next, enc' = "begin", enc # "begin" PROVE enc = "none"
  <2> USE <1>1, Table DEF IInv, ControlInv, ThreadInv, Watching, Joins
  <2>1. CASE RunStep
    BY <2>1 DEF RunStep, LoopEnter, ControlOnly, LoopExit, HandleStopping, ReleaseStreaming,
       Joined, JoinMetrics, HandleFatal, TeardownStreaming
  <2>2. CASE SearchStep
    BY <2>2 DEF SearchStep, HandleIdle, ControlOnly, ProbingStop, ProbingFound,
       ProbingMissing, StopWithoutThread, TeardownStreaming, ReleaseStreaming, Joined,
       PlaceholderContinue, PlaceholderStart, PlaceholderStartFails, PlaceholderSourceFound,
       PlaceholderNoSource, PlaceholderSend, PlaceholderSendFails
  <2>3. CASE ConnectStep
    BY <2>3 DEF ConnectStep, ConnectBegin, ControlOnly, ConnectStop, ConnectFirstFrame,
       ConnectNoFrame, ConnectSuccess, StartEncodeThread, ConnectFails
  <2>4. CASE WatchStep
    BY <2>4 DEF WatchStep, WatchBegin, RequestEncodeStop, WatchDevice, Check,
       WatchEncodeFlag, WatchRtspFlag, WatchResolutionFlag, StreamingLiveness,
       StalledLiveness, StalledMissing, StalledProlonged
  <2>5. CASE JoinedStep
    BY <2>5 DEF JoinedStep, JoinedTeardown, ReleaseStreaming, Joined, JoinedDevice,
       JoinedReconnect, JoinedReconfigure, JoinedMissing, ProlongedRecovery
  <2>6. CASE RepairStep
    BY <2>6 DEF RepairStep, RecoverDevice, TeardownStreaming, ReleaseStreaming, Joined,
       Reconfigure, StartEncodeThread, ReconfigureFails, ReconnectBegin, Reconnect,
       ReconnectFails
  <2>7. CASE EncodeStep
    BY <2>7 DEF EncodeStep, EncodeBegin, EncodeThreadOnly, EncodeTop, EncodeNoFrame,
       EncodeMoves, EncodePop, EncodeSkip, EncodeDue, Encode, EncodeFails
  <2>8. CASE CaptureStep
    BY <2>8 DEF CaptureStep, CaptureStatic, CaptureOnly, CaptureFrame
  <2>9. CASE TimeStep
    BY <2>9 DEF TimeStep, SourceAges, CaptureOnly, StallAges, ClockOnly, WaitExpires,
       CooldownEnds, ProbeFallsDue
  <2>10. CASE EnvStep
    BY <2>10 DEF EnvStep, RequestStop, AppOnly, SenderChanges, EnvOnly, DeviceLost
  <2>11. CASE MetricsExit
    BY <2>11 DEF MetricsExit, AppOnly
  <2> QED BY <1>1, <2>1, <2>2, <2>3, <2>4, <2>5, <2>6, <2>7, <2>8, <2>9, <2>10, <2>11 DEF
     Next, MainStep
<1>2. IInv /\ [Next]_vars => [enc' = "begin" /\ enc # "begin" => enc = "none"]_vars
  BY <1>1
<1> QED BY <1>2, Inductive, PTL DEF Spec, StartOnlyAfterJoin

(* FATAL is entered after exactly max_reconnect_attempts failed attempts, or with the
   device lost. *)
THEOREM FatalJustified == Spec => FatalOnlyWhenExhausted
<1> DEFINE Justified ==
      \/ state = "RECONNECTING_OUTPUT" /\ reconnect_attempts = MaxReconnectAttempts
      \/ state = "RECOVERING_DEVICE" /\ device_lost
<1>1. ASSUME IInv, Next, state # "FATAL", state' = "FATAL" PROVE Justified
  <2> USE <1>1, Table, ToStopping, Limits
      DEF IInv, TypeOK, TypePhases, TypeCounters, ControlInv, RetryInv, DeviceInv, Watching, Joins
  <2>1. CASE RunStep
    BY <2>1 DEF RunStep, LoopEnter, ControlOnly, LoopExit, HandleStopping, JoinMetrics,
       HandleFatal
  <2>2. CASE SearchStep
    BY <2>2 DEF SearchStep, HandleIdle, ControlOnly, ProbingStop, ProbingFound,
       ProbingMissing, StopWithoutThread, PlaceholderContinue, PlaceholderStart,
       PlaceholderStartFails, PlaceholderSourceFound, PlaceholderNoSource, PlaceholderSend,
       PlaceholderSendFails
  <2>3. CASE ConnectStep
    BY <2>3 DEF ConnectStep, ConnectBegin, ControlOnly, ConnectStop, ConnectFirstFrame,
       CanReceive, ConnectNoFrame, ConnectSuccess, ResetRetries, ConnectFails
  <2>4. CASE WatchStep
    BY <2>4 DEF WatchStep, WatchBegin, RequestEncodeStop, WatchDevice, Check,
       WatchEncodeFlag, WatchRtspFlag, WatchResolutionFlag, StreamingLiveness,
       StalledLiveness, StalledMissing, StalledProlonged
  <2>5. CASE JoinedStep
    BY <2>5 DEF JoinedStep, JoinedTeardown, JoinedDevice, JoinedReconnect,
       JoinedReconfigure, JoinedMissing, ProlongedRecovery
  <2>6. CASE RepairStep
    BY <2>6 DEF RepairStep, Exhausted, RecoverDevice, Reconfigure, ReconfigureFails, ReconnectBegin,
       Reconnect, ResetRetries, ReconnectFails
  <2>7. CASE EncodeStep
    BY <2>7 DEF EncodeStep, EncodeBegin, EncodeThreadOnly, EncodeTop, EncodeNoFrame,
       EncodeMoves, EncodePop, EncodeSkip, EncodeDue, Encode, EncodeFails
  <2>8. CASE CaptureStep
    BY <2>8 DEF CaptureStep, CaptureStatic, CanReceive, CaptureOnly, CaptureFrame
  <2>9. CASE TimeStep
    BY <2>9 DEF TimeStep, SourceAges, CaptureOnly, StallAges, ClockOnly, WaitExpires,
       CooldownEnds, ProbeFallsDue
  <2>10. CASE EnvStep
    BY <2>10 DEF EnvStep, RequestStop, AppOnly, SenderChanges, EnvOnly, DeviceLost
  <2>11. CASE MetricsExit
    BY <2>11 DEF MetricsExit, AppOnly
  <2> QED BY <1>1, <2>1, <2>2, <2>3, <2>4, <2>5, <2>6, <2>7, <2>8, <2>9, <2>10, <2>11 DEF
     Next, MainStep
<1>2. IInv /\ [Next]_vars => [state # "FATAL" /\ state' = "FATAL" => Justified]_vars
  BY <1>1
<1> QED BY <1>2, Inductive, PTL DEF Spec, FatalOnlyWhenExhausted
=============================================================================
