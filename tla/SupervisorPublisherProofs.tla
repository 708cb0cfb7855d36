---------------------- MODULE SupervisorPublisherProofs ----------------------
(***************************************************************************)
(* Supervisor implements Publisher.  The invariants of SupervisorProofs    *)
(* and SupervisorSessionProofs say where each thread is when a handler     *)
(* touches the output; PublishInv adds that whoever publishes has a        *)
(* session.                                                                *)
(***************************************************************************)
EXTENDS SupervisorSessionProofs

USE DEF mainVars, encVars, flagVars, threadVars, frameVars, outVars, pumpVars, streamVars,
   retryVars, holdVars, waitVars, noteVars, envVars, worldVars, Goto, Leave, At, Handles

(* No handler gives the session up before it has joined the encode thread, and none starts
   the thread or the placeholder before the session is up. *)
LEMMA PublishPreserved == ASSUME SInv, PublishInv, Next PROVE PublishInv'
<1> USE Table, ToStopping DEF SInv, IInv, TypeOK, TypePhases, ControlInv, Watching, Joins,
    EncAlive, ThreadInv, PlaceholderInv, PublishInv
<1>1. CASE RunStep
  BY <1>1 DEF RunStep, LoopEnter, ControlOnly, LoopExit, HandleStopping, ReleaseStreaming,
     Joined, TeardownPump, TeardownOutput, JoinMetrics, HandleFatal, TeardownStreaming
<1>2. CASE SearchStep
  BY <1>2 DEF SearchStep, HandleIdle, ControlOnly, ProbingStop, ProbingFound, ProbingMissing,
     StopWithoutThread, TeardownStreaming, ReleaseStreaming, Joined, TeardownPump,
     TeardownOutput, PlaceholderContinue, PlaceholderStart, CanSeamlessHandoff, SessionUp,
     InitEncoderAndRtsp, PlaceholderStartFails, PlaceholderSourceFound,
     PlaceholderNoSource, PlaceholderSend, PlaceholderSendFails
<1>3. CASE ConnectStep
  BY <1>3 DEF ConnectStep, ConnectBegin, ControlOnly, ConnectStop, ConnectFirstFrame,
     ConnectNoFrame, ConnectSuccess, CanSeamlessHandoff, SessionUp, InitEncoderAndRtsp,
     StartPump, StartEncodeThread, ConnectFails
<1>4. CASE WatchStep
  BY <1>4 DEF WatchStep, WatchBegin, RequestEncodeStop, WatchDevice, Check, WatchEncodeFlag,
     WatchRtspFlag, WatchResolutionFlag, StreamingLiveness, StalledLiveness, StalledMissing,
     StalledProlonged
<1>5. CASE JoinedStep
  BY <1>5 DEF JoinedStep, JoinedTeardown, ReleaseStreaming, Joined, TeardownPump,
     TeardownOutput, JoinedDevice, JoinedReconnect, JoinedReconfigure, JoinedMissing, SessionUp,
     ProlongedRecovery
<1>6. CASE RepairStep
  BY <1>6 DEF RepairStep, RecoverDevice, TeardownStreaming, ReleaseStreaming, Joined,
     TeardownPump, TeardownOutput, Reconfigure, InitEncoderAndRtsp, StartPump,
     StartEncodeThread, ReconfigureFails, ReconnectBegin, Reconnect, ReconnectFails
<1>7. CASE EncodeStep
  BY <1>7 DEF EncodeStep, EncodeBegin, EncodeThreadOnly, EncodeTop, EncodeNoFrame, EncodeMoves,
     EncodePop, EncodeSkip, EncodeDue, Encode, EncodeFails
<1>8. CASE Others
  BY <1>8, OthersLeave DEF OwnedVars
<1> QED BY <1>1, <1>2, <1>3, <1>4, <1>5, <1>6, <1>7, <1>8, Steps

(* Every step of the four threads is a step of Publisher, or one that nobody outside sees. *)
LEMMA PublishStep ==
  ASSUME SInv, PublishInv, Next PROVE [Publishing!PublisherNext]_(Publishing!publisherVars)
<1> USE Table, ToStopping DEF SInv, IInv, TypeOK, TypePhases, ControlInv, Watching, Joins,
    EncAlive, ThreadInv, PlaceholderInv, PublishInv, ResourceInv, ReleaseInv, PublishedBy,
    Publishing!PublisherNext, Publishing!publisherVars, Publishing!Search, Publishing!Keep,
    Publishing!Open, Publishing!Close, Publishing!StartPlaceholder, Publishing!StartSource,
    Publishing!StartFails, Publishing!PlaceholderEnds, Publishing!Stall, Publishing!Streaming,
    Publishing!SourceEnds, Publishing!LeaveStream, Publishing!Recover, Publishing!GiveUp,
    Publishing!Stop, Publishing!Finish
<1>1. CASE RunStep
  BY <1>1 DEF RunStep, LoopEnter, ControlOnly, LoopExit, HandleStopping, ReleaseStreaming,
     Joined, TeardownPump, TeardownOutput, JoinMetrics, HandleFatal, TeardownStreaming
<1>2. CASE SearchStep
  <2>1. CASE HandleIdle \/ ProbingStop \/ ProbingFound \/ ProbingMissing \/ StopWithoutThread
    BY <2>1 DEF HandleIdle, ControlOnly, ProbingStop, ProbingFound, ProbingMissing,
       StopWithoutThread, TeardownStreaming, ReleaseStreaming, Joined, TeardownOutput
  <2>2. CASE PlaceholderContinue \/ PlaceholderNoSource \/ PlaceholderSend
    BY <2>2 DEF PlaceholderContinue, PlaceholderNoSource, PlaceholderSend, ControlOnly
  <2>3. CASE PlaceholderStart
    BY <2>3, SupervisorAssumption DEF PlaceholderStart, PlaceholderSize, CanSeamlessHandoff,
       SessionUp, InitEncoderAndRtsp, TypeFrames, MaybeRes
  <2>4. CASE PlaceholderStartFails
    BY <2>4 DEF PlaceholderStartFails, TeardownOutput
  <2>5. CASE PlaceholderSourceFound
    BY <2>5 DEF PlaceholderSourceFound, SessionUp
  <2>6. CASE PlaceholderSendFails
    BY <2>6 DEF PlaceholderSendFails, TeardownOutput
  <2> QED BY <1>2, <2>1, <2>2, <2>3, <2>4, <2>5, <2>6 DEF SearchStep
<1>3. CASE ConnectStep
  <2>1. CASE ConnectBegin \/ ConnectStop \/ ConnectFirstFrame \/ ConnectNoFrame
    BY <2>1 DEF ConnectBegin, ControlOnly, ConnectStop, ConnectFirstFrame, ConnectNoFrame
  <2>2. ASSUME NEW res \in Resolutions, ConnectSuccess(res)
        PROVE  [Publishing!PublisherNext]_(Publishing!publisherVars)
    BY <2>2, SupervisorAssumption DEF ConnectSuccess, CanSeamlessHandoff, SessionUp,
       InitEncoderAndRtsp, StartEncodeThread
  <2>3. ASSUME NEW res \in Resolutions, ConnectFails(res)
        PROVE  [Publishing!PublisherNext]_(Publishing!publisherVars)
    BY <2>3 DEF ConnectFails
  <2> QED BY <1>3, <2>1, <2>2, <2>3 DEF ConnectStep
<1>4. CASE WatchStep
  BY <1>4 DEF WatchStep, WatchBegin, RequestEncodeStop, WatchDevice, Check, WatchEncodeFlag,
     WatchRtspFlag, WatchResolutionFlag, StreamingLiveness, StalledLiveness, StalledMissing,
     StalledProlonged
<1>5. CASE JoinedStep
  BY <1>5 DEF JoinedStep, JoinedTeardown, ReleaseStreaming, Joined, TeardownPump,
     TeardownOutput, JoinedDevice, JoinedReconnect, JoinedReconfigure, JoinedMissing, SessionUp,
     ProlongedRecovery
<1>6. CASE RepairStep
  BY <1>6 DEF RepairStep, RecoverDevice, TeardownStreaming, ReleaseStreaming, Joined,
     TeardownPump, TeardownOutput, Reconfigure, InitEncoderAndRtsp, StartPump,
     StartEncodeThread, ReconfigureFails, ReconnectBegin, Reconnect, ReconnectFails
<1>7. CASE EncodeStep
  BY <1>7 DEF EncodeStep, EncodeBegin, EncodeThreadOnly, EncodeTop, EncodeNoFrame, EncodeMoves,
     EncodePop, EncodeSkip, EncodeDue, Encode, EncodeFails
<1>8. CASE Others
  BY <1>8, OthersLeave DEF OwnedVars
<1> QED BY <1>1, <1>2, <1>3, <1>4, <1>5, <1>6, <1>7, <1>8, Steps

-----------------------------------------------------------------------------
(* For every configuration, interleaving and failure, what the main thread and the encode
   thread do to the output is what Publisher allows. *)
THEOREM SupervisorIsPublisher == Spec => ImplementsPublisher
<1>1. Init => PublishInv /\ Publishing!PublisherInit
  BY Table DEF Init, PublishInv, PublishedBy, EncAlive, Publishing!PublisherInit
<1>2. SInv /\ PublishInv /\ [Next]_vars => PublishInv'
  BY PublishPreserved DEF vars, PublishInv
<1>3. SInv /\ PublishInv /\ [Next]_vars => [Publishing!PublisherNext]_(Publishing!publisherVars)
  BY PublishStep DEF vars, PublishedBy, Publishing!publisherVars
<1> QED BY <1>1, <1>2, <1>3, SessionInductive, PTL
        DEF Spec, ImplementsPublisher, Publishing!PublisherSpec

(* What Publisher says of its reachable states, said of the Supervisor *)
THEOREM PublishedInTurns == Spec => []Publishing!OutputFollowsState
<1>1. Publishing!PublisherInv => Publishing!OutputFollowsState
  BY DEF Publishing!PublisherInv
<1> QED BY <1>1, SupervisorIsPublisher, Publishing!PublisherSafe, PTL DEF ImplementsPublisher
=============================================================================
