----------------------- MODULE MediaPathPublisherProofs -----------------------
(***************************************************************************)
(* MediaPath implements Publisher.  An output is whole when the encoder    *)
(* has its codec context and the client is connected; the lemmas of        *)
(* MediaPathProofs say what the operations leave of either.                *)
(***************************************************************************)
EXTENDS MediaPathProofs

USE DEF threadVars, pumpVars, holdVars, envVars, Leave

(* What a step must do *)
Implements ==
  PublishInv' /\ [Publishing!PublisherNext]_(Publishing!publisherVars)

-----------------------------------------------------------------------------
(* What the operations make of the output *)

(* Torn down, both are gone. *)
LEMMA OutputAbsent ==
  ASSUME encoder' = Encoder!NoEncoder, rtsp' = Rtsp!NoClient
  PROVE  ~Encoder!Ready(encoder)' /\ Session' = "none" /\ ~rtsp'.exists
BY DEF Encoder!Ready, Encoder!NoEncoder, Session, Rtsp!NoClient

(* What init_encoder_and_rtsp() has built is whole. *)
LEMMA OutputBuilt ==
  ASSUME MediaInv, NEW m, NEW built \in Built(m), InitSucceeds(built)
  PROVE  Encoder!Ready(encoder)' /\ encoder'.exists /\ Rtsp!Up(rtsp)' /\ Session' = "connected"
<1>1. Sound
  BY InvParts
<1>2. built.r.connected /\ built.r \in Rtsp!Connected(rtsp)
  BY DEF Built
<1>3. built.r.exists
  BY <1>1, <1>2, ClientConnected DEF Sound
<1>4. Encoder!Ready(built.e) /\ built.e.exists
  BY <1>1, BuiltWell DEF Fresh
<1> QED BY <1>2, <1>3, <1>4 DEF InitSucceeds, Rtsp!Up, Session

(* encode() and request_next_idr() keep the encoder. *)
LEMMA EncoderKept ==
  ASSUME NEW n, NEW e, Same(n, e)
  PROVE  (Encoder!Ready(n) <=> Encoder!Ready(e)) /\ n.exists = e.exists
BY DEF Same, Encoder!Ready

(* send_packet() keeps the session if it succeeds, and may break it otherwise. *)
LEMMA SessionKept ==
  ASSUME NEW r, SoundClient(r), NEW p \in {"placeholder", "source"}, NEW s \in Rtsp!Send(r, p)
  PROVE  s.r.exists = r.exists /\ (s.ok => s.r.connected = r.connected)
<1>1. \/ s = [ok |-> FALSE, r |-> r]
      \/ s = [ok |-> TRUE, r |-> [r EXCEPT !.last = p]]
      \/ s = [ok |-> FALSE, r |-> [r EXCEPT !.connected = FALSE]]
  BY Zenon DEF Rtsp!Send
<1> QED BY <1>1 DEF SoundClient, Rtsp!Clients

(* Who publishes in which states, and the session as the abstract module sees it *)
LEMMA Publishers ==
  ASSUME MediaInv
  PROVE  /\ state \notin {"STREAMING", "STALLED", "PLACEHOLDER"} => PublishedBy = "nobody"
         /\ Session = "connected" <=> Rtsp!Up(rtsp)
         /\ Session = "none" <=> ~rtsp.exists
         /\ Session \in {"none", "connected", "broken"}
BY InvParts DEF Related, WorkersInv, Watching, PublishedBy, Session, Rtsp!Up

-----------------------------------------------------------------------------
(* handle_idle(), handle_probing(): nothing of the output is touched. *)
LEMMA SearchImplements ==
  ASSUME MediaInv, PublishInv, StartProbing \/ ProbingFound \/ ProbingMissing PROVE Implements
<1>1. state \in {"IDLE", "PROBING"} /\ thread = "none" /\ placeholder = "off"
  BY AtRest DEF StartProbing, ProbingFound, ProbingMissing
<1>2. UNCHANGED <<encoder, rtsp, thread, placeholder>>
      /\ \/ state = "IDLE" /\ state' = "PROBING"
         \/ state = "PROBING" /\ state' \in {"CONNECTING_OUTPUT", "PLACEHOLDER"}
  BY Moves DEF StartProbing, ProbingFound, ProbingMissing
<1>3. PublishedBy = "nobody" /\ PublishedBy' = "nobody" /\ UNCHANGED Session
  BY <1>1, <1>2 DEF PublishedBy, Session
<1>4. PublishInv'
  BY <1>2, <1>3 DEF PublishInv
<1>5. Publishing!Search
  BY <1>2, <1>3 DEF Publishing!Search, Publishing!Keep
<1> QED BY <1>4, <1>5 DEF Implements, Publishing!PublisherNext

(* handle_placeholder(): a whole output is opened or taken over, and left whole. *)
LEMMA PlaceholderImplements ==
  ASSUME MediaInv, PublishInv, PlaceholderStart \/ PlaceholderStartFails \/ PlaceholderSourceFound
  PROVE  Implements
<1>1. Sound /\ Related /\ Typed /\ state = "PLACEHOLDER" /\ thread = "none"
  BY InvParts, AtRest DEF PlaceholderStart, PlaceholderStartFails, PlaceholderSourceFound
<1>2. CASE PlaceholderStart
  <2>1. placeholder' = "fresh" /\ state' = "PLACEHOLDER" /\ thread' = "none" /\ placeholder = "off"
    BY <1>1, <1>2 DEF PlaceholderStart
  <2>2. Encoder!Ready(encoder)' /\ encoder'.exists /\ Rtsp!Up(rtsp)' /\ Session' = "connected"
    <3>1. CASE CanSeamlessHandoff
      <4>1. encoder' = Encoder!RequestNextIdr(encoder) /\ UNCHANGED rtsp
        BY <1>2, <3>1 DEF PlaceholderStart
      <4>2. Encoder!Ready(encoder) /\ encoder.exists /\ Rtsp!Up(rtsp)
        BY <1>1, <3>1 DEF CanSeamlessHandoff, SessionUp, Related, SessionFitsEncoder
      <4>3. Same(encoder', encoder)
        BY <1>1, <4>1, IdrRequested, Zenon DEF Sound
      <4> QED BY <4>1, <4>2, <4>3, EncoderKept DEF Session, Rtsp!Up
    <3>2. CASE ~CanSeamlessHandoff
      BY <1>2, <3>2, OutputBuilt DEF PlaceholderStart
    <3> QED BY <3>1, <3>2
  <2>3. PublishedBy = "nobody" /\ PublishedBy' = "placeholder"
    BY <1>1, <2>1 DEF PublishedBy
  <2>4. PublishInv'
    BY <2>1, <2>2 DEF PublishInv
  <2>5. Publishing!StartPlaceholder
    BY <1>1, <2>1, <2>2, <2>3 DEF Publishing!StartPlaceholder, Publishing!Open
  <2> QED BY <2>4, <2>5 DEF Implements, Publishing!PublisherNext
<1>3. CASE PlaceholderStartFails
  <2>1. placeholder = "off" /\ UNCHANGED <<state, thread, placeholder>>
    BY <1>3 DEF PlaceholderStartFails
  <2>2. encoder' = Encoder!NoEncoder /\ rtsp' = Rtsp!NoClient
    BY <1>1, <1>3, BuiltNothing DEF PlaceholderStartFails
  <2>3. PublishedBy = "nobody" /\ PublishedBy' = "nobody"
    BY <1>1, <2>1 DEF PublishedBy
  <2>4. PublishInv'
    BY <1>1, <2>1, <2>3 DEF PublishInv
  <2>5. Publishing!StartFails
    BY <1>1, <2>1, <2>2, <2>3, OutputAbsent DEF Publishing!StartFails, Publishing!Close
  <2> QED BY <2>4, <2>5 DEF Implements, Publishing!PublisherNext
<1>4. CASE PlaceholderSourceFound
  <2>1. /\ placeholder # "off" /\ placeholder' = "off"
        /\ state' = "CONNECTING_OUTPUT" /\ thread' = "none"
    BY <1>1, <1>4, Moves DEF PlaceholderSourceFound
  <2>2. PublishedBy = "placeholder" /\ PublishedBy' = "nobody"
    BY <1>1, <2>1 DEF PublishedBy
  <2>3. SessionUp
    BY <2>2 DEF PublishInv, SessionUp
  <2>4. UNCHANGED <<encoder, rtsp>> /\ UNCHANGED Session
    BY <1>4, <2>3 DEF PlaceholderSourceFound, Session
  <2>5. PublishInv'
    BY <2>1, <2>2 DEF PublishInv
  <2>6. Publishing!PlaceholderEnds
    BY <1>1, <2>1, <2>2, <2>4 DEF Publishing!PlaceholderEnds, Publishing!Keep
  <2> QED BY <2>5, <2>6 DEF Implements, Publishing!PublisherNext
<1> QED BY <1>2, <1>3, <1>4

(* A still frame that is not sent ends the placeholder and releases all of the output. *)
LEMMA PlaceholderSendImplements == ASSUME MediaInv, PublishInv, PlaceholderSend PROVE Implements
<1>1. Sound /\ Typed /\ state = "PLACEHOLDER" /\ thread = "none" /\ placeholder # "off"
      /\ UNCHANGED <<state, thread>>
  BY InvParts, AtRest DEF PlaceholderSend
<1>2. PublishedBy = "placeholder"
  BY <1>1 DEF PublishedBy
<1>3. Encoder!Ready(encoder) /\ encoder.exists /\ Rtsp!Up(rtsp)
  BY <1>2 DEF PublishInv
<1>4. PICK o \in Encoder!Encode(encoder, "placeholder", placeholder = "fresh", device_lost) :
        \E s \in IF o.ok THEN Rtsp!Send(rtsp, "placeholder") ELSE {[ok |-> FALSE, r |-> rtsp]} :
          StillSent(o, s)
  BY Zenon DEF PlaceholderSend, StillSent
<1>5. PICK s \in IF o.ok THEN Rtsp!Send(rtsp, "placeholder") ELSE {[ok |-> FALSE, r |-> rtsp]} :
        StillSent(o, s)
  BY <1>4, Zenon
<1>6. SoundEncoder(o.e) /\ Same(o.e, encoder) /\ o.ok \in BOOLEAN
  BY <1>1, FrameEncoded DEF Sound, Typed
<1>7. /\ SoundClient(s.r) /\ s.ok \in BOOLEAN
      /\ s.ok => s.r.exists = rtsp.exists /\ s.r.connected = rtsp.connected
  <2>1. CASE o.ok
    BY <1>1, <1>5, <2>1, PacketSent, SessionKept DEF Sound
  <2>2. CASE ~o.ok
    <3>1. s = [ok |-> FALSE, r |-> rtsp]
      BY <1>5, <2>2
    <3> QED BY <1>1, <3>1 DEF Sound
  <2> QED BY <2>1, <2>2, <1>6
<1>8. CASE s.ok
  <2>1. encoder' = o.e /\ rtsp' = s.r /\ placeholder' = "repeat"
    BY <1>5, <1>8 DEF StillSent
  <2>2. Encoder!Ready(encoder)' /\ encoder'.exists /\ Rtsp!Up(rtsp)'
    BY <1>3, <1>6, <1>7, <1>8, <2>1, EncoderKept DEF Rtsp!Up
  <2>3. PublishedBy' = "placeholder" /\ UNCHANGED Session
    BY <1>1, <1>7, <1>8, <2>1 DEF PublishedBy, Session
  <2>4. PublishInv'
    BY <1>1, <2>2 DEF PublishInv
  <2>5. UNCHANGED Publishing!publisherVars
    BY <1>1, <1>2, <1>3, <2>2, <2>3 DEF Publishing!publisherVars, Encoder!Ready
  <2> QED BY <2>4, <2>5 DEF Implements
<1>9. CASE ~s.ok
  <2>1. encoder' = Encoder!NoEncoder /\ rtsp' = Rtsp!NoClient /\ placeholder' = "off"
    BY <1>5, <1>6, <1>7, <1>9, EncoderDestroyed, ClientDestroyed DEF StillSent
  <2>2. PublishedBy' = "nobody"
    BY <1>1, <2>1 DEF PublishedBy
  <2>3. PublishInv'
    BY <1>1, <2>2 DEF PublishInv
  <2>4. Publishing!PlaceholderEnds
    BY <1>1, <1>2, <2>1, <2>2, OutputAbsent DEF Publishing!PlaceholderEnds, Publishing!Close
  <2> QED BY <2>3, <2>4 DEF Implements, Publishing!PublisherNext
<1> QED BY <1>7, <1>8, <1>9

(* handle_connecting_output(): the source starts on a whole output, or none is left. *)
LEMMA ConnectImplements ==
  ASSUME MediaInv, PublishInv, ConnectNoFrame \/ ConnectSeamless \/ ConnectAnew \/ ConnectFails
  PROVE  Implements
<1>1. Sound /\ Related /\ Typed /\ state = "CONNECTING_OUTPUT" /\ thread = "none"
      /\ placeholder = "off" /\ placeholder' = "off"
  BY InvParts, AtRest, NotShown DEF ConnectNoFrame, ConnectSeamless, ConnectAnew, ConnectFails
<1>2. PublishedBy = "nobody"
  BY <1>1 DEF PublishedBy
<1>3. CASE ConnectNoFrame
  <2>1. UNCHANGED <<encoder, rtsp, thread>> /\ state' \in {"CONNECTING_OUTPUT", "PROBING"}
    BY <1>1, <1>3, Moves DEF ConnectNoFrame
  <2>2. PublishedBy' = "nobody" /\ UNCHANGED Session
    BY <1>1, <2>1 DEF PublishedBy, Session
  <2>3. PublishInv'
    BY <2>1, <2>2 DEF PublishInv
  <2>4. Publishing!Search \/ UNCHANGED Publishing!publisherVars
    BY <1>1, <1>2, <2>1, <2>2 DEF Publishing!Search, Publishing!Keep, Publishing!publisherVars
  <2> QED BY <2>3, <2>4 DEF Implements, Publishing!PublisherNext
<1>4. CASE ConnectSeamless \/ ConnectAnew
  <2>1. state' = "STREAMING" /\ thread' = "running"
    BY <1>1, <1>4, Moves DEF ConnectSeamless, ConnectAnew, StartThread
  <2>2. Encoder!Ready(encoder)' /\ encoder'.exists /\ Rtsp!Up(rtsp)' /\ Session' = "connected"
    <3>1. CASE ConnectSeamless
      <4>1. encoder' = Encoder!RequestNextIdr(encoder) /\ UNCHANGED rtsp
        BY <3>1 DEF ConnectSeamless
      <4>2. Encoder!Ready(encoder) /\ encoder.exists /\ Rtsp!Up(rtsp)
        BY <1>1, <3>1
           DEF ConnectSeamless, CanSeamlessHandoff, SessionUp, Related, SessionFitsEncoder
      <4>3. Same(encoder', encoder)
        BY <1>1, <4>1, IdrRequested, Zenon DEF Sound
      <4> QED BY <4>1, <4>2, <4>3, EncoderKept DEF Session, Rtsp!Up
    <3>2. CASE ConnectAnew
      BY <3>2, OutputBuilt DEF ConnectAnew
    <3> QED BY <1>4, <3>1, <3>2
  <2>3. PublishedBy' = "source"
    BY <2>1 DEF PublishedBy
  <2>4. PublishInv'
    BY <2>1, <2>2 DEF PublishInv
  <2>5. Publishing!StartSource
    BY <1>1, <1>2, <2>1, <2>2, <2>3 DEF Publishing!StartSource, Publishing!Open
  <2> QED BY <2>4, <2>5 DEF Implements, Publishing!PublisherNext
<1>5. CASE ConnectFails
  <2>1. state' = "PROBING" /\ thread' = "none"
    BY <1>1, <1>5, Moves DEF ConnectFails
  <2>2. encoder' = Encoder!NoEncoder /\ rtsp' = Rtsp!NoClient
    BY <1>1, <1>5, BuiltNothing DEF ConnectFails
  <2>3. PublishedBy' = "nobody"
    BY <1>1, <2>1 DEF PublishedBy
  <2>4. PublishInv'
    BY <2>1, <2>3 DEF PublishInv
  <2>5. Publishing!StartFails
    BY <1>1, <1>2, <2>1, <2>2, <2>3, OutputAbsent DEF Publishing!StartFails, Publishing!Close
  <2> QED BY <2>4, <2>5 DEF Implements, Publishing!PublisherNext
<1> QED BY <1>3, <1>4, <1>5

-----------------------------------------------------------------------------
(* handle_streaming(), handle_stalled() *)

(* What a step that leaves a stream has in common: nobody publishes any more. *)
LEMMA StreamLeft ==
  ASSUME MediaInv, state \in {"STREAMING", "STALLED"}, thread' = "none", placeholder' = "off",
         state' # "INIT",
         \/ /\ state' \in {"IDLE", "PROBING"}
            /\ encoder' = Encoder!NoEncoder /\ rtsp' = Rtsp!NoClient
         \/ /\ state' \in {"PLACEHOLDER", "RECONFIGURING", "RECOVERING_DEVICE"}
            /\ UNCHANGED <<encoder, rtsp>>
         \/ state' = "RECONNECTING_OUTPUT" /\ rtsp' = Rtsp!NoClient /\ UNCHANGED encoder
  PROVE  Implements
<1>1. PublishedBy' = "nobody"
  BY DEF PublishedBy
<1>2. state' = "RECONNECTING_OUTPUT" => ~rtsp'.exists /\ Session' = "none"
  BY DEF Rtsp!NoClient, Session
<1>3. PublishInv'
  BY <1>1, <1>2 DEF PublishInv
<1>4. Publishing!LeaveStream
  <2>1. CASE state' \in {"IDLE", "PROBING"}
    BY <1>1, <2>1, OutputAbsent DEF Publishing!LeaveStream, Publishing!Streaming, Publishing!Close
  <2>2. CASE state' \in {"PLACEHOLDER", "RECONFIGURING", "RECOVERING_DEVICE"}
    BY <1>1, <2>2 DEF Publishing!LeaveStream, Publishing!Streaming, Publishing!Keep, Session
  <2>3. CASE state' = "RECONNECTING_OUTPUT"
    BY <1>1, <1>2, <2>3 DEF Publishing!LeaveStream, Publishing!Streaming
  <2> QED BY <2>1, <2>2, <2>3
<1> QED BY <1>3, <1>4 DEF Implements, Publishing!PublisherNext

(* Every check that leaves a stream has joined the encode thread first. *)
LEMMA WatchImplements ==
  ASSUME MediaInv, PublishInv, WatchStep PROVE Implements
<1>1. /\ Sound /\ Typed /\ state \in {"STREAMING", "STALLED"}
      /\ placeholder = "off" /\ placeholder' = "off"
  BY InvParts, NotShown
     DEF WatchStep, StallOrRecover, DeviceLostSeen, EncodeErrorSeen, ResolutionChangeSeen,
         ReconnectNeeded, WatchdogFires, SenderMissing, Watching, StallLasts
<1>2. CASE StallOrRecover
  <2>1. UNCHANGED <<encoder, rtsp, thread>> /\ state' \in {"STREAMING", "STALLED"}
    BY <1>2, Moves DEF StallOrRecover
  <2>2. UNCHANGED <<PublishedBy, Session>>
    BY <1>1, <2>1 DEF PublishedBy, Session
  <2>3. PublishInv'
    BY <2>1, <2>2 DEF PublishInv
  <2>4. Publishing!Stall
    BY <1>1, <2>1, <2>2 DEF Publishing!Stall, Publishing!Streaming, Publishing!Keep
  <2> QED BY <2>3, <2>4 DEF Implements, Publishing!PublisherNext
<1>3. CASE DeviceLostSeen
  BY <1>1, <1>3, Moves, StreamLeft DEF DeviceLostSeen, ThreadGone
<1>4. CASE ResolutionChangeSeen
  BY <1>1, <1>4, Moves, StreamLeft DEF ResolutionChangeSeen, ThreadGone
<1>5. CASE EncodeErrorSeen
  <2>1. encoder' = Encoder!NoEncoder /\ rtsp' = Rtsp!NoClient
    BY <1>1, <1>5, EncoderDestroyed, ClientDestroyed
       DEF EncodeErrorSeen, TeardownStreaming, TeardownOutput, TeardownRtsp, TeardownEncoder, Sound
  <2> QED BY <1>1, <1>5, <2>1, Moves, StreamLeft DEF EncodeErrorSeen, TeardownStreaming, ThreadGone
<1>6. CASE ReconnectNeeded
  <2>1. rtsp' = Rtsp!NoClient /\ UNCHANGED encoder
    BY <1>1, <1>6, ClientDestroyed DEF ReconnectNeeded, TeardownRtsp, Sound
  <2> QED BY <1>1, <1>6, <2>1, Moves, StreamLeft DEF ReconnectNeeded, ThreadGone
<1>7. CASE WatchdogFires
  <2>1. encoder' = Encoder!NoEncoder /\ rtsp' = Rtsp!NoClient
    BY <1>1, <1>7, EncoderDestroyed, ClientDestroyed
       DEF WatchdogFires, TeardownOutput, TeardownRtsp, TeardownEncoder, Sound
  <2> QED BY <1>1, <1>7, <2>1, Moves, StreamLeft DEF WatchdogFires, StallLasts, ThreadGone
<1>8. CASE SenderMissing
  <2>1. CASE PlaceholderEnabled
    BY <1>1, <1>8, <2>1, Moves, StreamLeft DEF SenderMissing, ThreadGone
  <2>2. CASE ~PlaceholderEnabled
    <3>1. encoder' = Encoder!NoEncoder /\ rtsp' = Rtsp!NoClient
      BY <1>1, <1>8, <2>2, EncoderDestroyed, ClientDestroyed
         DEF SenderMissing, TeardownOutput, TeardownRtsp, TeardownEncoder, Sound
    <3> QED BY <1>1, <1>8, <2>2, <3>1, Moves, StreamLeft DEF SenderMissing, ThreadGone
  <2> QED BY <2>1, <2>2
<1> QED BY <1>2, <1>3, <1>4, <1>5, <1>6, <1>7, <1>8 DEF WatchStep

-----------------------------------------------------------------------------
(* handle_recovering_device(), handle_reconfiguring(), handle_reconnecting_output(): the
   output is repaired as a whole, or only its session is *)
LEMMA RepairImplements ==
  ASSUME MediaInv, PublishInv, RepairStep PROVE Implements
<1>1. /\ Sound /\ Typed /\ WorkersInv /\ thread = "none"
      /\ state \in {"RECOVERING_DEVICE", "RECONFIGURING", "RECONNECTING_OUTPUT"}
      /\ placeholder = "off" /\ placeholder' = "off"
  BY InvParts, NotShown
     DEF Related, WorkersInv, Watching, RepairStep, RecoverDevice, Reconfigure, ReconfigureFails,
         Reconnect, ReconnectFails, GiveUp
<1>2. PublishedBy = "nobody"
  BY <1>1 DEF PublishedBy
<1>3. CASE RecoverDevice
  <2>1. Encoder!DeviceReplaced(Encoder!NoEncoder) = Encoder!NoEncoder
    BY DEF Encoder!DeviceReplaced, Encoder!NoEncoder
  <2>2. encoder' = Encoder!NoEncoder /\ rtsp' = Rtsp!NoClient /\ thread' = "none"
    BY <1>1, <1>3, <2>1, EncoderDestroyed, ClientDestroyed
       DEF RecoverDevice, Dismantle, TeardownRtsp, ThreadGone, Sound
  <2>3. state = "RECOVERING_DEVICE" /\ state' \in {"PROBING", "FATAL"}
    BY <1>3, Moves DEF RecoverDevice
  <2>4. PublishedBy' = "nobody"
    BY <1>1, <2>2 DEF PublishedBy
  <2>5. PublishInv'
    BY <2>3, <2>4 DEF PublishInv
  <2>6. Publishing!Recover
    BY <1>2, <2>2, <2>3, <2>4, OutputAbsent DEF Publishing!Recover, Publishing!Close
  <2> QED BY <2>5, <2>6 DEF Implements, Publishing!PublisherNext
<1>4. CASE Reconfigure \/ Reconnect
  <2>1. /\ state' = "STREAMING" /\ thread' = "running"
        /\ state \in {"RECONFIGURING", "RECONNECTING_OUTPUT"}
    BY <1>4, Moves DEF Reconfigure, Reconnect, StartThread
  <2>2. /\ Encoder!Ready(encoder)' /\ encoder'.exists /\ Rtsp!Up(rtsp)' /\ Session' = "connected"
        /\ \/ state = "RECONFIGURING"
           \/ state = "RECONNECTING_OUTPUT" /\ Encoder!Ready(encoder) /\ Session = "none"
    <3>1. CASE Reconfigure
      BY <3>1, OutputBuilt DEF Reconfigure
    <3>2. CASE Reconnect
      <4>1. PICK r \in Rtsp!Connected(rtsp) : r.connected /\ rtsp' = r
        BY <3>2 DEF Reconnect
      <4>2. r.exists
        BY <1>1, <4>1, ClientConnected DEF Sound
      <4>3. encoder' = Encoder!RequestNextIdr(encoder) /\ state = "RECONNECTING_OUTPUT"
        BY <3>2 DEF Reconnect
      <4>4. Encoder!Ready(encoder) /\ encoder.exists /\ Session = "none"
        BY <1>1, <4>3 DEF WorkersInv, PublishInv, Session
      <4>5. Same(encoder', encoder)
        BY <1>1, <4>3, IdrRequested, Zenon DEF Sound
      <4> QED BY <4>1, <4>2, <4>3, <4>4, <4>5, EncoderKept DEF Session, Rtsp!Up
    <3> QED BY <1>4, <3>1, <3>2
  <2>3. PublishedBy' = "source"
    BY <2>1 DEF PublishedBy
  <2>4. PublishInv'
    BY <2>1, <2>2 DEF PublishInv
  <2>5. Publishing!StartSource
    BY <1>2, <2>1, <2>2, <2>3 DEF Publishing!StartSource, Publishing!Open
  <2> QED BY <2>4, <2>5 DEF Implements, Publishing!PublisherNext
<1>5. CASE ReconfigureFails
  <2>1. encoder' = Encoder!NoEncoder /\ rtsp' = Rtsp!NoClient /\ UNCHANGED thread
    BY <1>1, <1>5, BuiltNothing DEF ReconfigureFails
  <2>2. state = "RECONFIGURING" /\ state' = "RECONFIGURING"
    BY <1>5, Moves DEF ReconfigureFails
  <2>3. PublishedBy' = "nobody"
    BY <1>1, <2>1 DEF PublishedBy
  <2>4. PublishInv'
    BY <2>2, <2>3 DEF PublishInv
  <2>5. Publishing!StartFails
    BY <1>2, <2>1, <2>2, <2>3, OutputAbsent DEF Publishing!StartFails, Publishing!Close
  <2> QED BY <2>4, <2>5 DEF Implements, Publishing!PublisherNext
<1>6. CASE ReconnectFails
  <2>1. /\ rtsp' = Rtsp!NoClient /\ UNCHANGED <<state, encoder, thread>>
        /\ state = "RECONNECTING_OUTPUT"
    BY <1>1, <1>6, ClientConnected, ClientDestroyed DEF ReconnectFails, Sound
  <2>2. ~rtsp'.exists /\ PublishedBy' = "nobody" /\ Session' = "none" /\ Session = "none"
    BY <1>1, <2>1 DEF PublishInv, PublishedBy, Session, Rtsp!NoClient
  <2>3. PublishInv'
    BY <2>1, <2>2 DEF PublishInv
  <2>4. UNCHANGED Publishing!publisherVars
    BY <1>2, <2>1, <2>2 DEF Publishing!publisherVars, Encoder!Ready
  <2> QED BY <2>3, <2>4 DEF Implements
<1>7. CASE GiveUp
  <2>1. encoder' = Encoder!NoEncoder /\ rtsp' = Rtsp!NoClient /\ thread' = "none"
    BY <1>1, <1>7, EncoderDestroyed, ClientDestroyed
       DEF GiveUp, TeardownStreaming, TeardownOutput, TeardownRtsp, TeardownEncoder, ThreadGone,
           Sound
  <2>2. state = "RECONNECTING_OUTPUT" /\ state' = "FATAL"
    BY <1>7, Moves DEF GiveUp
  <2>3. PublishedBy' = "nobody"
    BY <1>1, <2>1 DEF PublishedBy
  <2>4. PublishInv'
    BY <2>2, <2>3 DEF PublishInv
  <2>5. Publishing!GiveUp
    BY <1>2, <2>1, <2>2, <2>3, OutputAbsent DEF Publishing!GiveUp, Publishing!Close
  <2> QED BY <2>4, <2>5 DEF Implements, Publishing!PublisherNext
<1> QED BY <1>3, <1>4, <1>5, <1>6, <1>7 DEF RepairStep

(* A stop request *)
LEMMA StopImplements == ASSUME MediaInv, PublishInv, Stop PROVE Implements
<1>1. Sound /\ Typed
  BY InvParts
<1>2. encoder' = Encoder!NoEncoder /\ rtsp' = Rtsp!NoClient /\ thread' = "none"
  BY <1>1, EncoderDestroyed, ClientDestroyed
     DEF Stop, TeardownStreaming, TeardownOutput, TeardownRtsp, TeardownEncoder, ThreadGone, Sound
<1>3. state \notin {"STOPPING", "FATAL"} /\ state' = "STOPPING"
  <2>1. /\ state \in PublisherState \ {"INIT", "STOPPING", "FATAL"}
        /\ state' = TransitionTo(state, "STOPPING")
    BY <1>1 DEF Stop, Typed, PublishInv
  <2> QED BY <2>1 DEF PublisherState, TransitionTo, CanTransition, Successors
<1>4. PublishedBy' = "nobody"
  BY <1>2, <1>3 DEF PublishedBy
<1>5. PublishInv'
  BY <1>3, <1>4 DEF PublishInv
<1>6. Publishing!Stop
  BY <1>2, <1>3, <1>4, OutputAbsent DEF Publishing!Stop, Publishing!Close
<1> QED BY <1>5, <1>6 DEF Implements, Publishing!PublisherNext

-----------------------------------------------------------------------------
(* encode_publish_thread_func(): its end is seen from the outside, its work is not. *)

(* The thread returns; the error that ends it may have broken the session. *)
LEMMA SourceEnded ==
  ASSUME MediaInv, PublishInv, thread = "running", thread' \in ThreadEnds,
         UNCHANGED <<state, placeholder>>, Encoder!Ready(encoder)' <=> Encoder!Ready(encoder),
         rtsp'.exists = rtsp.exists
  PROVE  Implements
<1>1. state \in {"STREAMING", "STALLED"}
  BY InvParts DEF Related, WorkersInv, Watching
<1>2. PublishedBy = "source" /\ PublishedBy' = "nobody"
  BY <1>1 DEF PublishedBy, ThreadEnds
<1>3. Session = "connected" /\ Session' \in {"connected", "broken"}
  BY <1>2 DEF PublishInv, Session, Rtsp!Up
<1>4. PublishInv'
  BY <1>1, <1>2 DEF PublishInv
<1>5. Encoder!Ready(encoder)' = Encoder!Ready(encoder)
  BY DEF Encoder!Ready
<1>6. Publishing!SourceEnds
  BY <1>2, <1>3, <1>5 DEF Publishing!SourceEnds
<1> QED BY <1>4, <1>6 DEF Implements, Publishing!PublisherNext

(* A step that changes neither the encoder nor the session, nor who publishes *)
LEMMA Unseen ==
  ASSUME PublishInv, UNCHANGED <<state, thread, placeholder, encoder.held, encoder.exists,
                                 rtsp.exists, rtsp.connected>>
  PROVE  Implements
<1>1. UNCHANGED <<PublishedBy, Session>> /\ (Encoder!Ready(encoder)' = Encoder!Ready(encoder))
  BY DEF PublishedBy, Session, Encoder!Ready
<1>2. PublishInv'
  BY <1>1 DEF PublishInv, Rtsp!Up
<1>3. UNCHANGED Publishing!publisherVars
  BY <1>1 DEF Publishing!publisherVars
<1> QED BY <1>2, <1>3 DEF Implements

(* A frame that is sent is not seen; one that is not sent ends the thread. *)
LEMMA EncodeImplements == ASSUME MediaInv, PublishInv, EncodeAndSend PROVE Implements
<1>1. Sound /\ Typed /\ thread = "running" /\ UNCHANGED <<state, placeholder>>
  BY InvParts DEF EncodeAndSend
<1>2. PICK o \in Encoder!Encode(encoder, "source", content_changed, device_lost) :
        \E s \in IF o.ok THEN Rtsp!Send(rtsp, "source") ELSE {[ok |-> FALSE, r |-> rtsp]} :
          /\ encoder' = o.e /\ rtsp' = s.r
          /\ IF s.ok THEN UNCHANGED thread ELSE thread' \in ThreadEnds
  BY Zenon DEF EncodeAndSend, ThreadEnds
<1>3. PICK s \in IF o.ok THEN Rtsp!Send(rtsp, "source") ELSE {[ok |-> FALSE, r |-> rtsp]} :
          /\ encoder' = o.e /\ rtsp' = s.r
          /\ IF s.ok THEN UNCHANGED thread ELSE thread' \in ThreadEnds
  BY <1>2, Zenon
<1>4. Same(encoder', encoder) /\ o.ok \in BOOLEAN
  BY <1>1, <1>3, FrameEncoded DEF Sound, Typed
<1>5. s.ok \in BOOLEAN /\ rtsp'.exists = rtsp.exists /\ (s.ok => rtsp'.connected = rtsp.connected)
  <2>1. CASE o.ok
    BY <1>1, <1>3, <2>1, PacketSent, SessionKept DEF Sound
  <2>2. CASE ~o.ok
    <3>1. s = [ok |-> FALSE, r |-> rtsp]
      BY <1>3, <2>2
    <3> QED BY <1>3, <3>1
  <2> QED BY <2>1, <2>2, <1>4
<1>6. CASE s.ok
  BY <1>1, <1>3, <1>4, <1>5, <1>6, Unseen DEF Same
<1>7. CASE ~s.ok
  BY <1>1, <1>3, <1>4, <1>5, <1>7, SourceEnded, EncoderKept
<1> QED BY <1>5, <1>6, <1>7

(* A frame of another size ends the thread; capture and environment are not seen. *)
LEMMA OthersImplement ==
  ASSUME MediaInv, PublishInv, EncodePop \/ Capture \/ SenderChanges \/ DeviceLost PROVE Implements
<1>1. CASE EncodePop /\ queue[2]
  BY <1>1, Unseen DEF EncodePop
<1>2. CASE EncodePop /\ ~queue[2]
  <2>1. /\ UNCHANGED <<encoder, rtsp, state, placeholder>>
        /\ thread = "running" /\ thread' \in ThreadEnds
    BY <1>2 DEF EncodePop, ThreadEnds
  <2>2. Encoder!Ready(encoder)' <=> Encoder!Ready(encoder)
    BY <2>1 DEF Encoder!Ready
  <2> QED BY <2>1, <2>2, SourceEnded
<1>3. CASE Capture \/ SenderChanges \/ DeviceLost
  BY <1>3, Unseen DEF Capture, SenderChanges, DeviceLost
<1> QED BY <1>1, <1>2, <1>3

-----------------------------------------------------------------------------
(* With the three components in it, the program still does what Publisher promises: on
   both receive paths, and with whatever init(), connect(), encode() and send_packet()
   make of a failure. *)
THEOREM MediaPathIsPublisher == Spec => ImplementsPublisher
<1>1. Init => PublishInv /\ Publishing!PublisherInit
  BY Moves DEF Init, PublishInv, PublishedBy, Session, Encoder!Ready, Encoder!NoEncoder,
     Rtsp!NoClient, Publishing!PublisherInit
<1>2. ASSUME MediaInv, PublishInv, [Next]_vars PROVE Implements
  <2>1. CASE SearchStep
    BY <1>2, <2>1, SearchImplements, PlaceholderImplements, PlaceholderSendImplements DEF SearchStep
  <2>2. CASE ConnectStep
    BY <1>2, <2>2, ConnectImplements DEF ConnectStep
  <2>3. CASE WatchStep \/ RepairStep \/ Stop
    BY <1>2, <2>3, WatchImplements, RepairImplements, StopImplements
  <2>4. CASE EncodePop \/ EncodeAndSend \/ Capture \/ SenderChanges \/ DeviceLost
    BY <1>2, <2>4, EncodeImplements, OthersImplement
  <2>5. CASE UNCHANGED vars
    BY <1>2, <2>5, Unseen DEF vars
  <2> QED BY <1>2, <2>1, <2>2, <2>3, <2>4, <2>5 DEF Next
<1>3. MediaInv /\ PublishInv /\ [Next]_vars => PublishInv'
  BY <1>2 DEF Implements
<1>4. MediaInv /\ PublishInv /\ [Next]_vars => [Publishing!PublisherNext]_(Publishing!publisherVars)
  BY <1>2 DEF Implements
<1> QED BY <1>1, <1>3, <1>4, MediaInductive, PTL
        DEF Spec, ImplementsPublisher, Publishing!PublisherSpec

(* What Publisher says of its reachable states, said of the encoder and the client *)
THEOREM MediaPublishedInTurns == Spec => []Publishing!OutputFollowsState
<1>1. Publishing!PublisherInv => Publishing!OutputFollowsState
  BY DEF Publishing!PublisherInv
<1> QED BY <1>1, MediaPathIsPublisher, Publishing!PublisherSafe, PTL DEF ImplementsPublisher
=============================================================================
