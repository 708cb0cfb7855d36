------------------------------ MODULE MediaPath ------------------------------
(***************************************************************************)
(* The way of a picture through the program: the Spout receiver, the       *)
(* encoder and the RTSP client, composed as the Supervisor's handlers      *)
(* (src/app/supervisor.cpp) and its two worker threads use them, on the    *)
(* CPU and on the GPU receive path.                                        *)
(*                                                                         *)
(* Module Supervisor has the control flow in full: the flags, joins,       *)
(* counters and timers.  Here a handler is one action, its stop and join   *)
(* included, and what decides between its outcomes there (a timer, a       *)
(* counter, a shutdown) is left open, so every sequence of handlers of     *)
(* that module is one of this.  What is kept is what the three components  *)
(* hold: which objects are allocated, which path frames take, which        *)
(* texture a frame borrows, which picture the encoder has, and for whom    *)
(* the RTSP session was opened.                                            *)
(*                                                                         *)
(* A frame is "none", "pixels" (it owns its data), "texture" (it borrows   *)
(* the receiver's), "stale" (it borrows one that a later ReceiveTexture()  *)
(* has replaced) or "freed" (the receiver it borrows from was given up).   *)
(***************************************************************************)
EXTENDS Naturals, Sequences, StateMachine

CONSTANTS
  Codec,               \* config encoder.codec, by kind
  FallbackCodec,       \* config encoder.fallback_codec, by kind
  PlaceholderEnabled   \* config placeholder.enabled

ASSUME MediaPathAssumption ==
  /\ Codec \in {"hardware", "software"} /\ FallbackCodec \in {"hardware", "software", "none"}
  /\ PlaceholderEnabled \in BOOLEAN

Encoder == INSTANCE EncoderController
Rtsp    == INSTANCE RtspClient
Spout   == INSTANCE SpoutMonitor

VARIABLES
  state,             \* state_machine_.current_state()
  spout,             \* spout_monitor_
  encoder,           \* encoder_
  rtsp,              \* rtsp_client_
  pump,              \* frame_pump_: "none" (null), "stopped" or "running"
  queue,             \* FramePump::queue_: "none" or its frame, <<frame, has the encoder's size>>
  thread,            \* the encode thread: "none", "running", or the flag it left
  freeze,            \* its freeze_buf
  content_changed,   \* its content_changed
  initial_frame,     \* initial_frame_buf_
  seamless_handoff,  \* seamless_handoff_
  placeholder,       \* "off", or active: "fresh" (placeholder_content_changed_) or "repeat"
  sender,            \* the sender: "none", or the format of its texture
  device_lost        \* GetDeviceRemovedReason() # S_OK

threadVars == <<thread, freeze, content_changed, initial_frame>>
pumpVars   == <<pump, queue>>
holdVars   == <<seamless_handoff, placeholder>>
envVars    == <<sender, device_lost>>
vars == <<state, spout, encoder, rtsp, pumpVars, threadVars, holdVars, envVars>>

Borrowed == {"texture", "stale", "freed"}
Frames == {"none", "pixels"} \cup Borrowed
NoItem == <<"none", TRUE>>
ThreadEnds == {"encode_error", "rtsp_error", "resolution_changed"}

TypeOK ==
  /\ state \in PublisherState /\ pump \in {"none", "stopped", "running"}
  /\ spout \in Spout!Monitors /\ encoder \in Encoder!Encoders /\ rtsp \in Rtsp!Clients
  /\ queue \in Frames \X BOOLEAN /\ freeze \in Frames /\ initial_frame \in Frames
  /\ thread \in {"none", "running"} \cup ThreadEnds
  /\ content_changed \in BOOLEAN /\ seamless_handoff \in BOOLEAN /\ device_lost \in BOOLEAN
  /\ placeholder \in {"off", "fresh", "repeat"} /\ sender \in Spout!Formats \cup {"none"}

Init ==
  /\ state = TransitionTo("INIT", "IDLE") /\ spout = Spout!Opened
  /\ encoder = Encoder!NoEncoder /\ rtsp = Rtsp!NoClient /\ pump = "none" /\ queue = NoItem
  /\ thread = "none" /\ freeze = "none" /\ content_changed = TRUE /\ initial_frame = "none"
  /\ seamless_handoff = FALSE /\ placeholder = "off"
  /\ sender \in Spout!Formats \cup {"none"} /\ device_lost = FALSE

-----------------------------------------------------------------------------
(* Helpers: the member functions the handlers share *)

Leave(to) == state' = TransitionTo(state, to)

(* Another ReceiveTexture() may replace the texture that this frame borrows, and
   spout_monitor_->disconnect() releases it *)
Aged(frame, replaced) == IF replaced /\ frame = "texture" THEN "stale" ELSE frame
Freed(frame) == IF frame \in Borrowed THEN "freed" ELSE frame
Released(frame) == IF Spout!FreesTexture(spout) THEN Freed(frame) ELSE frame

(* A frame after gpu_texture = nullptr, and what std::move() leaves of one: the vector
   is emptied, the pointer is copied *)
SlipKeepTexture(frame) == frame
WithoutTexture(frame) == IF frame \in Borrowed THEN "none" ELSE frame
MovedFrom(frame) == IF frame = "pixels" THEN "none" ELSE frame

(* stop_encode_thread(): a thread that still runs saves its freeze frame, if any *)
Saved == IF thread = "running" /\ freeze # "none" THEN freeze ELSE initial_frame
ThreadGone == thread' = "none" /\ freeze' = "none" /\ UNCHANGED content_changed

(* start_encode_thread(), the saved frame in its hands: it starts with a changed content *)
SlipStartThread(saved) ==
  /\ thread' = "running" /\ freeze' = saved /\ initial_frame' = MovedFrom(saved)
  /\ content_changed' = FALSE
StartThread(saved) ==
  /\ thread' = "running" /\ freeze' = saved /\ initial_frame' = MovedFrom(saved)
  /\ content_changed' = TRUE

(* frame_pump_->start(); frame_pump_->stop(), with and without frame_pump_.reset() *)
StartPump == pump' = "running" /\ queue' = NoItem
StopPump  == pump' = (IF pump = "none" THEN "none" ELSE "stopped") /\ queue' = NoItem
DropPump  == pump' = "none" /\ queue' = NoItem

(* teardown_rtsp(); teardown_encoder(), on the receiver m and with the saved frame *)
SlipTeardownRtsp == UNCHANGED rtsp
TeardownRtsp == rtsp' = Rtsp!Destroy(rtsp)
TeardownEncoder(m, saved) ==
  /\ encoder' = Encoder!Destroy(encoder)
  /\ spout' = Spout!SetGpuMode(m, FALSE) /\ initial_frame' = WithoutTexture(saved)
TeardownOutput(m, saved) == TeardownRtsp /\ TeardownEncoder(m, saved)

(* teardown_streaming() *)
TeardownStreaming == ThreadGone /\ DropPump /\ TeardownOutput(spout, Saved)

(* The results of init_encoder_and_rtsp() with the receiver m: an encoder on one of the
   paths, a new client, and the receiver switched to the encoder's path.  It can fail in
   the encoder or in the client, and every caller then tears both down. *)
SlipBuilt(m) ==
  UNION {{[e |-> e, r |-> r, m |-> IF e.gpu THEN Spout!SetGpuMode(m, TRUE) ELSE m]
            : r \in {c \in Rtsp!Connected(rtsp) : c.connected}}
         : e \in {i \in UNION {Encoder!Initialised(encoder, f) : f \in Spout!SenderFormats(m, sender)}
                   : Encoder!Ready(i)}}
Built(m) ==
  UNION {{[e |-> e, r |-> r, m |-> Spout!SetGpuMode(m, e.gpu)]
            : r \in {c \in Rtsp!Connected(rtsp) : c.connected}}
         : e \in {i \in UNION {Encoder!Initialised(encoder, f) : f \in Spout!SenderFormats(m, sender)}
                   : Encoder!Ready(i)}}
NotBuilt ==
  UNION {{[e |-> e, r |-> r]
            : r \in IF Encoder!Ready(e) THEN {c \in Rtsp!Connected(rtsp) : ~c.connected} ELSE {rtsp}}
         : e \in Encoder!Initialised(encoder, "unknown")}

InitSucceeds(built) == encoder' = built.e /\ rtsp' = built.r
InitFails(m, saved) ==
  \E n \in NotBuilt :
    /\ encoder' = Encoder!Destroy(n.e) /\ rtsp' = Rtsp!Destroy(n.r)
    /\ spout' = Spout!SetGpuMode(m, FALSE) /\ initial_frame' = WithoutTexture(saved)

(* encoder_ && rtsp_client_ && rtsp_client_->is_connected() *)
SessionUp == encoder.exists /\ Rtsp!Up(rtsp)

-----------------------------------------------------------------------------
(* handle_idle(), handle_probing() *)

StartProbing == state = "IDLE" /\ Leave("PROBING")
                /\ UNCHANGED <<spout, encoder, rtsp, pumpVars, threadVars, holdVars, envVars>>

ProbingFound ==
  /\ state = "PROBING" /\ sender # "none"
  /\ spout' = Spout!Connect(spout) /\ Leave("CONNECTING_OUTPUT")
  /\ UNCHANGED <<encoder, rtsp, pumpVars, threadVars, holdVars, envVars>>

ProbingMissing ==
  /\ state = "PROBING" /\ sender = "none" /\ PlaceholderEnabled /\ Leave("PLACEHOLDER")
  /\ UNCHANGED <<spout, encoder, rtsp, pumpVars, threadVars, holdVars, envVars>>

-----------------------------------------------------------------------------
(* handle_placeholder().  Its size is that of the last source, or the configured one as
   long as there was none: the size of the encoder kept for a handoff (module Supervisor:
   HandoffHasSession), so that the comparison of sizes in can_seamless_handoff succeeds. *)

CanSeamlessHandoff == seamless_handoff /\ SessionUp

PlaceholderStart ==
  /\ state = "PLACEHOLDER" /\ placeholder = "off" /\ placeholder' = "fresh"
  /\ seamless_handoff' = FALSE
  /\ IF CanSeamlessHandoff
       THEN encoder' = Encoder!RequestNextIdr(encoder) /\ UNCHANGED <<rtsp, spout>>
       ELSE \E built \in Built(spout) : InitSucceeds(built) /\ spout' = built.m
  /\ UNCHANGED <<state, pumpVars, threadVars, envVars>>

PlaceholderStartFails ==
  /\ state = "PLACEHOLDER" /\ placeholder = "off" /\ ~CanSeamlessHandoff
  /\ seamless_handoff' = FALSE /\ InitFails(spout, initial_frame)
  /\ UNCHANGED <<state, pumpVars, thread, freeze, content_changed, placeholder, envVars>>

PlaceholderSourceFound ==
  /\ state = "PLACEHOLDER" /\ placeholder # "off" /\ sender # "none"
  /\ IF SessionUp
       THEN /\ seamless_handoff' = TRUE /\ spout' = Spout!Connect(spout)
            /\ UNCHANGED <<encoder, rtsp, initial_frame>>
       ELSE TeardownOutput(Spout!Connect(spout), initial_frame) /\ UNCHANGED seamless_handoff
  /\ placeholder' = "off" /\ Leave("CONNECTING_OUTPUT")
  /\ UNCHANGED <<pumpVars, thread, freeze, content_changed, envVars>>

(* The still frame is encoded and sent; a failure of either tears the session down *)
PlaceholderSend ==
  /\ state = "PLACEHOLDER" /\ placeholder # "off"
  /\ \E o \in Encoder!Encode(encoder, "placeholder", placeholder = "fresh", device_lost) :
       \E s \in IF o.ok THEN Rtsp!Send(rtsp, "placeholder") ELSE {[ok |-> FALSE, r |-> rtsp]} :
         IF s.ok
           THEN /\ encoder' = o.e /\ rtsp' = s.r /\ placeholder' = "repeat"
                /\ UNCHANGED <<spout, initial_frame>>
           ELSE /\ encoder' = Encoder!Destroy(o.e) /\ rtsp' = Rtsp!Destroy(s.r)
                /\ spout' = Spout!SetGpuMode(spout, FALSE)
                /\ initial_frame' = WithoutTexture(initial_frame) /\ placeholder' = "off"
  /\ UNCHANGED <<state, pumpVars, thread, freeze, content_changed, seamless_handoff, envVars>>

-----------------------------------------------------------------------------
(* handle_connecting_output() *)

(* the wait loop: an answer without a new frame, or the time-out *)
ConnectNoFrame ==
  /\ state = "CONNECTING_OUTPUT"
  /\ \/ /\ Spout!CanReceive(spout, sender, device_lost)
        /\ spout' = Spout!Received(spout, sender) /\ UNCHANGED <<state, initial_frame>>
     \/ spout' = Spout!Disconnect(spout) /\ Leave("PROBING")
        /\ initial_frame' = Released(initial_frame)
  /\ UNCHANGED <<encoder, rtsp, pumpVars, thread, freeze, content_changed, holdVars, envVars>>

(* The first frame, received in the mode of the moment.  The session of the placeholder
   is taken over, if the frame has its size; otherwise encoder and client are built anew
   and the receiver is reconnected, which releases the texture of that frame. *)
FirstFrame == Spout!FrameOf(spout)
Answered == Spout!Received(spout, sender)

SlipNoReconnect(m) == m
Reconnected(m) == Spout!Connect(Spout!Disconnect(m))

ConnectSeamless ==
  /\ state = "CONNECTING_OUTPUT" /\ Spout!CanReceive(spout, sender, device_lost)
  /\ CanSeamlessHandoff /\ seamless_handoff' = FALSE
  /\ spout' = Answered /\ encoder' = Encoder!RequestNextIdr(encoder)
  /\ StartPump /\ StartThread(FirstFrame) /\ Leave("STREAMING")
  /\ UNCHANGED <<rtsp, placeholder, envVars>>

ConnectAnew ==
  /\ state = "CONNECTING_OUTPUT" /\ Spout!CanReceive(spout, sender, device_lost)
  /\ seamless_handoff' = FALSE
  /\ \E built \in Built(Answered) : InitSucceeds(built) /\ spout' = Reconnected(built.m)
  /\ StartPump /\ StartThread(WithoutTexture(Freed(FirstFrame))) /\ Leave("STREAMING")
  /\ UNCHANGED <<placeholder, envVars>>

ConnectFails ==
  /\ state = "CONNECTING_OUTPUT" /\ Spout!CanReceive(spout, sender, device_lost)
  /\ seamless_handoff' = FALSE
  /\ InitFails(Spout!Disconnect(Answered), FirstFrame) /\ Leave("PROBING")
  /\ UNCHANGED <<pumpVars, thread, freeze, content_changed, placeholder, envVars>>

-----------------------------------------------------------------------------
(* handle_streaming(), handle_stalled(): the source falls silent or answers again;
   each of the other checks stops the encode thread first *)

Watching == state \in {"STREAMING", "STALLED"}

(* after a prolonged stall: without a sender it is the placeholder's turn *)
StallLasts == state = "STALLED" /\ (sender # "none" \/ ~PlaceholderEnabled)

StallOrRecover ==
  /\ \/ state = "STREAMING" /\ Leave("STALLED")
     \/ state = "STALLED" /\ Leave("STREAMING")
  /\ UNCHANGED <<spout, encoder, rtsp, pumpVars, threadVars, holdVars, envVars>>

DeviceLostSeen ==
  /\ Watching /\ device_lost /\ ThreadGone /\ initial_frame' = Saved
  /\ Leave("RECOVERING_DEVICE")
  /\ UNCHANGED <<spout, encoder, rtsp, pumpVars, holdVars, envVars>>

EncodeErrorSeen ==
  /\ Watching /\ thread = "encode_error" /\ TeardownStreaming /\ Leave("PROBING")
  /\ UNCHANGED <<holdVars, envVars>>

ResolutionChangeSeen ==
  /\ state = "STREAMING" /\ thread = "resolution_changed" /\ ThreadGone
  /\ Leave("RECONFIGURING")
  /\ UNCHANGED <<spout, encoder, rtsp, pumpVars, initial_frame, holdVars, envVars>>

(* an RTSP error, or a stall that lasts: only the session is built again *)
ReconnectNeeded ==
  /\ Watching /\ (thread = "rtsp_error" \/ StallLasts)
  /\ ThreadGone /\ initial_frame' = Saved /\ TeardownRtsp /\ Leave("RECONNECTING_OUTPUT")
  /\ UNCHANGED <<spout, encoder, pumpVars, holdVars, envVars>>

(* the watchdog: everything is built again *)
WatchdogFires ==
  /\ StallLasts /\ ThreadGone /\ DropPump
  /\ TeardownOutput(Spout!Disconnect(spout), Released(Saved)) /\ Leave("PROBING")
  /\ UNCHANGED <<holdVars, envVars>>

(* the sender disappeared: with the placeholder, encoder and client are kept for it *)
SenderMissing ==
  /\ state = "STALLED" /\ sender = "none" /\ ThreadGone /\ DropPump
  /\ IF PlaceholderEnabled
       THEN /\ seamless_handoff' = SessionUp /\ spout' = Spout!Disconnect(spout)
            /\ initial_frame' = Released(Saved) /\ Leave("PLACEHOLDER")
            /\ UNCHANGED <<encoder, rtsp>>
       ELSE /\ TeardownOutput(Spout!Disconnect(spout), Released(Saved)) /\ Leave("IDLE")
            /\ UNCHANGED seamless_handoff
  /\ UNCHANGED <<placeholder, envVars>>

-----------------------------------------------------------------------------
(* handle_recovering_device(), handle_reconfiguring(), handle_reconnecting_output() *)

(* teardown_streaming(), then reinit_device(), which may fail *)
SlipNoTeardown == ThreadGone /\ DropPump /\ TeardownRtsp /\ initial_frame' = WithoutTexture(Saved)
                  /\ encoder' = Encoder!DeviceReplaced(encoder)
Dismantle == ThreadGone /\ DropPump /\ TeardownRtsp /\ initial_frame' = WithoutTexture(Saved)
             /\ encoder' = Encoder!DeviceReplaced(Encoder!Destroy(encoder))
RecoverDevice ==
  /\ state = "RECOVERING_DEVICE" /\ Dismantle /\ spout' = Spout!ReinitDevice(spout)
  /\ \/ device_lost' = FALSE /\ Leave("PROBING")
     \/ Leave("FATAL") /\ UNCHANGED device_lost
  /\ UNCHANGED <<holdVars, sender>>

(* the pump is stopped and kept; the old encoder is torn down and takes the texture of
   the saved frame with it; on failure the state stays (module StateMachine) *)
Reconfigure ==
  /\ state = "RECONFIGURING"
  /\ \E built \in Built(Spout!SetGpuMode(spout, FALSE)) :
       InitSucceeds(built) /\ spout' = built.m
  /\ StartPump /\ StartThread(WithoutTexture(initial_frame)) /\ Leave("STREAMING")
  /\ UNCHANGED <<holdVars, envVars>>

ReconfigureFails ==
  /\ state = "RECONFIGURING" /\ StopPump /\ InitFails(Spout!Disconnect(spout), Released(initial_frame))
  /\ Leave("PROBING")
  /\ UNCHANGED <<thread, freeze, content_changed, holdVars, envVars>>

(* the encoder and the receiver stay as they are *)
Reconnect ==
  /\ state = "RECONNECTING_OUTPUT"
  /\ \E r \in Rtsp!Connected(rtsp) : r.connected /\ rtsp' = r
  /\ encoder' = Encoder!RequestNextIdr(encoder)
  /\ StartThread(initial_frame) /\ Leave("STREAMING")
  /\ UNCHANGED <<spout, pumpVars, holdVars, envVars>>

ReconnectFails ==
  /\ state = "RECONNECTING_OUTPUT"
  /\ \E r \in Rtsp!Connected(rtsp) : ~r.connected /\ rtsp' = Rtsp!Destroy(r)
  /\ UNCHANGED <<state, spout, encoder, pumpVars, threadVars, holdVars, envVars>>

(* too many attempts; and a stop request, in any state *)
GiveUp ==
  /\ state = "RECONNECTING_OUTPUT" /\ TeardownStreaming /\ Leave("FATAL")
  /\ UNCHANGED <<holdVars, envVars>>

Stop ==
  /\ state \notin {"FATAL", "STOPPING"} /\ TeardownStreaming /\ Leave("STOPPING")
  /\ UNCHANGED <<holdVars, envVars>>

-----------------------------------------------------------------------------
(* encode_publish_thread_func() and FramePump::capture_thread_func() *)

(* a frame of another size ends the thread; any other becomes the freeze frame *)
EncodePop ==
  /\ thread = "running" /\ queue # NoItem /\ queue' = NoItem
  /\ IF queue[2]
       THEN freeze' = queue[1] /\ content_changed' = TRUE /\ UNCHANGED <<thread, initial_frame>>
       ELSE /\ thread' = "resolution_changed" /\ initial_frame' = queue[1]
            /\ freeze' = "none" /\ UNCHANGED content_changed
  /\ UNCHANGED <<state, spout, encoder, rtsp, pump, holdVars, envVars>>

(* the freeze frame is encoded and sent; on an error it is saved *)
EncodeAndSend ==
  /\ thread = "running" /\ freeze # "none"
  /\ \E o \in Encoder!Encode(encoder, "source", content_changed, device_lost) :
       \E s \in IF o.ok THEN Rtsp!Send(rtsp, "source") ELSE {[ok |-> FALSE, r |-> rtsp]} :
         /\ encoder' = o.e /\ rtsp' = s.r
         /\ IF s.ok
              THEN content_changed' = FALSE /\ UNCHANGED <<thread, freeze, initial_frame>>
              ELSE /\ thread' = IF o.ok THEN "rtsp_error" ELSE "encode_error"
                   /\ initial_frame' = freeze /\ freeze' = "none" /\ UNCHANGED content_changed
  /\ UNCHANGED <<state, spout, pumpVars, holdVars, envVars>>

(* no answer, one without a new frame, or one with a frame of the encoder's size or another *)
Capture ==
  /\ pump = "running" /\ spout' = Spout!Polled(spout, sender, device_lost)
  /\ \E replaced \in Spout!MayReplaceTexture(spout, device_lost) :
       /\ freeze' = Aged(freeze, replaced) /\ initial_frame' = Aged(initial_frame, replaced)
       /\ \/ queue' = <<Aged(queue[1], replaced), queue[2]>>
          \/ /\ Spout!CanReceive(spout, sender, device_lost)
             /\ \E same \in BOOLEAN : queue' = <<Spout!FrameOf(spout), same>>
  /\ UNCHANGED <<state, encoder, rtsp, pump, thread, content_changed, holdVars, envVars>>

(* The environment *)
SenderChanges ==
  /\ sender' \in IF sender = "none" THEN Spout!Formats ELSE {"none"}
  /\ UNCHANGED <<state, spout, encoder, rtsp, pumpVars, threadVars, holdVars, device_lost>>
DeviceLost ==
  /\ ~device_lost /\ device_lost' = TRUE
  /\ UNCHANGED <<state, spout, encoder, rtsp, pumpVars, threadVars, holdVars, sender>>

-----------------------------------------------------------------------------
SearchStep ==
  \/ StartProbing \/ ProbingFound \/ ProbingMissing
  \/ PlaceholderStart \/ PlaceholderStartFails \/ PlaceholderSourceFound \/ PlaceholderSend
ConnectStep == ConnectNoFrame \/ ConnectSeamless \/ ConnectAnew \/ ConnectFails
WatchStep ==
  \/ StallOrRecover \/ DeviceLostSeen \/ EncodeErrorSeen \/ ResolutionChangeSeen
  \/ ReconnectNeeded \/ WatchdogFires \/ SenderMissing
RepairStep ==
  RecoverDevice \/ Reconfigure \/ ReconfigureFails \/ Reconnect \/ ReconnectFails \/ GiveUp
Next ==
  \/ SearchStep \/ ConnectStep \/ WatchStep \/ RepairStep \/ Stop
  \/ EncodePop \/ EncodeAndSend \/ Capture \/ SenderChanges \/ DeviceLost

Spec == Init /\ [][Next]_vars

-----------------------------------------------------------------------------
(* What must hold in every reachable state *)

(* Whatever init() and connect() allocated before one of their steps failed has been
   released by the error branch of that step, on the way to the fallback codec too
   (encoder_controller.cpp:67-350, rtsp_publisher_client.cpp:24-119).  The objects are those
   the two classes hold; what the muxer opens for itself is not one of them. *)
NothingLeaks == Encoder!Accounted(encoder) /\ Rtsp!Accounted(rtsp)

(* An RTSP session describes the encoder that feeds it: a session never outlives the
   encoder whose codec parameters it was opened with (supervisor.cpp:796-799). *)
SessionFitsEncoder == Rtsp!Up(rtsp) => Encoder!Ready(encoder)

(* What the encoder repeats while the content is unchanged is the picture of whoever
   publishes: after a handoff in either direction nobody keeps sending the old one
   (supervisor.cpp:195, :283, :846; encoder_controller.cpp:391, :476). *)
PictureIsCurrent ==
  /\ thread = "running" /\ freeze # "none" /\ ~content_changed => encoder.picture = "source"
  /\ state = "PLACEHOLDER" /\ placeholder = "repeat" => encoder.picture = "placeholder"

(* No frame that may still be encoded borrows from a receiver that disconnect() or
   reinit_device() has given up (supervisor.cpp:425-429, :989-993).  It may be stale: within
   a session of the receiver nothing holds a texture until its frames have been encoded,
   although the pointer is valid only until the next reception (spout_monitor.cpp:157-158). *)
FramesOfPresentReceiver ==
  thread = "running" => freeze # "freed" /\ queue[1] # "freed"

(* A CPU encoder reads frame.data: it is never given a frame that is only a texture,
   whichever path the encoder before it was on (encoder_controller.cpp:476-486). *)
CpuEncoderGetsPixels ==
  thread = "running" /\ ~encoder.gpu => freeze \notin Borrowed /\ queue[1] \notin Borrowed

(* As long as frames are captured or the placeholder's encoder may be handed over, the
   receiver is in the mode of the encoder (supervisor.cpp:780-789, :991). *)
ReceiverModeMatchesEncoder ==
  pump = "running" \/ (state = "PLACEHOLDER" /\ placeholder # "off") \/ CanSeamlessHandoff
    => spout.gpu_mode = encoder.gpu

(* The textures of a GPU encoder's pool are those of the receiver's present device: no
   encoder survives the re-creation of the device (supervisor.cpp:641-647). *)
EncoderOnLiveDevice == encoder.device # "replaced"

-----------------------------------------------------------------------------
(* The inductive invariant behind the theorems of MediaPathProofs *)

(* Where the worker threads run, and what they find there. *)
WorkersInv ==
  /\ thread # "none" => Watching
  /\ Watching \/ state = "RECONNECTING_OUTPUT" => Encoder!Ready(encoder) /\ encoder.exists
  /\ pump = "running" => Watching \/ state \in {"RECONFIGURING", "RECONNECTING_OUTPUT", "RECOVERING_DEVICE"}
  /\ pump # "running" => queue = NoItem
  /\ thread # "running" => freeze = "none"
  /\ placeholder # "off" => state \in {"PLACEHOLDER", "STOPPING"}

(* The receiver is in the mode of the encoder, or in CPU mode without one. *)
ModeInv == spout.gpu_mode = encoder.gpu

(* A frame on its way to the encoder is of the present receiver, and a texture only for a
   GPU encoder; so is one saved for a restart that will not drop its texture. *)
Usable(frame) == frame # "freed" /\ (frame \in Borrowed => encoder.gpu)
FramesInv ==
  /\ Usable(queue[1]) /\ Usable(freeze)
  /\ Watching \/ state = "RECONNECTING_OUTPUT" => Usable(initial_frame)

(* Whoever is about to publish something else than the session was last sent finds an IDR
   requested. *)
KeyInv ==
  /\ thread = "running" /\ rtsp.last # "source" => Encoder!Key(encoder)
  /\ state = "PLACEHOLDER" /\ placeholder # "off" /\ rtsp.last # "placeholder" => Encoder!Key(encoder)

(* What every reachable state satisfies, and every step preserves *)
MediaInv ==
  /\ TypeOK /\ NothingLeaks /\ SessionFitsEncoder /\ EncoderOnLiveDevice /\ PictureIsCurrent
  /\ WorkersInv /\ ModeInv /\ FramesInv /\ KeyInv

-----------------------------------------------------------------------------
(* What no step may do *)

(* The first picture of a session, and the first after the placeholder and the source
   have changed places in it, is an IDR: a viewer can decode from there
   (supervisor.cpp:208-210, :393-396, :743-746). *)
SwitchStartsWithKey ==
  [][rtsp'.last \notin {rtsp.last, "none"} => Encoder!Key(encoder)]_vars

(* A stream that starts from CONNECTING_OUTPUT has a receiver whose update event was consumed
   by no path but the one in use; otherwise it might never receive (supervisor.cpp:419-423).
   The return from RECONFIGURING does not keep this. *)
StartsInItsMode ==
  [][state = "CONNECTING_OUTPUT" /\ state' = "STREAMING" => Spout!ReceivesInItsMode(spout')]_vars

(* supervisor.cpp:768-772: the pool has the sender's format, since a mismatch fails
   silently and always shows black.  Refuted by a run. *)
PoolMatchesSender ==
  [][state = "CONNECTING_OUTPUT" /\ state' = "STREAMING" /\ encoder'.gpu
       => encoder'.pool = sender]_vars
-----------------------------------------------------------------------------
(* Who publishes, and the session as its user sees it *)
PublishedBy ==
  IF thread = "running" THEN "source"
  ELSE IF placeholder # "off" /\ state = "PLACEHOLDER" THEN "placeholder" ELSE "nobody"
Session ==
  IF ~rtsp.exists THEN "none" ELSE IF rtsp.connected THEN "connected" ELSE "broken"

Publishing ==
  INSTANCE Publisher WITH encoder <- Encoder!Ready(encoder), session <- Session,
                          publisher <- PublishedBy

(* With the receiver, the encoder and the client in it, the program still does no more than
   Publisher allows: the source and the placeholder take turns at one output, on either
   receive path and through every way in which init() and connect() fail. *)
ImplementsPublisher == Publishing!PublisherSpec

(* Added to the inductive invariant for that: who publishes has an encoder and a session,
   and the session is gone while it is repaired. *)
PublishInv ==
  /\ state # "INIT" /\ (state = "RECONNECTING_OUTPUT" => ~rtsp.exists)
  /\ PublishedBy # "nobody" => Encoder!Ready(encoder) /\ encoder.exists /\ Rtsp!Up(rtsp)
=============================================================================
