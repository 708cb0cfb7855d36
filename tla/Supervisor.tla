----------------------------- MODULE Supervisor -----------------------------
(***************************************************************************)
(* The Supervisor (src/app/supervisor.cpp): the main thread that runs one  *)
(* state handler per turn of run()'s loop, the encode/publish thread that  *)
(* it starts and joins, the capture thread of the FramePump, and the world *)
(* around them: a Spout sender that comes and goes and changes resolution, *)
(* a GPU device that may be lost, an RTSP server that may refuse or drop   *)
(* the session, and a user who may press Ctrl+C at any time.               *)
(*                                                                         *)
(* Data is abstracted to what the control flow tells apart.  A frame is    *)
(* its resolution.  encoder is the resolution the encoder was initialised  *)
(* with (None: no encoder).  rtsp is "none" (null pointer), "connected" or *)
(* "broken" (a client whose is_connected() is false).  Elapsed times are   *)
(* small counters that saturate just above the thresholds they are         *)
(* compared with.  FrameMeta, logging, metrics and packets are left out.   *)
(* Frames are those of the CPU receive path, which own their pixels; what  *)
(* the GPU path adds, whose frames borrow a texture of the receiver, is in *)
(* module MediaPath.                                                       *)
(*                                                                         *)
(* A definition named Slip... is a plausible programming error in the      *)
(* definition that follows it.  No specification uses one: PROJECT.json    *)
(* pairs it with the property that detects it.                             *)
(***************************************************************************)
EXTENDS Naturals, Sequences, StateMachine

CONSTANTS
  Resolutions,       \* resolutions a source or the placeholder may have
  None,              \* "no frame", "no encoder", "no resolution known yet"
  PlaceholderEnabled,          \* config placeholder.enabled
  PlaceholderResolution,       \* config placeholder.width/height
  Unrenderable,      \* resolutions render_placeholder_frame() refuses (0, > 8192)
  MaxReconnectAttempts,        \* config rtsp.max_reconnect_attempts
  ReconnectDelay, ReconnectMaxDelay,  \* config rtsp.reconnect_delay_ms, _max_delay_ms
  BackoffNumerator, BackoffDenominator,  \* config rtsp.reconnect_backoff_multiplier
  StalledRecoveryMaxAttempts,  \* config spout.stalled_recovery_max_attempts (0: disabled)
  FrameTimeout,      \* config spout.frame_timeout_ms, in ticks of source_age
  SenderMissingTimeout,        \* config spout.sender_missing_timeout_ms, ticks of stall_age
  ProlongedStall,    \* 3 * config rtsp.reconnect_delay_ms, in ticks of stall_age
  MaxQueueSize,      \* FramePump::MAX_QUEUE_SIZE
  StallCountBound    \* where the model stops counting stall recoveries

(* What ConfigLoader::load() insists on *)
ConfigAccepted ==
  /\ MaxReconnectAttempts \in Nat /\ FrameTimeout \in Nat \ {0}
  /\ ReconnectDelay \in Nat \ {0} /\ ReconnectMaxDelay \in Nat
  /\ ReconnectMaxDelay >= ReconnectDelay
  /\ BackoffNumerator \in Nat /\ BackoffDenominator \in Nat \ {0}
  /\ BackoffNumerator >= BackoffDenominator

ASSUME SupervisorAssumption ==
  /\ ConfigAccepted
  /\ None \notin Resolutions
  /\ PlaceholderResolution \in Resolutions
  /\ Unrenderable \subseteq Resolutions
  /\ PlaceholderEnabled \in BOOLEAN
  /\ StalledRecoveryMaxAttempts \in Nat
  /\ SenderMissingTimeout \in Nat /\ ProlongedStall \in Nat
  /\ MaxQueueSize \in Nat \ {0}
  /\ StallCountBound \in Nat /\ StalledRecoveryMaxAttempts <= StallCountBound

VARIABLES
  \* the main thread
  state,             \* state_machine_.current_state()
  pc,                \* where the main thread is inside run() and the handler
  shutdown,          \* shutdown_requested_
  metrics_thread,    \* "none" (not joinable), "running" or "done"
  \* the encode thread
  enc,               \* where it is; "none" (not joinable), "done" (returned)
  encode_stop,       \* encode_stop_
  flags,             \* which of its three error/change flags are set
  pending,           \* pending_width_/pending_height_
  freeze,            \* its local freeze_buf (None: has_freeze is false)
  \* shared by handover: owned by the encode thread while it runs
  initial_frame,     \* initial_frame_buf_
  current,           \* current_width_/current_height_
  encoder,           \* encoder_
  rtsp,              \* rtsp_client_
  \* the frame pump and the Spout receiver
  pump,              \* frame_pump_: "none" (null), "stopped" or "running"
  queue,             \* FramePump::queue_
  source_age,        \* now - last_source_alive_ms(), saturating
  connected,         \* SpoutMonitor's impl_->connected
  \* owned by the main thread
  last_source,       \* last_source_width_/height_
  stall_age,         \* stall_timer_'s elapsed time, saturating
  reconnect_attempts,
  backoff_attempt,   \* rtsp_backoff_.attempt
  backoff_delay,     \* rtsp_backoff_.delay_ms
  consecutive_stall_recoveries,
  seamless_handoff,
  placeholder,       \* placeholder_frame_ while placeholder_active_, else None
  cooldown,          \* placeholder_cooldown_active_ and its timer
  probe_due,         \* placeholder_probe_timer_ is past spout.poll_interval_ms
  wait_expired,      \* local of the first-frame wait: its Stopwatch is past the limit
  source_responded,  \* local of the first-frame wait: an ok reception was seen
  \* the environment
  sender,            \* the Spout sender exists
  device_lost        \* GetDeviceRemovedReason() # S_OK

mainVars   == <<state, pc>>
encVars    == <<enc, encode_stop, freeze>>
flagVars   == <<flags, pending>>
threadVars == <<encVars, flagVars>>
frameVars  == <<initial_frame, current, last_source>>
outVars    == <<encoder, rtsp>>
pumpVars   == <<pump, queue, source_age>>
streamVars == <<frameVars, outVars, pumpVars, connected>>
retryVars  == <<stall_age, reconnect_attempts, backoff_attempt, backoff_delay,
                consecutive_stall_recoveries>>
holdVars   == <<seamless_handoff, placeholder, cooldown, probe_due>>
waitVars   == <<wait_expired, source_responded>>
noteVars   == <<retryVars, holdVars, waitVars>>
envVars    == <<sender, device_lost>>
worldVars  == <<shutdown, metrics_thread, envVars>>
vars == <<mainVars, threadVars, streamVars, noteVars, worldVars>>

MaxOf(a, b) == IF a >= b THEN a ELSE b
SourceAgeLimit == FrameTimeout + 1
StallAgeLimit  == MaxOf(SenderMissingTimeout, ProlongedStall)

MaybeRes == Resolutions \cup {None}

EncAlive == {"begin", "top", "pop", "pace", "encode", "send"}
Flag == {"encode_error", "rtsp_error", "resolution_changed"}

Joins == {"stop_join", "device_join", "probing_join", "reconnect_join",
          "reconfigure_join", "missing_join", "prolonged_join"}
MainPC == {"loop", "handle", "device", "liveness", "encode_flag", "rtsp_flag",
           "resolution_flag", "missing", "prolonged", "connect_wait", "connect_init",
           "placeholder_probe", "placeholder_send", "reconnect", "final_join",
           "join_metrics", "exited"} \cup Joins

TypeSwitches ==
  /\ shutdown \in BOOLEAN /\ encode_stop \in BOOLEAN /\ connected \in BOOLEAN
  /\ seamless_handoff \in BOOLEAN /\ wait_expired \in BOOLEAN
  /\ source_responded \in BOOLEAN /\ sender \in BOOLEAN /\ device_lost \in BOOLEAN
  /\ probe_due \in BOOLEAN
TypePhases ==
  /\ state \in PublisherState /\ pc \in MainPC
  /\ metrics_thread \in {"running", "done", "none"}
  /\ enc \in EncAlive \cup {"none", "done"}
  /\ rtsp \in {"none", "connected", "broken"} /\ pump \in {"none", "stopped", "running"}
  /\ cooldown \in {"off", "waiting", "over"}
TypeFlags == flags \subseteq Flag
TypeFrames ==
  /\ pending \in MaybeRes /\ freeze \in MaybeRes /\ initial_frame \in MaybeRes
  /\ current \in MaybeRes /\ last_source \in MaybeRes /\ encoder \in MaybeRes
  /\ placeholder \in MaybeRes
  /\ queue \in Seq(Resolutions) /\ Len(queue) <= MaxQueueSize
TypeCounters ==
  /\ source_age \in 0..SourceAgeLimit /\ stall_age \in 0..StallAgeLimit
  /\ reconnect_attempts \in 0..(MaxReconnectAttempts + 1)
  /\ backoff_attempt \in 0..MaxReconnectAttempts
  /\ backoff_delay \in ReconnectDelay..ReconnectMaxDelay
  /\ consecutive_stall_recoveries \in 0..StallCountBound
TypeOK == TypeSwitches /\ TypePhases /\ TypeFlags /\ TypeFrames /\ TypeCounters

(***************************************************************************)
(* After Supervisor::init() succeeded and run() has entered IDLE and       *)
(* started the metrics writer thread.                                      *)
(***************************************************************************)
Init ==
  /\ state = TransitionTo("INIT", "IDLE") /\ pc = "loop"
  /\ shutdown = FALSE /\ metrics_thread = "running"
  /\ enc = "none" /\ encode_stop = FALSE /\ freeze = None
  /\ flags = {} /\ pending = None
  /\ initial_frame = None /\ current = None /\ last_source = None
  /\ encoder = None /\ rtsp = "none"
  /\ pump = "none" /\ queue = <<>> /\ source_age = 0 /\ connected = FALSE
  /\ stall_age = 0 /\ reconnect_attempts = 0
  /\ backoff_attempt = 0 /\ backoff_delay = ReconnectDelay
  /\ consecutive_stall_recoveries = 0
  /\ seamless_handoff = FALSE /\ placeholder = None /\ cooldown = "off" /\ probe_due = FALSE
  /\ wait_expired = FALSE /\ source_responded = FALSE
  /\ sender \in BOOLEAN /\ device_lost = FALSE

-----------------------------------------------------------------------------
(* Helpers: the member functions the handlers share *)

Goto(label) == pc' = label /\ UNCHANGED state
Leave(to)   == state' = TransitionTo(state, to) /\ pc' = "loop"

(* A handler about to run, and one that has seen shutdown_requested_ unset *)
At(s)      == pc = "handle" /\ state = s
Handles(s) == At(s) /\ ~shutdown

(* A step of the main thread that decides where to go next and no more *)
ControlOnly == UNCHANGED <<threadVars, streamVars, noteVars, worldVars>>

(* start_encode_thread() *)
StartEncodeThread ==
  enc' = "begin" /\ encode_stop' = FALSE /\ flags' = {} /\ UNCHANGED <<freeze, pending>>

(* stop_encode_thread() stores encode_stop_, and the main thread then waits;
   join() returns once the thread has returned, at once if there is none *)
SlipJoinWithoutStop(label) == Goto(label) /\ UNCHANGED encode_stop
SlipNoJoin == UNCHANGED <<enc, freeze>>
RequestEncodeStop(label) == encode_stop' = TRUE /\ Goto(label)
Joined == enc \notin EncAlive /\ enc' = "none" /\ UNCHANGED freeze

(* frame_pump_->start(): a fresh liveness time, an empty queue *)
StartPump == pump' = "running" /\ queue' = <<>> /\ source_age' = 0

(* frame_pump_->stop(); frame_pump_.reset() *)
SlipStopOnly == pump' = "stopped" /\ queue' = <<>> /\ UNCHANGED source_age
TeardownPump == pump' = "none" /\ queue' = <<>> /\ UNCHANGED source_age

(* init_encoder_and_rtsp(res) succeeding: a new encoder, a connected client *)
InitEncoderAndRtsp(res) == encoder' = res /\ rtsp' = "connected"

(* teardown_rtsp() and teardown_encoder() *)
SlipTeardownRtspOnly == rtsp' = "none" /\ UNCHANGED <<encoder, frameVars>>
TeardownOutput ==
  rtsp' = "none" /\ encoder' = None /\ UNCHANGED frameVars

(* teardown_streaming() once its stop_encode_thread() has joined; and all of it,
   in a handler that runs with no encode thread to wait for *)
ReleaseStreaming  == Joined /\ TeardownPump /\ TeardownOutput
TeardownStreaming == ReleaseStreaming /\ encode_stop' = TRUE

(* encoder_ && rtsp_client_ && rtsp_client_->is_connected() *)
SlipSessionNotNull == encoder # None /\ rtsp # "none"
SessionUp == encoder # None /\ rtsp = "connected"

(* supervisor_logic::can_seamless_handoff *)
SlipAnyResolution(res) == seamless_handoff /\ SessionUp
CanSeamlessHandoff(res) == seamless_handoff /\ SessionUp /\ res = current

(* supervisor_logic::should_force_spout_recovery *)
SlipForceTooLate(count) ==
  StalledRecoveryMaxAttempts > 0 /\ count > StalledRecoveryMaxAttempts
ShouldForceSpoutRecovery(count) ==
  StalledRecoveryMaxAttempts > 0 /\ count >= StalledRecoveryMaxAttempts

(* SpoutMonitor::receive_latest_frame() can return true *)
CanReceive == connected /\ sender /\ ~device_lost

-----------------------------------------------------------------------------
(* Supervisor::run() *)

LoopEnter == pc = "loop" /\ ~shutdown /\ Goto("handle") /\ ControlOnly

LoopExit ==
  /\ pc = "loop" /\ shutdown
  /\ IF state # "FATAL"
       THEN /\ state' = TransitionTo(state, "STOPPING")
            /\ encode_stop' = TRUE /\ pc' = "final_join"
       ELSE Goto("join_metrics") /\ UNCHANGED encode_stop
  /\ UNCHANGED <<enc, freeze, flagVars, streamVars, noteVars, worldVars>>

(* handle_stopping(), whose stop_encode_thread() has stored encode_stop_ *)
HandleStopping ==
  /\ pc = "final_join" /\ ReleaseStreaming
  /\ state' = TransitionTo(state, "IDLE") /\ pc' = "join_metrics"
  /\ UNCHANGED <<encode_stop, flagVars, connected, noteVars, worldVars>>

JoinMetrics ==
  /\ pc = "join_metrics" /\ metrics_thread = "done"
  /\ metrics_thread' = "none" /\ Goto("exited")
  /\ UNCHANGED <<threadVars, streamVars, noteVars, shutdown, envVars>>

(* case PublisherState::FATAL *)
HandleFatal ==
  /\ At("FATAL") /\ TeardownStreaming /\ shutdown' = TRUE /\ Goto("loop")
  /\ UNCHANGED <<flagVars, connected, noteVars, metrics_thread, envVars>>

-----------------------------------------------------------------------------
(* handle_idle(), handle_probing() *)

HandleIdle ==
  At("IDLE") /\ Leave(IF shutdown THEN "STOPPING" ELSE "PROBING") /\ ControlOnly

ProbingStop == At("PROBING") /\ shutdown /\ Leave("STOPPING") /\ ControlOnly

ProbingFound ==
  /\ Handles("PROBING") /\ sender /\ connected' = TRUE /\ Leave("CONNECTING_OUTPUT")
  /\ UNCHANGED <<threadVars, frameVars, outVars, pumpVars, noteVars, worldVars>>

(* no sender: stay, unless the placeholder is enabled and not cooling down *)
ProbingMissing ==
  /\ Handles("PROBING") /\ ~sender
  /\ IF PlaceholderEnabled /\ cooldown # "waiting"
       THEN Leave("PLACEHOLDER") /\ cooldown' = "off"
       ELSE Goto("loop") /\ UNCHANGED cooldown
  /\ UNCHANGED <<seamless_handoff, placeholder, probe_due, threadVars, streamVars, retryVars,
                 waitVars, worldVars>>

-----------------------------------------------------------------------------
(* handle_placeholder() *)

(* A handler that runs without an encode thread sees shutdown_requested_ *)
StopWithoutThread ==
  /\ \/ \E s \in {"PLACEHOLDER", "CONNECTING_OUTPUT", "RECONFIGURING",
                  "RECONNECTING_OUTPUT", "RECOVERING_DEVICE"} : At(s)
     \/ pc = "reconnect"
  /\ shutdown /\ TeardownStreaming /\ Leave("STOPPING")
  /\ UNCHANGED <<flagVars, connected, noteVars, worldVars>>

PlaceholderSize == IF last_source # None THEN last_source ELSE PlaceholderResolution

(* already publishing, or render_placeholder_frame() returned an empty frame:
   the latter retries on the next loop *)
PlaceholderContinue ==
  /\ Handles("PLACEHOLDER") /\ ControlOnly
  /\ \/ placeholder # None /\ Goto("placeholder_probe")
     \/ placeholder = None /\ PlaceholderSize \in Unrenderable /\ Goto("loop")

(* Take over the session that is up, or init_encoder_and_rtsp(), which may fail:
   then tear down and retry on the next loop *)
PlaceholderStart ==
  /\ Handles("PLACEHOLDER") /\ placeholder = None /\ PlaceholderSize \notin Unrenderable
  /\ IF CanSeamlessHandoff(PlaceholderSize)
       THEN UNCHANGED outVars ELSE InitEncoderAndRtsp(PlaceholderSize)
  /\ seamless_handoff' = FALSE /\ placeholder' = PlaceholderSize /\ probe_due' = FALSE
  /\ current' = PlaceholderSize /\ Goto("placeholder_probe")
  /\ UNCHANGED <<initial_frame, last_source, threadVars, pumpVars, connected, retryVars,
                 cooldown, waitVars, worldVars>>

PlaceholderStartFails ==
  /\ Handles("PLACEHOLDER") /\ placeholder = None /\ PlaceholderSize \notin Unrenderable
  /\ ~CanSeamlessHandoff(PlaceholderSize)
  /\ TeardownOutput /\ seamless_handoff' = FALSE /\ Goto("loop")
  /\ UNCHANGED <<threadVars, pumpVars, connected, retryVars, placeholder, probe_due, cooldown,
                 waitVars, worldVars>>

(* Once the probe timer has expired the sender is looked for, and the timer starts again,
   as it does with each start of the placeholder.  The real source is back: *)
PlaceholderSourceFound ==
  /\ pc = "placeholder_probe" /\ probe_due /\ sender /\ connected' = TRUE
  /\ IF SessionUp
       THEN seamless_handoff' = TRUE /\ UNCHANGED <<outVars, frameVars>>
       ELSE TeardownOutput /\ UNCHANGED seamless_handoff
  /\ placeholder' = None /\ probe_due' = FALSE /\ cooldown' = "waiting"
  /\ Leave("CONNECTING_OUTPUT")
  /\ UNCHANGED <<threadVars, pumpVars, retryVars, waitVars, worldVars>>

(* it is not yet time to probe, or there is no sender; *)
PlaceholderNoSource ==
  /\ pc = "placeholder_probe" /\ (probe_due => ~sender) /\ probe_due' = FALSE
  /\ Goto("placeholder_send")
  /\ UNCHANGED <<threadVars, streamVars, retryVars, seamless_handoff, placeholder, cooldown,
                 waitVars, worldVars>>

(* then a frame is encoded and sent, unless the send interval has not elapsed *)
PlaceholderSend ==
  pc = "placeholder_send" /\ Goto("loop") /\ ControlOnly

(* encode() or send_packet() failed *)
SlipStaysActive ==
  /\ pc = "placeholder_send" /\ TeardownOutput /\ Goto("loop")
  /\ UNCHANGED <<threadVars, pumpVars, connected, retryVars, holdVars, waitVars, worldVars>>
PlaceholderSendFails ==
  /\ pc = "placeholder_send" /\ TeardownOutput /\ placeholder' = None /\ Goto("loop")
  /\ UNCHANGED <<threadVars, pumpVars, connected, retryVars, seamless_handoff, cooldown,
                 probe_due, waitVars, worldVars>>

-----------------------------------------------------------------------------
(* handle_connecting_output() *)

ConnectBegin ==
  Handles("CONNECTING_OUTPUT") /\ Goto("connect_wait") /\ ControlOnly

(* the wait loop's stopwatch and source_responded are locals: gone on return *)
EndWait == wait_expired' = FALSE /\ source_responded' = FALSE

(* the wait loop, or the check after it, sees shutdown_requested_ *)
ConnectStop ==
  /\ pc \in {"connect_wait", "connect_init"} /\ shutdown /\ EndWait /\ Leave("STOPPING")
  /\ UNCHANGED <<threadVars, streamVars, retryVars, holdVars, worldVars>>

(* receive_latest_frame() delivered a new frame *)
ConnectFirstFrame ==
  /\ pc = "connect_wait" /\ ~shutdown /\ CanReceive /\ EndWait /\ Goto("connect_init")
  /\ UNCHANGED <<threadVars, streamVars, retryVars, holdVars, worldVars>>

(* supervisor_logic::should_reset_connect_timer_once: source_responded' becomes
   TRUE, and only its first change resets the timer *)
SlipResetEachTime(expired) == FALSE
ResetConnectTimerOnce(expired) == expired /\ source_responded

(* a turn of the wait loop without a new frame, the source answering (ok) or not: the
   timer is tested after the reset that a first ok reception brings *)
ConnectNoFrame ==
  /\ pc = "connect_wait" /\ ~shutdown
  /\ \E ok \in {FALSE, CanReceive} :
       LET expired == IF ok THEN ResetConnectTimerOnce(wait_expired) ELSE wait_expired IN
       IF expired
         THEN connected' = FALSE /\ EndWait /\ Leave("PROBING")
         ELSE /\ wait_expired' = expired /\ source_responded' = (source_responded \/ ok)
              /\ UNCHANGED <<mainVars, connected>>
  /\ UNCHANGED <<threadVars, frameVars, outVars, pumpVars, retryVars, holdVars, worldVars>>

(* reconnect_attempts_ = 0; rtsp_backoff_.reset(reconnect_delay_ms) *)
SlipKeepBackoff == reconnect_attempts' = 0 /\ UNCHANGED <<backoff_attempt, backoff_delay>>
ResetRetries ==
  reconnect_attempts' = 0 /\ backoff_attempt' = 0 /\ backoff_delay' = ReconnectDelay

(* rtsp_backoff_.next_delay(): the product is truncated to whole milliseconds.  (The code
   computes in float, which is exact below 2^24 ms.) *)
Grown(delay) == (delay * BackoffNumerator) \div BackoffDenominator
NextDelay(delay) ==
  IF Grown(delay) <= ReconnectMaxDelay THEN Grown(delay) ELSE ReconnectMaxDelay

(* The first frame has resolution res.  Keep the session of the placeholder if it
   fits; otherwise init_encoder_and_rtsp(res), then disconnect and connect again the
   Spout receiver: SpoutMonitor::connect() never fails. *)
ConnectSuccess(res) ==
  /\ pc = "connect_init" /\ ~shutdown
  /\ IF CanSeamlessHandoff(res)
       THEN UNCHANGED <<outVars, connected>>
       ELSE InitEncoderAndRtsp(res) /\ connected' = TRUE
  /\ initial_frame' = res /\ last_source' = res /\ current' = res /\ seamless_handoff' = FALSE
  /\ StartPump /\ StartEncodeThread
  /\ ResetRetries /\ consecutive_stall_recoveries' = 0
  /\ Leave("STREAMING")
  /\ UNCHANGED <<stall_age, placeholder, cooldown, probe_due, waitVars, worldVars>>

ConnectFails(res) ==
  /\ pc = "connect_init" /\ ~shutdown /\ ~CanSeamlessHandoff(res)
  /\ encoder' = None /\ rtsp' = "none" /\ initial_frame' = res
  /\ last_source' = res /\ current' = res /\ connected' = FALSE
  /\ seamless_handoff' = FALSE /\ Leave("PROBING")
  /\ UNCHANGED <<threadVars, pumpVars, retryVars, placeholder, cooldown, probe_due, waitVars,
                 worldVars>>

-----------------------------------------------------------------------------
(* handle_streaming() and handle_stalled(): each check is a step of its own,
   because the encode thread runs between them.
     STREAMING: shutdown, device, encode flag, rtsp flag, resolution flag, liveness
     STALLED:   shutdown, device, liveness, encode flag, rtsp flag, missing, prolonged *)

Watching == state \in {"STREAMING", "STALLED"}

WatchBegin ==
  /\ pc = "handle" /\ Watching
  /\ IF shutdown THEN RequestEncodeStop("stop_join")
                 ELSE Goto("device") /\ UNCHANGED encode_stop
  /\ UNCHANGED <<enc, freeze, flagVars, streamVars, noteVars, worldVars>>

(* A check: when "seen", clear the flag it is about and stop the encode thread *)
SlipClearUnseen(at, seen, flag, join, next) ==
  /\ pc = at /\ flags' = flags \ {flag}
  /\ IF seen THEN RequestEncodeStop(join) ELSE Goto(next) /\ UNCHANGED encode_stop
  /\ UNCHANGED <<enc, freeze, pending, streamVars, noteVars, worldVars>>
Check(at, seen, flag, join, next) ==
  /\ pc = at
  /\ IF seen THEN flags' = flags \ {flag} /\ RequestEncodeStop(join)
             ELSE Goto(next) /\ UNCHANGED <<flags, encode_stop>>
  /\ UNCHANGED <<enc, freeze, pending, streamVars, noteVars, worldVars>>

(* is_device_removed(): the collateral encode error is cleared *)
WatchDevice ==
  Check("device", device_lost, "encode_error", "device_join",
        IF state = "STREAMING" THEN "encode_flag" ELSE "liveness")

(* encode_error_flag_, rtsp_error_flag_, resolution_changed_flag_ .exchange(false) *)
WatchEncodeFlag ==
  Check("encode_flag", "encode_error" \in flags, "encode_error", "probing_join", "rtsp_flag")
WatchRtspFlag ==
  Check("rtsp_flag", "rtsp_error" \in flags, "rtsp_error", "reconnect_join",
        IF state = "STREAMING" THEN "resolution_flag" ELSE "missing")
WatchResolutionFlag ==
  Check("resolution_flag", "resolution_changed" \in flags, "resolution_changed",
        "reconfigure_join", "liveness")

StreamingLiveness ==
  /\ pc = "liveness" /\ state = "STREAMING"
  /\ IF pump # "none" /\ source_age > FrameTimeout
       THEN stall_age' = 0 /\ Leave("STALLED")
       ELSE Goto("loop") /\ UNCHANGED stall_age
  /\ UNCHANGED <<threadVars, streamVars, reconnect_attempts, backoff_attempt, backoff_delay,
                 consecutive_stall_recoveries, holdVars, waitVars, worldVars>>

StalledLiveness ==
  /\ pc = "liveness" /\ state = "STALLED"
  /\ IF pump # "none" /\ source_age < FrameTimeout
       THEN consecutive_stall_recoveries' = 0 /\ Leave("STREAMING")
       ELSE Goto("encode_flag") /\ UNCHANGED consecutive_stall_recoveries
  /\ UNCHANGED <<threadVars, streamVars, stall_age, reconnect_attempts, backoff_attempt,
                 backoff_delay, holdVars, waitVars, worldVars>>

StalledMissing ==
  Check("missing", stall_age >= SenderMissingTimeout /\ ~sender, "none", "missing_join",
        "prolonged")
StalledProlonged ==
  Check("prolonged", stall_age >= ProlongedStall, "none", "prolonged_join", "loop")

-----------------------------------------------------------------------------
(* What each check does once stop_encode_thread() has joined *)

JoinedTeardown ==
  /\ ReleaseStreaming
  /\ \/ pc = "stop_join" /\ Leave("STOPPING")
     \/ pc = "probing_join" /\ Leave("PROBING")
  /\ UNCHANGED <<encode_stop, flagVars, connected, noteVars, worldVars>>

JoinedDevice ==
  /\ pc = "device_join" /\ Joined /\ Leave("RECOVERING_DEVICE")
  /\ UNCHANGED <<encode_stop, flagVars, streamVars, noteVars, worldVars>>

JoinedReconnect ==
  /\ pc = "reconnect_join" /\ Joined /\ rtsp' = "none" /\ Leave("RECONNECTING_OUTPUT")
  /\ UNCHANGED <<encode_stop, flagVars, frameVars, encoder, pumpVars, connected, noteVars,
                 worldVars>>

JoinedReconfigure ==
  /\ pc = "reconfigure_join" /\ Joined /\ current' = pending /\ Leave("RECONFIGURING")
  /\ UNCHANGED <<encode_stop, flagVars, initial_frame, last_source, outVars, pumpVars,
                 connected, noteVars, worldVars>>

(* The sender disappeared.  With the placeholder: release the pump and the
   receiver, and keep encoder and RTSP for a seamless handoff.  Without: release
   everything.  After a prolonged stall only the first case is looked for. *)
JoinedMissing ==
  /\ Joined /\ TeardownPump /\ connected' = FALSE
  /\ \/ pc = "missing_join" \/ (pc = "prolonged_join" /\ PlaceholderEnabled /\ ~sender)
  /\ IF PlaceholderEnabled
       THEN /\ seamless_handoff' = SessionUp
            /\ cooldown' = "off" /\ Leave("PLACEHOLDER") /\ UNCHANGED <<frameVars, outVars>>
       ELSE TeardownOutput /\ Leave("IDLE") /\ UNCHANGED <<seamless_handoff, cooldown>>
  /\ UNCHANGED <<encode_stop, flagVars, retryVars, placeholder, probe_due, waitVars, worldVars>>

SlipCountStuck == consecutive_stall_recoveries
NextStallCount ==
  IF consecutive_stall_recoveries < StallCountBound
    THEN consecutive_stall_recoveries + 1 ELSE consecutive_stall_recoveries

(* ++consecutive_stall_recoveries_, then the watchdog or an RTSP-only reconnect *)
ProlongedRecovery ==
  /\ pc = "prolonged_join" /\ Joined /\ ~(PlaceholderEnabled /\ ~sender) /\ rtsp' = "none"
  /\ IF ShouldForceSpoutRecovery(NextStallCount)
       THEN /\ consecutive_stall_recoveries' = 0
            /\ TeardownPump /\ TeardownOutput /\ connected' = FALSE /\ Leave("PROBING")
       ELSE /\ consecutive_stall_recoveries' = NextStallCount
            /\ Leave("RECONNECTING_OUTPUT")
            /\ UNCHANGED <<frameVars, encoder, pumpVars, connected>>
  /\ UNCHANGED <<encode_stop, flagVars, stall_age, reconnect_attempts, backoff_attempt,
                 backoff_delay, holdVars, waitVars, worldVars>>

-----------------------------------------------------------------------------
(* handle_recovering_device(), handle_reconfiguring(), handle_reconnecting_output() *)

(* reinit_device() disconnects the receiver whether or not it succeeds *)
RecoverDevice ==
  /\ Handles("RECOVERING_DEVICE") /\ TeardownStreaming /\ connected' = FALSE
  /\ \/ device_lost' = FALSE /\ Leave("PROBING")
     \/ Leave("FATAL") /\ UNCHANGED device_lost
  /\ UNCHANGED <<flagVars, noteVars, shutdown, metrics_thread, sender>>

Reconfigure ==
  /\ Handles("RECONFIGURING") /\ InitEncoderAndRtsp(current)
  /\ last_source' = current /\ StartPump /\ StartEncodeThread /\ Leave("STREAMING")
  /\ UNCHANGED <<initial_frame, current, connected, noteVars, worldVars>>

ReconfigureFails ==
  /\ Handles("RECONFIGURING") /\ TeardownOutput /\ connected' = FALSE
  /\ pump' = IF pump = "none" THEN "none" ELSE "stopped"
  /\ queue' = <<>> /\ Leave("PROBING")
  /\ UNCHANGED <<threadVars, source_age, noteVars, worldVars>>

(* The attempts, the current one included, are more than rtsp.max_reconnect_attempts *)
SlipGiveUpEarly(attempts) == attempts >= MaxReconnectAttempts
Exhausted(attempts) == attempts > MaxReconnectAttempts

(* ++reconnect_attempts_: give up, or take the next delay and sleep *)
ReconnectBegin ==
  /\ Handles("RECONNECTING_OUTPUT") /\ reconnect_attempts' = reconnect_attempts + 1
  /\ IF Exhausted(reconnect_attempts + 1)
       THEN TeardownStreaming /\ Leave("FATAL") /\ UNCHANGED <<backoff_attempt, backoff_delay>>
       ELSE /\ backoff_attempt' = backoff_attempt + 1
            /\ backoff_delay' = NextDelay(backoff_delay) /\ Goto("reconnect")
            /\ UNCHANGED <<encVars, frameVars, outVars, pumpVars>>
  /\ UNCHANGED <<flagVars, connected, stall_age, consecutive_stall_recoveries, holdVars,
                 waitVars, worldVars>>

Reconnect ==
  /\ pc = "reconnect" /\ ~shutdown /\ rtsp' = "connected" /\ ResetRetries
  /\ StartEncodeThread /\ Leave("STREAMING")
  /\ UNCHANGED <<frameVars, encoder, pumpVars, connected, stall_age,
                 consecutive_stall_recoveries, holdVars, waitVars, worldVars>>

ReconnectFails ==
  /\ pc = "reconnect" /\ ~shutdown /\ rtsp' = "none" /\ Goto("loop")
  /\ UNCHANGED <<threadVars, frameVars, encoder, pumpVars, connected, noteVars, worldVars>>

-----------------------------------------------------------------------------
(* encode_publish_thread_func() *)

(* what no step of the encode thread writes, and a step that only moves on *)
EncodeThreadOnly ==
  UNCHANGED <<mainVars, encode_stop, current, last_source, encoder, pump, source_age,
              connected, noteVars, worldVars>>
EncodeMoves ==
  EncodeThreadOnly /\ UNCHANGED <<freeze, flagVars, initial_frame, rtsp, queue>>

EncodeBegin ==
  /\ enc = "begin" /\ enc' = "top" /\ freeze' = initial_frame /\ initial_frame' = None
  /\ EncodeThreadOnly /\ UNCHANGED <<flagVars, rtsp, queue>>

(* while (!encode_stop_): on exit, the freeze frame is saved for the restart *)
SlipForgetFreeze ==
  /\ enc = "top" /\ enc' = (IF encode_stop THEN "done" ELSE "pop")
  /\ freeze' = (IF encode_stop THEN None ELSE freeze)
  /\ EncodeThreadOnly /\ UNCHANGED <<flagVars, initial_frame, rtsp, queue>>
EncodeTop ==
  /\ enc = "top"
  /\ IF encode_stop
       THEN /\ enc' = "done" /\ freeze' = None
            /\ initial_frame' = IF freeze # None THEN freeze ELSE initial_frame
       ELSE enc' = "pop" /\ UNCHANGED <<freeze, initial_frame>>
  /\ EncodeThreadOnly /\ UNCHANGED <<flagVars, rtsp, queue>>

(* wait_pop() or try_pop() found no frame *)
EncodeNoFrame == enc = "pop" /\ queue = <<>> /\ enc' = "pace" /\ EncodeMoves

(* ... or popped one: a new resolution ends the thread *)
EncodePop ==
  /\ enc = "pop" /\ queue # <<>> /\ queue' = Tail(queue)
  /\ IF Head(queue) # current
       THEN /\ pending' = Head(queue) /\ flags' = flags \cup {"resolution_changed"}
            /\ initial_frame' = Head(queue) /\ freeze' = None /\ enc' = "done"
       ELSE freeze' = Head(queue) /\ enc' = "pace" /\ UNCHANGED <<flagVars, initial_frame>>
  /\ EncodeThreadOnly /\ UNCHANGED rtsp

(* the send interval has not elapsed, there is no frame yet, or the source has
   not responded for frame_timeout_ms *)
EncodeSkip == enc = "pace" /\ enc' = "top" /\ EncodeMoves

EncodeDue ==
  /\ enc = "pace" /\ freeze # None /\ ~(pump # "none" /\ source_age > FrameTimeout)
  /\ enc' = "encode" /\ EncodeMoves

(* encode() succeeded, with packets to send or (encoder delay) without; sent *)
Encode ==
  /\ \/ enc = "encode" /\ enc' \in {"send", "top"}
     \/ enc = "send" /\ enc' = "top"
  /\ EncodeMoves

(* An error return saves the freeze frame and raises a flag.  After a failed write
   the client is disconnected; if no packet could be allocated it is not. *)
EncodeFails ==
  /\ \/ enc = "encode" /\ flags' = flags \cup {"encode_error"} /\ UNCHANGED rtsp
     \/ enc = "send" /\ flags' = flags \cup {"rtsp_error"} /\ rtsp' \in {"connected", "broken"}
  /\ initial_frame' = freeze /\ freeze' = None /\ enc' = "done"
  /\ EncodeThreadOnly /\ UNCHANGED <<pending, queue>>

-----------------------------------------------------------------------------
(* FramePump::capture_thread_func(): the source responds, with a new frame in the
   sender's resolution of the moment or without; a full queue drops its oldest *)
CaptureOnly ==
  UNCHANGED <<mainVars, threadVars, frameVars, outVars, pump, connected, noteVars, worldVars>>

CaptureStatic ==
  pump = "running" /\ CanReceive /\ source_age' = 0 /\ UNCHANGED queue /\ CaptureOnly

SlipOneTooMany == IF Len(queue) > MaxQueueSize THEN Tail(queue) ELSE queue
RoomInQueue    == IF Len(queue) >= MaxQueueSize THEN Tail(queue) ELSE queue
CaptureFrame(res) ==
  /\ pump = "running" /\ CanReceive /\ source_age' = 0 /\ CaptureOnly
  /\ queue' = Append(RoomInQueue, res)

-----------------------------------------------------------------------------
(* The metrics writer thread leaves its loop (its final flush is not modelled here);
   request_stop(), from the console control handler *)
AppOnly == UNCHANGED <<mainVars, threadVars, streamVars, noteVars, envVars>>
MetricsExit ==
  /\ metrics_thread = "running" /\ shutdown /\ metrics_thread' = "done"
  /\ AppOnly /\ UNCHANGED shutdown
RequestStop == ~shutdown /\ shutdown' = TRUE /\ AppOnly /\ UNCHANGED metrics_thread

(* Time: each clock advances only while some test of it matters *)
SourceAges ==
  /\ pump = "running" /\ source_age < SourceAgeLimit /\ source_age' = source_age + 1
  /\ UNCHANGED queue /\ CaptureOnly
ClockOnly == UNCHANGED <<mainVars, threadVars, streamVars, worldVars>>
StallAges ==
  /\ state = "STALLED" /\ stall_age < StallAgeLimit /\ stall_age' = stall_age + 1
  /\ ClockOnly /\ UNCHANGED <<reconnect_attempts, backoff_attempt, backoff_delay,
                              consecutive_stall_recoveries, holdVars, waitVars>>
WaitExpires ==
  /\ pc = "connect_wait" /\ ~wait_expired /\ wait_expired' = TRUE
  /\ ClockOnly /\ UNCHANGED <<retryVars, holdVars, source_responded>>
CooldownEnds ==
  /\ cooldown = "waiting" /\ cooldown' = "over"
  /\ ClockOnly /\ UNCHANGED <<retryVars, seamless_handoff, placeholder, probe_due, waitVars>>
ProbeFallsDue ==
  /\ placeholder # None /\ state = "PLACEHOLDER" /\ ~probe_due /\ probe_due' = TRUE
  /\ ClockOnly /\ UNCHANGED <<retryVars, seamless_handoff, placeholder, cooldown, waitVars>>

(* The environment *)
EnvOnly ==
  UNCHANGED <<mainVars, threadVars, streamVars, noteVars, shutdown, metrics_thread>>
SenderChanges == sender' = ~sender /\ EnvOnly /\ UNCHANGED device_lost
DeviceLost == ~device_lost /\ device_lost' = TRUE /\ EnvOnly /\ UNCHANGED sender

-----------------------------------------------------------------------------
RunStep == LoopEnter \/ LoopExit \/ HandleStopping \/ JoinMetrics \/ HandleFatal

SearchStep ==
  \/ HandleIdle \/ ProbingStop \/ ProbingFound \/ ProbingMissing \/ StopWithoutThread
  \/ PlaceholderContinue \/ PlaceholderStart \/ PlaceholderStartFails
  \/ PlaceholderSourceFound \/ PlaceholderNoSource \/ PlaceholderSend \/ PlaceholderSendFails

ConnectStep ==
  \/ ConnectBegin \/ ConnectStop \/ ConnectFirstFrame \/ ConnectNoFrame
  \/ \E res \in Resolutions : ConnectSuccess(res) \/ ConnectFails(res)

WatchStep ==
  \/ WatchBegin \/ WatchDevice \/ WatchEncodeFlag \/ WatchRtspFlag \/ WatchResolutionFlag
  \/ StreamingLiveness \/ StalledLiveness \/ StalledMissing \/ StalledProlonged

JoinedStep ==
  \/ JoinedTeardown \/ JoinedDevice \/ JoinedReconnect \/ JoinedReconfigure
  \/ JoinedMissing \/ ProlongedRecovery

RepairStep ==
  \/ RecoverDevice \/ Reconfigure \/ ReconfigureFails
  \/ ReconnectBegin \/ Reconnect \/ ReconnectFails

MainStep == RunStep \/ SearchStep \/ ConnectStep \/ WatchStep \/ JoinedStep \/ RepairStep

EncodeStep ==
  \/ EncodeBegin \/ EncodeTop \/ EncodeNoFrame \/ EncodePop \/ EncodeSkip \/ EncodeDue
  \/ Encode \/ EncodeFails

CaptureStep == CaptureStatic \/ \E res \in Resolutions : CaptureFrame(res)
TimeStep    == SourceAges \/ StallAges \/ WaitExpires \/ CooldownEnds \/ ProbeFallsDue
EnvStep     == RequestStop \/ SenderChanges \/ DeviceLost

Next == MainStep \/ EncodeStep \/ CaptureStep \/ MetricsExit \/ TimeStep \/ EnvStep

Spec == Init /\ [][Next]_vars

(***************************************************************************)
(* Fairness: the operating system schedules the three threads, every wait  *)
(* in them is bounded (sleeps, wait_pop's timeout, the RTSP write timeout) *)
(* and time passes.  Nothing is assumed of the sender, the device, the     *)
(* RTSP server, the encoder's results, or the user.                        *)
(***************************************************************************)
Fairness ==
  /\ WF_vars(MainStep) /\ WF_vars(EncodeStep) /\ WF_vars(MetricsExit)
  /\ WF_vars(SourceAges) /\ WF_vars(StallAges) /\ WF_vars(WaitExpires)
  /\ WF_vars(CooldownEnds) /\ WF_vars(ProbeFallsDue)

FairSpec == Spec /\ Fairness

-----------------------------------------------------------------------------
(* What must hold in every reachable state *)

(* While the encode thread runs, everything it dereferences without a test of
   its own exists: frame_pump_ (supervisor.cpp:861), encoder_ (:920) and
   rtsp_client_ (:936).  No handler may release one before the join. *)
EncodeThreadHasItsResources ==
  enc \in EncAlive => pump = "running" /\ encoder # None /\ rtsp # "none"

(* A stream never dies silently: at the top of the main loop in STREAMING or
   STALLED, the encode thread runs or has left the flag that tells why. *)
NoSilentStreamDeath ==
  pc = "loop" /\ Watching => enc \in EncAlive \/ (enc = "done" /\ flags # {})

(* Which of the pump, encoder and RTSP client exist at the top of the loop, in
   each state: the handlers of RECONFIGURING and RECONNECTING_OUTPUT dereference
   frame_pump_ (:685) and encoder_ (:731); PROBING, IDLE and CONNECTING_OUTPUT may
   keep a live encoder and session only for a pending seamless handoff. *)
ResourcesMatchState ==
  pc = "loop" =>
    /\ Watching => pump = "running" /\ encoder # None /\ rtsp # "none"
    /\ state = "RECONFIGURING" => pump # "none" /\ enc = "none"
    /\ state = "RECONNECTING_OUTPUT" => pump = "running" /\ encoder # None /\ rtsp = "none"
    /\ state \in {"IDLE", "PROBING", "CONNECTING_OUTPUT", "PLACEHOLDER", "STOPPING", "FATAL"}
         => pump = "none"
    /\ state \in {"IDLE", "PROBING", "CONNECTING_OUTPUT"} /\ ~seamless_handoff
         => encoder = None /\ rtsp = "none"
    /\ state = "FATAL" => encoder = None /\ rtsp = "none"

(* A pending seamless handoff always has a session to hand over: an encoder, a
   connected RTSP client, and no capture thread left behind (supervisor.hpp's
   comment on seamless_handoff_).  To the placeholder it is of the size the placeholder
   will have, so that it is not thrown away (supervisor.cpp:171-172). *)
HandoffHasSession ==
  seamless_handoff /\ state \notin {"STOPPING", "IDLE"} =>
    /\ encoder # None /\ rtsp = "connected" /\ pump = "none" /\ enc = "none"
    /\ state \in {"PLACEHOLDER", "CONNECTING_OUTPUT", "PROBING"}
    /\ state = "PLACEHOLDER" => PlaceholderSize = current

(* The placeholder is only published through an encoder of its own resolution
   and an existing client, and current_width_/height_ say so: otherwise the next
   CONNECTING_OUTPUT would hand a source over to the wrong encoder. *)
PlaceholderOnItsEncoder ==
  placeholder # None /\ state = "PLACEHOLDER" =>
    encoder = placeholder /\ current = placeholder /\ rtsp # "none"

(* Whenever frames can reach the encoder, current_width_/height_, which the encode
   thread compares frames with, is the resolution the encoder was initialised with. *)
EncoderMatchesCurrent ==
  (Watching /\ pc \notin Joins) \/ state = "RECONNECTING_OUTPUT" => encoder = current

(* The retry counters start afresh in every RTSP outage: outside RECONNECTING_OUTPUT no
   attempt is left over and the next delay is the configured one, and inside it the
   back-off has been advanced exactly once per attempt. *)
RetryCountersFresh ==
  /\ state \in {"IDLE", "PROBING", "PLACEHOLDER", "CONNECTING_OUTPUT", "STREAMING",
                "STALLED", "RECONFIGURING", "RECOVERING_DEVICE"} /\ ~shutdown
       => reconnect_attempts = 0 /\ backoff_attempt = 0 /\ backoff_delay = ReconnectDelay
  /\ state = "RECONNECTING_OUTPUT" =>
       /\ backoff_attempt = reconnect_attempts
       /\ backoff_attempt = 0 => backoff_delay = ReconnectDelay

(* The watchdog fires in time: fewer than stalled_recovery_max_attempts RTSP-only
   recoveries are ever pending, in whatever states they were counted
   (supervisor_logic.hpp:96-98). *)
WatchdogInTime ==
  StalledRecoveryMaxAttempts > 0 =>
    consecutive_stall_recoveries < StalledRecoveryMaxAttempts

(* run() returns with nothing left running or held: all threads joined, the pump,
   the encoder and the RTSP client released, on every path, FATAL included. *)
CleanExit ==
  pc = "exited" =>
    /\ enc = "none" /\ metrics_thread = "none"
    /\ pump = "none" /\ encoder = None /\ rtsp = "none"
    /\ state \in {"IDLE", "FATAL"}

-----------------------------------------------------------------------------
(* The inductive invariant behind the theorems of SupervisorProofs *)

(* Inside a handler the state is that handler's: only the main thread moves it. *)
ControlInv ==
  /\ state # "INIT"
  /\ pc \in {"connect_wait", "connect_init"} => state = "CONNECTING_OUTPUT"
  /\ pc \in {"placeholder_probe", "placeholder_send"} => state = "PLACEHOLDER"
  /\ pc = "reconnect" => state = "RECONNECTING_OUTPUT"
  /\ pc \in Joins \cup {"device", "liveness", "encode_flag", "rtsp_flag"} => Watching
  /\ pc \in {"resolution_flag", "reconfigure_join"} => state = "STREAMING"
  /\ pc \in {"missing", "prolonged", "missing_join", "prolonged_join"} => state = "STALLED"
  /\ pc = "final_join" => state = "STOPPING"
  /\ pc \in {"join_metrics", "exited"} => state \in {"IDLE", "FATAL"}

(* The encode thread is joined before STREAMING and STALLED are left, except on
   the way out of run(), where handle_stopping() joins it. *)
ThreadInv == enc # "none" => Watching \/ pc = "final_join"

(* What the encode thread needs stays from its start to its join, and what the two
   repairing states need to start it again is there. *)
ResourceInv ==
  /\ Watching \/ enc # "none" => pump = "running" /\ encoder # None /\ rtsp # "none"
  /\ state = "RECONNECTING_OUTPUT" => pump = "running" /\ encoder # None
  /\ state = "RECONFIGURING" => current # None
  /\ pc = "reconfigure_join" \/ "resolution_changed" \in flags => pending # None

(* The attempts and the back-off are counted together, within the limit, and only in an
   RTSP outage. *)
RetryInv ==
  /\ state # "FATAL" =>
       reconnect_attempts <= MaxReconnectAttempts /\ backoff_attempt = reconnect_attempts
  /\ state \notin {"RECONNECTING_OUTPUT", "FATAL"} /\ ~shutdown => reconnect_attempts = 0
  /\ backoff_attempt = 0 => backoff_delay = ReconnectDelay

(* Only a lost device is recovered. *)
DeviceInv == pc = "device_join" \/ state = "RECOVERING_DEVICE" => device_lost

IInv ==
  TypeOK /\ ControlInv /\ ThreadInv /\ ResourceInv /\ RetryInv /\ WatchdogInTime /\ DeviceInv

(* What the theorems of SupervisorSessionProofs add to IInv *)

(* In STREAMING and STALLED there is an encode thread, and it is asked to stop only by a
   check that goes on to join it. *)
StreamInv ==
  /\ Watching => enc # "none"
  /\ Watching /\ pc \notin Joins =>
       ~encode_stop /\ (enc \in EncAlive \/ (enc = "done" /\ flags # {}))

(* The frame to show next is never lost: the encode thread has it, or has put it back. *)
FreezeInv ==
  /\ enc \in EncAlive \ {"begin"} => freeze # None
  /\ enc \in {"begin", "done"} => initial_frame # None
  /\ state \in {"RECONFIGURING", "RECONNECTING_OUTPUT"} => initial_frame # None

(* The three notes of the resolution agree while a source is streamed. *)
SizeInv ==
  Watching \/ state = "RECONNECTING_OUTPUT" => encoder = current /\ last_source = current

(* The placeholder is published in PLACEHOLDER only, in its own resolution; a stop may
   leave placeholder_active_ set on the way out of run(). *)
PlaceholderInv ==
  /\ pc \in {"placeholder_probe", "placeholder_send"} => placeholder # None
  /\ placeholder # None =>
       state \in {"PLACEHOLDER", "STOPPING"} \/ pc \in {"join_metrics", "exited"}
  /\ placeholder # None /\ state = "PLACEHOLDER" =>
       /\ placeholder = PlaceholderSize /\ current = placeholder /\ encoder = placeholder
       /\ rtsp # "none" /\ ~seamless_handoff

(* A pending handoff keeps the session up, in the resolution of the placeholder. *)
HandoffInv ==
  \/ ~seamless_handoff
  \/ state = "STOPPING" \/ (state = "IDLE" /\ pc \in {"join_metrics", "exited"})
  \/ /\ state \in {"PLACEHOLDER", "CONNECTING_OUTPUT", "PROBING"}
     /\ encoder # None /\ rtsp = "connected"
     /\ encoder = current /\ PlaceholderSize = current

(* What the states that do not stream have released. *)
ReleaseInv ==
  /\ state \in {"IDLE", "PROBING", "CONNECTING_OUTPUT", "PLACEHOLDER", "FATAL"}
       => pump = "none"
  /\ state = "STOPPING" /\ pc # "final_join" => pump = "none"
  /\ state = "RECONFIGURING" => pump # "none"
  /\ state = "RECONNECTING_OUTPUT" => rtsp = "none"
  /\ state \in {"PROBING", "CONNECTING_OUTPUT"} /\ ~seamless_handoff
       => encoder = None /\ rtsp = "none"
  /\ state \in {"IDLE", "FATAL"} => encoder = None /\ rtsp = "none"
  /\ pc = "exited" => metrics_thread = "none"

SInv ==
  IInv /\ StreamInv /\ FreezeInv /\ SizeInv /\ PlaceholderInv /\ HandoffInv /\ ReleaseInv

-----------------------------------------------------------------------------
(* What no step may do *)

(* The handover rule of supervisor.hpp's thread-safety note: while the encode
   thread runs, the main thread leaves alone everything that thread reads without
   a lock, and only the encode thread writes initial_frame_buf_. *)
OwnershipWhileRunning ==
  [][(enc \in EncAlive /\ enc' = enc) =>
       UNCHANGED <<encoder, current, initial_frame, rtsp, freeze, pump>>]_vars

(* A thread is only started when the previous one has been joined. *)
StartOnlyAfterJoin ==
  [][enc' = "begin" /\ enc # "begin" => enc = "none"]_vars

(* The app gives up on the RTSP server only after max_reconnect_attempts failed
   attempts in a row, and on the GPU only when the device could not be recreated. *)
FatalOnlyWhenExhausted ==
  [][state # "FATAL" /\ state' = "FATAL" =>
       \/ state = "RECONNECTING_OUTPUT" /\ reconnect_attempts = MaxReconnectAttempts
       \/ state = "RECOVERING_DEVICE" /\ device_lost]_vars

(* On the CPU receive path the encode thread never starts without a frame to show:
   initial_frame_buf_ survives every stop, error return and reconnect, so no restart
   begins with a black picture (supervisor.cpp:939-942, :969-974). *)
RestartNeverBlack ==
  [][enc' = "begin" /\ enc # "begin" => initial_frame' # None]_vars

-----------------------------------------------------------------------------
(* What must eventually happen, under FairSpec *)

(* A stop request ends run(): no join, wait or retry loop outlives it. *)
ShutdownCompletes == shutdown ~> pc = "exited"

(* handle_connecting_output() does not wait for a first frame for ever, even from a
   source that keeps answering without one (supervisor_logic.hpp:59-66). *)
FirstFrameWaitEnds == pc = "connect_wait" ~> pc # "connect_wait"

(* A stall ends: the source responds again, or the watchdog (when enabled), the
   sender check or an error restarts the whole pipeline. *)
StallEnds ==
  state = "STALLED" ~>
    \/ source_age < FrameTimeout
    \/ state \in {"IDLE", "PROBING", "PLACEHOLDER", "RECOVERING_DEVICE", "FATAL"}
    \/ pc = "exited"

(* Once the output serves the placeholder, a sender that is there to stay is picked up from
   PLACEHOLDER (supervisor.cpp:242-270), whatever session was handed over or failed before. *)
PlaceholderReturns ==
  state = "PLACEHOLDER" /\ sender ~> state # "PLACEHOLDER" \/ ~sender

(* What that asks of encoder and RTSP server: init_encoder_and_rtsp() succeeds now and then,
   and from some time on no frame of the placeholder fails.  Less is not enough.  Each start
   of the placeholder sets its probe timer back (supervisor.cpp:236), so sessions that all
   fail at their first frame, sent before the timer has expired, are never followed by a
   probe; the model has these behaviours, and this condition leaves them out. *)
OutputServes ==
  SF_vars(PlaceholderStart) /\ <>[][~(PlaceholderSendFails)]_vars

PlaceholderSpec == FairSpec /\ OutputServes

-----------------------------------------------------------------------------
(* What the repository says and the code does not do: each is refuted by a run. *)

(* docs/state-machine.md:12 describes STREAMING as capture, encode and send: its
   receiver is connected. *)
StreamingHasReceiver == state = "STREAMING" => connected

(* supervisor_logic.hpp:46-47: a detected resolution change triggers the transition
   to RECONFIGURING, so the encoder never meets a frame of another resolution. *)
EncodedFrameFits == enc = "encode" => freeze = encoder

(* supervisor.cpp:463-466: with the device lost, a stream is not restarted from
   PROBING but through RECOVERING_DEVICE. *)
LostDeviceIsRecovered == [][pc = "encode_flag" /\ pc' = "probing_join" => ~device_lost]_vars

(* What is left of StreamingHasReceiver: where a stream is, or is about to be repaired, the
   receiver is lost by a reconfiguration that fails, and by nothing else. *)
StreamHeld == state \in {"STREAMING", "STALLED", "RECONFIGURING", "RECONNECTING_OUTPUT"}
Deaf == StreamHeld /\ ~connected
OnlyReconfigurationDeafens ==
  [][~Deaf /\ Deaf' => state = "RECONFIGURING" /\ state' = "RECONFIGURING" /\ encoder' = None]_vars

(* Within an RTSP outage the delays only grow: one gets shorter in no step but that in which
   the session is up again (types.hpp:108-115, supervisor.cpp:715, :740; the
   reset of :449 finds the delay at its start). *)
DelaysGrow ==
  [][backoff_delay' < backoff_delay
       => state = "RECONNECTING_OUTPUT" /\ state' = "STREAMING" /\ rtsp' = "connected"]_vars

-----------------------------------------------------------------------------
(* Who publishes: the encode thread as long as it runs (supervisor.cpp:818-938), or the
   placeholder of the main thread (:206-300) *)
PublishedBy ==
  IF enc \in EncAlive THEN "source"
  ELSE IF placeholder # None /\ state = "PLACEHOLDER" THEN "placeholder" ELSE "nobody"

Publishing ==
  INSTANCE Publisher WITH encoder <- encoder # None, session <- rtsp, publisher <- PublishedBy

(* Seen from the RTSP server, the source and the placeholder take turns at one output that
   is opened whole and never released under whoever publishes: all that the handlers, the
   threads and the tear-downs do to encoder_ and rtsp_client_ is what Publisher allows. *)
ImplementsPublisher == Publishing!PublisherSpec

(* Added to the inductive invariant for that: whoever publishes has a session that is up. *)
PublishInv ==
  /\ enc \in EncAlive => rtsp = "connected"
  /\ placeholder # None /\ state = "PLACEHOLDER" => rtsp = "connected"

=============================================================================
