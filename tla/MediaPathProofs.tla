--------------------------- MODULE MediaPathProofs ---------------------------
(***************************************************************************)
(* Proofs about MediaPath, for every pair of codecs and with or without    *)
(* the placeholder.  The first part says what the operations of the three  *)
(* components do to their records; the second proves MediaInv inductive    *)
(* from that, and the properties follow.                                   *)
(***************************************************************************)
EXTENDS MediaPath, TLAPS

USE MediaPathAssumption DEF MediaPathAssumption

GpuObjects == {"codec_ctx", "hw_device_ctx", "d3d_ctx", "hw_frames_ctx", "d3d_device",
               "last_hw_frame", "pkt"}
CpuObjects == {"codec_ctx", "sws_ctx", "yuv_frame", "pkt"}

-----------------------------------------------------------------------------
(* What init() allocates *)

(* A complete GPU encoder holds these objects, a complete CPU encoder those, none nothing. *)
LEMMA GpuHeld == Encoder!HeldBy(Encoder!GpuPath) = GpuObjects
BY DEF Encoder!HeldBy, Encoder!GpuPath, Encoder!Gains, GpuObjects

LEMMA CpuHeld == Encoder!HeldBy(Encoder!CpuPath) = CpuObjects
BY DEF Encoder!HeldBy, Encoder!CpuPath, Encoder!Gains, CpuObjects

LEMMA NoneHeld == Encoder!HeldBy(<<>>) = {}
BY DEF Encoder!HeldBy

(* Every error branch on the CPU path releases all that has been allocated. *)
LEMMA CpuLeavesNothing ==
  ASSUME NEW k \in DOMAIN Encoder!CpuPath
  PROVE  Encoder!LeftBy(Encoder!CpuPath, k) = {}
BY DEF Encoder!LeftBy, Encoder!CpuPath, Encoder!Gains, Encoder!Frees

(* So does every one on the GPU path, but for the codec context kept for the CPU path. *)
LEMMA GpuLeavesNothing ==
  ASSUME NEW k \in DOMAIN Encoder!GpuPath, Encoder!GpuPath[k] \notin Encoder!TryGpu,
         Encoder!GpuPath[k] # "device_ref"
  PROVE  Encoder!LeftBy(Encoder!GpuPath, k) = {}
<1>1. k \in {1, 2, 7, 9, 10}
  BY DEF Encoder!GpuPath, Encoder!TryGpu
<1>2. CASE k \in {1, 2}
  BY <1>2 DEF Encoder!LeftBy, Encoder!GpuPath, Encoder!Gains, Encoder!Frees
<1>3. CASE k = 7
  BY <1>3 DEF Encoder!LeftBy, Encoder!GpuPath, Encoder!Gains, Encoder!Frees
<1>4. CASE k \in {9, 10}
  BY <1>4 DEF Encoder!LeftBy, Encoder!GpuPath, Encoder!Gains, Encoder!Frees, Encoder!FreedByReset
<1> QED BY <1>1, <1>2, <1>3, <1>4

(* A failure inside try_init_gpu_path() leaves the codec context alone. *)
LEMMA TryLeavesContext ==
  ASSUME NEW k \in DOMAIN Encoder!GpuPath, Encoder!GpuPath[k] \in Encoder!TryGpu
  PROVE  Encoder!LeftBy(Encoder!GpuPath, k) \ {"codec_ctx"} = {}
<1>1. k \in {3, 4, 5, 6}
  BY DEF Encoder!GpuPath, Encoder!TryGpu
<1> QED BY <1>1 DEF Encoder!LeftBy, Encoder!GpuPath, Encoder!Gains, Encoder!Frees

(* Whatever fails, init() ends with one complete path or with none, and leaves nothing. *)
Clean == [path : {<<>>, Encoder!GpuPath, Encoder!CpuPath}, stray : {{}}]

(* An end of init() is clean, and stays so when nothing is left behind on the way. *)
LEMMA EndsClean == ASSUME NEW p \in {<<>>, Encoder!GpuPath, Encoder!CpuPath}
                   PROVE  Encoder!Ends(p) \in SUBSET Clean
BY DEF Encoder!Ends, Clean

LEMMA LeavingClean == ASSUME NEW outcomes \in SUBSET Clean
                      PROVE  Encoder!Leaving({}, outcomes) \in SUBSET Clean
BY DEF Encoder!Leaving, Clean

(* From clean results of the codecs to come, every way through a path has clean ones. *)
LEMMA CpuClean == ASSUME NEW rest \in SUBSET Clean PROVE Encoder!CpuOutcomes(rest) \in SUBSET Clean
<1>1. ASSUME NEW k \in DOMAIN Encoder!CpuPath
      PROVE  Encoder!FailedAt(Encoder!CpuPath, k, rest) \in SUBSET Clean
  BY CpuLeavesNothing, EndsClean, LeavingClean DEF Encoder!FailedAt
<1> QED BY <1>1, EndsClean DEF Encoder!CpuOutcomes

LEMMA GpuClean == ASSUME NEW rest \in SUBSET Clean PROVE Encoder!GpuOutcomes(rest) \in SUBSET Clean
<1>1. ASSUME NEW k \in DOMAIN Encoder!GpuPath, Encoder!GpuPath[k] \notin Encoder!TryGpu,
             Encoder!GpuPath[k] # "device_ref"
      PROVE  Encoder!FailedAt(Encoder!GpuPath, k, rest) \in SUBSET Clean
  BY <1>1, GpuLeavesNothing, EndsClean, LeavingClean DEF Encoder!FailedAt
<1>2. ASSUME NEW k \in DOMAIN Encoder!GpuPath, Encoder!GpuPath[k] \in Encoder!TryGpu
      PROVE  Encoder!Leaving(Encoder!LeftBy(Encoder!GpuPath, k) \ {"codec_ctx"},
                             Encoder!CpuOutcomes(rest)) \in SUBSET Clean
  BY <1>2, TryLeavesContext, CpuClean, LeavingClean
<1>3. ASSUME NEW o \in Encoder!GpuOutcomes(rest) PROVE o \in Clean
  <2>1. \/ o \in Encoder!Ends(Encoder!GpuPath)
        \/ \E k \in DOMAIN Encoder!GpuPath :
             /\ Encoder!GpuPath[k] \notin Encoder!TryGpu /\ Encoder!GpuPath[k] # "device_ref"
             /\ o \in Encoder!FailedAt(Encoder!GpuPath, k, rest)
        \/ \E k \in DOMAIN Encoder!GpuPath :
             /\ Encoder!GpuPath[k] \in Encoder!TryGpu
             /\ o \in Encoder!Leaving(Encoder!LeftBy(Encoder!GpuPath, k) \ {"codec_ctx"},
                                      Encoder!CpuOutcomes(rest))
    BY <1>3, Zenon DEF Encoder!GpuOutcomes
  <2> QED BY <2>1, <1>1, <1>2, EndsClean, Zenon
<1> QED BY <1>3

(* Every result of init() is clean. *)
LEMMA InitClean == Encoder!InitOutcomes \in SUBSET Clean
<1>1. ASSUME NEW codec, NEW rest \in SUBSET Clean
      PROVE  Encoder!Tried(codec, rest) \in SUBSET Clean
  BY <1>1, GpuClean, CpuClean DEF Encoder!Tried
<1> QED BY <1>1, EndsClean DEF Encoder!InitOutcomes
-----------------------------------------------------------------------------
(* What an operation of a component makes of a record in good order *)

SoundEncoder(e) == e \in Encoder!Encoders /\ Encoder!Accounted(e) /\ e.device # "replaced"
SoundClient(r)  == r \in Rtsp!Clients /\ Rtsp!Accounted(r)
Sound == SoundEncoder(encoder) /\ SoundClient(rtsp)

(* What is destroyed in good order is as good as new: nothing is forgotten. *)
LEMMA EncoderDestroyed ==
  ASSUME NEW e, SoundEncoder(e) PROVE Encoder!Destroy(e) = Encoder!NoEncoder
<1>1. e.stray = {} /\ e.held \in {{}, GpuObjects, CpuObjects}
  BY GpuHeld, CpuHeld DEF SoundEncoder, Encoder!Accounted
<1>2. e.stray \cup (e.held \ Encoder!FreedByReset) = {}
  BY <1>1 DEF Encoder!FreedByReset, GpuObjects, CpuObjects
<1>3. ASSUME NEW n, n = [[Encoder!NoEncoder EXCEPT !.exists = e.exists, !.stray = {}]
                            EXCEPT !.exists = FALSE]
      PROVE  n = Encoder!NoEncoder
  BY <1>3 DEF Encoder!NoEncoder
<1> QED BY <1>2, <1>3, Zenon DEF Encoder!Destroy, Encoder!Reset

LEMMA NoEncoderSound == SoundEncoder(Encoder!NoEncoder)
BY GpuHeld DEF SoundEncoder, Encoder!Accounted, Encoder!Encoders, Encoder!NoEncoder,
               Encoder!Pictures, GpuObjects

(* make_unique() and init() *)
Fresh(e) == SoundEncoder(e) /\ e.exists /\ e.first

(* init() makes a sound encoder, complete or empty, whose first frame is an IDR. *)
LEMMA EncoderInitialised ==
  ASSUME NEW e, SoundEncoder(e), NEW format, NEW n \in Encoder!Initialised(e, format)
  PROVE  Fresh(n)
<1>1. PICK o \in Encoder!InitOutcomes :
        n = LET gpu == "hw_frames_ctx" \in Encoder!HeldBy(o.path)
                fresh == [Encoder!Destroy(e) EXCEPT !.exists = TRUE]
            IN  [ fresh EXCEPT !.held = Encoder!HeldBy(o.path), !.stray = @ \cup o.stray,
                               !.gpu = gpu,
                               !.pool = IF gpu THEN Encoder!PoolFormat(format) ELSE "none",
                               !.device = IF gpu THEN "current" ELSE "none" ]
  BY DEF Encoder!Initialised
<1>2. o.path \in {<<>>, Encoder!GpuPath, Encoder!CpuPath} /\ o.stray = {}
  BY InitClean DEF Clean
<1>3. Encoder!HeldBy(o.path) \in {{}, GpuObjects, CpuObjects}
  BY <1>2, GpuHeld, CpuHeld, NoneHeld
<1>4. GpuObjects \in SUBSET Encoder!Object /\ CpuObjects \in SUBSET Encoder!Object
  BY DEF GpuObjects, CpuObjects, Encoder!Object, Encoder!Gains, Encoder!Steps
<1>5. "hw_frames_ctx" \in Encoder!HeldBy(o.path) <=> Encoder!HeldBy(o.path) = GpuObjects
  BY <1>3 DEF GpuObjects, CpuObjects
<1> DEFINE held == Encoder!HeldBy(o.path)
           gpu  == "hw_frames_ctx" \in held
<1>6. n = [ [Encoder!NoEncoder EXCEPT !.exists = TRUE] EXCEPT
              !.held = held, !.stray = @ \cup o.stray, !.gpu = gpu,
              !.pool = IF gpu THEN Encoder!PoolFormat(format) ELSE "none",
              !.device = IF gpu THEN "current" ELSE "none" ]
  BY <1>1, EncoderDestroyed, Zenon
<1>7. /\ n \in [ exists : {TRUE}, held : {held}, stray : {{}}, gpu : {gpu},
                pool : {"none", Encoder!PoolFormat(format)}, device : {"none", "current"},
                first : {TRUE}, idr : {FALSE}, picture : {"none"} ]
  BY <1>2, <1>6 DEF Encoder!NoEncoder
<1>8. Encoder!PoolFormat(format) \in {"rgba", "bgra"}
  BY DEF Encoder!PoolFormat
<1>9. n \in Encoder!Encoders
  <2>1. held \in SUBSET Encoder!Object
    BY <1>3, <1>4
  <2> HIDE DEF held, gpu
  <2>2. gpu \in BOOLEAN
    BY DEF gpu
  <2> QED BY <1>7, <1>8, <2>1, <2>2 DEF Encoder!Encoders, Encoder!Pictures
<1>10. n.gpu <=> n.held = GpuObjects
  BY <1>5, <1>7
<1>11. n.exists /\ n.first /\ n.stray = {} /\ n.held = held /\ n.device # "replaced"
  BY <1>7
<1> QED BY <1>3, <1>9, <1>10, <1>11, GpuHeld, CpuHeld DEF Fresh, SoundEncoder, Encoder!Accounted

(* The destructor of the client forgets nothing either. *)
LEMMA ClientDestroyed ==
  ASSUME NEW r, SoundClient(r) PROVE Rtsp!Destroy(r) = Rtsp!NoClient
BY DEF SoundClient, Rtsp!Accounted, Rtsp!Clients, Rtsp!Destroy, Rtsp!Disconnect, Rtsp!NoClient,
       Rtsp!Object, Rtsp!Gains

LEMMA NoClientSound == SoundClient(Rtsp!NoClient)
BY DEF SoundClient, Rtsp!Accounted, Rtsp!Clients, Rtsp!NoClient

(* make_unique() and connect() *)
LEMMA ClientConnected ==
  ASSUME NEW r, SoundClient(r), NEW n \in Rtsp!Connected(r)
  PROVE  SoundClient(n) /\ n.exists /\ n.last = "none"
<1>1. ASSUME NEW k \in DOMAIN Rtsp!ConnectPath PROVE Rtsp!LeftBy(k) = {}
  BY DEF Rtsp!ConnectPath, Rtsp!LeftBy, Rtsp!Gains, Rtsp!Frees
<1>2. \/ n = [[Rtsp!NoClient EXCEPT !.exists = TRUE] EXCEPT !.held = Rtsp!Object, !.connected = TRUE]
      \/ n = [[Rtsp!NoClient EXCEPT !.exists = TRUE] EXCEPT !.stray = @ \cup {}]
  BY <1>1, ClientDestroyed, Zenon DEF Rtsp!Connected
<1>3. n \in [ exists : {TRUE}, held : {Rtsp!Object}, stray : {{}}, connected : {TRUE},
               last : {"none"} ]
      \/ n \in [ exists : {TRUE}, held : {{}}, stray : {{}}, connected : {FALSE},
                  last : {"none"} ]
  BY <1>2 DEF Rtsp!NoClient
<1> QED BY <1>3 DEF SoundClient, Rtsp!Accounted, Rtsp!Clients

(* send_packet() shows the session the picture if and only if it succeeds. *)
LEMMA PacketSent ==
  ASSUME NEW r, SoundClient(r), NEW p \in {"placeholder", "source"}, NEW s \in Rtsp!Send(r, p)
  PROVE  /\ SoundClient(s.r) /\ s.r.exists = r.exists /\ (s.r.connected => r.connected)
         /\ s.ok \in BOOLEAN /\ s.r.last = IF s.ok THEN p ELSE r.last
<1>1. \/ s = [ok |-> FALSE, r |-> r]
      \/ r.connected /\ r.held = Rtsp!Object
         /\ \/ s = [ok |-> TRUE, r |-> [r EXCEPT !.last = p]]
            \/ s = [ok |-> FALSE, r |-> [r EXCEPT !.connected = FALSE]]
  BY Zenon DEF Rtsp!Send, SoundClient, Rtsp!Clients
<1>2. CASE s = [ok |-> FALSE, r |-> r]
  BY <1>2 DEF SoundClient, Rtsp!Clients
<1>3. CASE r.connected /\ r.held = Rtsp!Object /\ s = [ok |-> TRUE, r |-> [r EXCEPT !.last = p]]
  BY <1>3 DEF SoundClient, Rtsp!Accounted, Rtsp!Clients
<1>4. CASE r.connected /\ r.held = Rtsp!Object /\ s = [ok |-> FALSE, r |-> [r EXCEPT !.connected = FALSE]]
  BY <1>4 DEF SoundClient, Rtsp!Accounted, Rtsp!Clients
<1> QED BY <1>1, <1>2, <1>3, <1>4

(* What encode() and request_next_idr() leave alone *)
Same(n, e) == n.held = e.held /\ n.gpu = e.gpu /\ n.exists = e.exists

(* request_next_idr() makes the next frame an IDR and changes nothing else. *)
LEMMA IdrRequested ==
  ASSUME NEW e, SoundEncoder(e)
  PROVE  LET n == Encoder!RequestNextIdr(e)
         IN  SoundEncoder(n) /\ Same(n, e) /\ n.picture = e.picture /\ Encoder!Key(n)
BY DEF SoundEncoder, Same, Encoder!Accounted, Encoder!Encoders, Encoder!RequestNextIdr, Encoder!Key

(* A failed encode() leaves a sound encoder; a successful one has the frame's picture. *)
LEMMA FrameEncoded ==
  ASSUME NEW e, SoundEncoder(e), NEW shows \in {"placeholder", "source"}, NEW changed \in BOOLEAN,
         NEW lost \in BOOLEAN, NEW o \in Encoder!Encode(e, shows, changed, lost)
  PROVE  /\ SoundEncoder(o.e) /\ Same(o.e, e) /\ o.ok \in BOOLEAN
         /\ o.ok => o.e.picture = Encoder!PictureOf(e, shows, changed)
<1>1. Encoder!PictureOf(e, shows, changed) \in Encoder!Pictures
  BY DEF Encoder!PictureOf, Encoder!Pictures, SoundEncoder, Encoder!Encoders
<1> DEFINE after == Encoder!Encoded(e, shows, changed)
<1>2. SoundEncoder(after) /\ Same(after, e) /\ after.picture = Encoder!PictureOf(e, shows, changed)
  BY <1>1 DEF Encoder!Encoded, SoundEncoder, Same, Encoder!Accounted, Encoder!Encoders
<1>3. ASSUME NEW f \in Encoder!HalfEncoded(e, shows, changed) PROVE SoundEncoder(f) /\ Same(f, e)
  <2>1. PICK p \in Encoder!Pictures : f = [e EXCEPT !.picture = p]
    BY <1>1 DEF Encoder!HalfEncoded, Encoder!Pictures
  <2> QED BY <2>1 DEF SoundEncoder, Same, Encoder!Accounted, Encoder!Encoders
<1>4. SoundEncoder(e) /\ Same(e, e)
  BY DEF Same
<1>5. \/ o = [ok |-> TRUE, e |-> after]
      \/ \E f \in {e, after} \cup Encoder!HalfEncoded(e, shows, changed) : o = [ok |-> FALSE, e |-> f]
  BY Zenon DEF Encoder!Encode
<1> HIDE DEF after
<1>6. CASE o = [ok |-> TRUE, e |-> after]
  BY <1>6, <1>2
<1>7. ASSUME NEW f \in {e, after} \cup Encoder!HalfEncoded(e, shows, changed),
             o = [ok |-> FALSE, e |-> f]
      PROVE  SoundEncoder(o.e) /\ Same(o.e, e) /\ ~o.ok
  BY <1>7, <1>2, <1>3, <1>4
<1>8. CASE \E f \in {e, after} \cup Encoder!HalfEncoded(e, shows, changed) :
              o = [ok |-> FALSE, e |-> f]
  <2>1. SoundEncoder(o.e) /\ Same(o.e, e) /\ ~o.ok
    BY <1>7, <1>8
  <2>2. o.ok \in BOOLEAN
    BY <1>8
  <2> QED BY <2>1, <2>2
<1> QED BY <1>5, <1>6, <1>8, Zenon

(* init_encoder_and_rtsp() *)
LEMMA BuiltWell ==
  ASSUME Sound, NEW m, NEW built \in Built(m)
  PROVE  /\ Fresh(built.e) /\ Encoder!Ready(built.e)
         /\ SoundClient(built.r) /\ built.r.last = "none"
         /\ built.m = Spout!SetGpuMode(m, built.e.gpu)
BY EncoderInitialised, ClientConnected DEF Built, Sound

(* After a failure, the tear-down of the caller leaves no encoder and no client. *)
LEMMA BuiltNothing ==
  ASSUME Sound, NEW m, NEW saved, InitFails(m, saved)
  PROVE  encoder' = Encoder!NoEncoder /\ rtsp' = Rtsp!NoClient
<1>1. ASSUME NEW n \in NotBuilt PROVE SoundEncoder(n.e) /\ SoundClient(n.r)
  BY EncoderInitialised, ClientConnected DEF NotBuilt, Sound, Fresh
<1> QED BY <1>1, EncoderDestroyed, ClientDestroyed DEF InitFails

-----------------------------------------------------------------------------
(* MediaInv after a step: three ways in which most steps leave the program *)

USE DEF threadVars, pumpVars, holdVars, envVars, Leave, Borrowed

Quiet == PublisherState \ {"STREAMING", "STALLED", "RECONNECTING_OUTPUT"}

(* TypeOK without the two records that Sound is about *)
Typed ==
  /\ state \in PublisherState /\ pump \in {"none", "stopped", "running"}
  /\ spout \in Spout!Monitors
  /\ queue \in Frames \X BOOLEAN /\ freeze \in Frames /\ initial_frame \in Frames
  /\ thread \in {"none", "running"} \cup ThreadEnds
  /\ content_changed \in BOOLEAN /\ seamless_handoff \in BOOLEAN /\ device_lost \in BOOLEAN
  /\ placeholder \in {"off", "fresh", "repeat"} /\ sender \in Spout!Formats \cup {"none"}

Related == SessionFitsEncoder /\ PictureIsCurrent /\ WorkersInv /\ ModeInv /\ FramesInv /\ KeyInv

(* The parts of MediaInv, now and after the step *)
LEMMA InvParts ==
  (MediaInv <=> Sound /\ Typed /\ Related) /\ (MediaInv' <=> Sound' /\ Typed' /\ Related')
BY DEF MediaInv, TypeOK, NothingLeaks, EncoderOnLiveDevice, Sound, SoundEncoder, SoundClient,
       Typed, Related

(* Everything is torn down, and no thread runs. *)
TornDown ==
  /\ encoder' = Encoder!NoEncoder /\ rtsp' = Rtsp!NoClient /\ spout'.gpu_mode = FALSE
  /\ thread' = "none" /\ freeze' = "none"
  /\ pump' \in {"none", "stopped"} /\ queue' = NoItem
  /\ state' \in Quiet /\ (placeholder' = "off" \/ state' = "STOPPING")

(* With nothing left there is nothing to go wrong. *)
LEMMA AfterTearDown == ASSUME TornDown, Typed' PROVE MediaInv'
<1> USE DEF TornDown
<1>1. Sound'
  BY NoEncoderSound, NoClientSound DEF Sound
<1>2. SessionFitsEncoder' /\ PictureIsCurrent'
  BY DEF SessionFitsEncoder, PictureIsCurrent, Rtsp!Up, Rtsp!NoClient
<1>3. WorkersInv' /\ ModeInv' /\ FramesInv' /\ KeyInv'
  BY DEF WorkersInv, ModeInv, FramesInv, KeyInv, Watching, Quiet, Usable, NoItem, Encoder!NoEncoder
<1> QED BY <1>1, <1>2, <1>3, InvParts DEF Related

(* No thread runs; the encoder and the session are as they were. *)
Handed ==
  /\ UNCHANGED <<encoder, rtsp>> /\ spout'.gpu_mode = spout.gpu_mode
  /\ thread' = "none" /\ freeze' = "none" /\ placeholder' = "off" /\ state' \in Quiet
  /\ \/ pump' # "running" /\ queue' = NoItem
     \/ UNCHANGED pumpVars /\ state' \in {"RECONFIGURING", "RECOVERING_DEVICE"}

(* The encoder and the session survive a handover as they are. *)
LEMMA AfterHanding == ASSUME MediaInv, Handed, Typed' PROVE MediaInv'
<1> USE DEF Handed
<1>1. Sound /\ Related
  BY InvParts
<1>2. Sound' /\ SessionFitsEncoder' /\ PictureIsCurrent'
  BY <1>1 DEF Sound, Related, SessionFitsEncoder, PictureIsCurrent
<1>3. WorkersInv'
  BY <1>1 DEF Related, WorkersInv, Watching, Quiet
<1>4. ModeInv' /\ KeyInv'
  BY <1>1 DEF Related, ModeInv, KeyInv
<1>5. Usable(queue[1])'
  <2>1. CASE queue' = NoItem
    BY <2>1 DEF Usable, NoItem
  <2>2. CASE UNCHANGED queue
    BY <1>1, <2>2 DEF Related, FramesInv, Usable
  <2> QED BY <2>1, <2>2
<1>6. FramesInv'
  BY <1>5 DEF FramesInv, Usable, Watching, Quiet
<1> QED BY <1>2, <1>3, <1>4, <1>6, InvParts DEF Related

(* The threads have been started, with an IDR to come and a frame that is usable. *)
Started ==
  /\ SoundEncoder(encoder') /\ Encoder!Ready(encoder') /\ encoder'.exists /\ Encoder!Key(encoder')
  /\ SoundClient(rtsp') /\ spout'.gpu_mode = encoder'.gpu
  /\ state' = "STREAMING" /\ thread' = "running" /\ placeholder' = "off"
  /\ freeze' # "freed" /\ (freeze' \in Borrowed => encoder'.gpu)
  /\ initial_frame' = MovedFrom(freeze') /\ content_changed' = TRUE
  /\ \/ pump' = "running" /\ queue' = NoItem
     \/ UNCHANGED pumpVars /\ encoder'.gpu = encoder.gpu

(* A start on a sound encoder is a good one. *)
LEMMA AfterStart == ASSUME MediaInv, Started, Typed' PROVE MediaInv'
<1> USE DEF Started
<1>1. Sound /\ Related
  BY InvParts
<1>2. Sound' /\ SessionFitsEncoder' /\ PictureIsCurrent'
  BY <1>1 DEF Sound, SessionFitsEncoder, PictureIsCurrent
<1>3. WorkersInv' /\ ModeInv' /\ KeyInv'
  BY <1>1 DEF Related, WorkersInv, ModeInv, KeyInv, Watching
<1>4. Usable(queue[1])'
  <2>1. CASE queue' = NoItem
    BY <2>1 DEF Usable, NoItem
  <2>2. CASE UNCHANGED queue /\ encoder'.gpu = encoder.gpu
    BY <1>1, <2>2 DEF Related, FramesInv, Usable
  <2> QED BY <2>1, <2>2
<1>5. Usable(freeze)' /\ Usable(initial_frame)'
  BY DEF Usable, MovedFrom
<1> QED BY <1>2, <1>3, <1>4, <1>5, InvParts DEF Related, FramesInv

-----------------------------------------------------------------------------
(* What the handlers find and how they move *)

(* Outside the streaming states no thread runs and nothing is queued. *)
LEMMA AtRest ==
  ASSUME MediaInv, state \in {"IDLE", "PROBING", "PLACEHOLDER", "CONNECTING_OUTPUT"}
  PROVE  /\ thread = "none" /\ freeze = "none" /\ pump \in {"none", "stopped"} /\ queue = NoItem
         /\ state # "PLACEHOLDER" => placeholder = "off"
<1>1. WorkersInv /\ Typed
  BY InvParts DEF Related
<1> QED BY <1>1 DEF WorkersInv, Watching, Typed

(* No placeholder is shown in the streaming states. *)
LEMMA NotShown == ASSUME MediaInv, state \notin {"PLACEHOLDER", "STOPPING"} PROVE placeholder = "off"
BY InvParts DEF Related, WorkersInv

(* The requests for a transition and what state_machine.cpp makes of them; the one of
   handle_reconfiguring() after a failure is refused. *)
LEMMA Moves ==
  /\ TransitionTo("INIT", "IDLE") = "IDLE"
  /\ TransitionTo("IDLE", "PROBING") = "PROBING"
  /\ TransitionTo("PROBING", "CONNECTING_OUTPUT") = "CONNECTING_OUTPUT"
  /\ TransitionTo("PROBING", "PLACEHOLDER") = "PLACEHOLDER"
  /\ TransitionTo("PLACEHOLDER", "CONNECTING_OUTPUT") = "CONNECTING_OUTPUT"
  /\ TransitionTo("CONNECTING_OUTPUT", "STREAMING") = "STREAMING"
  /\ TransitionTo("CONNECTING_OUTPUT", "PROBING") = "PROBING"
  /\ TransitionTo("STREAMING", "STALLED") = "STALLED"
  /\ TransitionTo("STALLED", "STREAMING") = "STREAMING"
  /\ TransitionTo("STREAMING", "RECOVERING_DEVICE") = "RECOVERING_DEVICE"
  /\ TransitionTo("STALLED", "RECOVERING_DEVICE") = "RECOVERING_DEVICE"
  /\ TransitionTo("STREAMING", "PROBING") = "PROBING"
  /\ TransitionTo("STALLED", "PROBING") = "PROBING"
  /\ TransitionTo("STREAMING", "RECONFIGURING") = "RECONFIGURING"
  /\ TransitionTo("STREAMING", "RECONNECTING_OUTPUT") = "RECONNECTING_OUTPUT"
  /\ TransitionTo("STALLED", "RECONNECTING_OUTPUT") = "RECONNECTING_OUTPUT"
  /\ TransitionTo("STALLED", "PLACEHOLDER") = "PLACEHOLDER"
  /\ TransitionTo("STALLED", "IDLE") = "IDLE"
  /\ TransitionTo("RECOVERING_DEVICE", "PROBING") = "PROBING"
  /\ TransitionTo("RECOVERING_DEVICE", "FATAL") = "FATAL"
  /\ TransitionTo("RECONFIGURING", "STREAMING") = "STREAMING"
  /\ TransitionTo("RECONFIGURING", "PROBING") = "RECONFIGURING"
  /\ TransitionTo("RECONNECTING_OUTPUT", "STREAMING") = "STREAMING"
  /\ TransitionTo("RECONNECTING_OUTPUT", "FATAL") = "FATAL"
BY DEF TransitionTo, CanTransition, Successors

(* The receiver changes its mode only in set_gpu_mode() and reinit_device(). *)
LEMMA ReceiverMoves ==
  ASSUME NEW m \in Spout!Monitors
  PROVE  /\ Spout!Connect(m) \in Spout!Monitors /\ Spout!Connect(m).gpu_mode = m.gpu_mode
         /\ Spout!Disconnect(m) \in Spout!Monitors /\ Spout!Disconnect(m).gpu_mode = m.gpu_mode
         /\ Spout!ReinitDevice(m) \in Spout!Monitors /\ ~Spout!ReinitDevice(m).gpu_mode
         /\ \A enabled \in BOOLEAN : /\ Spout!SetGpuMode(m, enabled) \in Spout!Monitors
                                     /\ Spout!SetGpuMode(m, enabled).gpu_mode = enabled
         /\ \A format \in Spout!Formats : /\ Spout!Received(m, format) \in Spout!Monitors
                                          /\ Spout!Received(m, format).gpu_mode = m.gpu_mode
<1> USE DEF Spout!Monitors, Spout!Formats, Spout!Paths
<1>1. Spout!Connect(m) \in Spout!Monitors /\ Spout!Connect(m).gpu_mode = m.gpu_mode
  BY DEF Spout!Connect
<1>2. Spout!Disconnect(m) \in Spout!Monitors /\ Spout!Disconnect(m).gpu_mode = m.gpu_mode
  BY DEF Spout!Disconnect
<1>3. Spout!ReinitDevice(m) \in Spout!Monitors /\ ~Spout!ReinitDevice(m).gpu_mode
  BY DEF Spout!ReinitDevice, Spout!Opened
<1>4. ASSUME NEW enabled \in BOOLEAN
      PROVE  /\ Spout!SetGpuMode(m, enabled) \in Spout!Monitors
             /\ Spout!SetGpuMode(m, enabled).gpu_mode = enabled
  BY DEF Spout!SetGpuMode
<1>5. ASSUME NEW format \in Spout!Formats
      PROVE  /\ Spout!Received(m, format) \in Spout!Monitors
             /\ Spout!Received(m, format).gpu_mode = m.gpu_mode
  BY DEF Spout!Received, Spout!Path
<1> QED BY <1>1, <1>2, <1>3, <1>4, <1>5

(* A frame without its texture owns its pixels or is none. *)
LEMMA FrameMoves ==
  ASSUME NEW f \in Frames
  PROVE  Freed(f) \in Frames /\ WithoutTexture(f) \in {"none", "pixels"} /\ Released(f) \in Frames
         /\ WithoutTexture(f) \in Frames /\ MovedFrom(f) \in Frames
BY DEF Frames, Freed, WithoutTexture, Released, MovedFrom

LEMMA SavedTyped == ASSUME Typed PROVE Saved \in Frames
BY DEF Typed, Saved

-----------------------------------------------------------------------------
(* The steps of the handlers *)

(* handle_idle(), handle_probing() *)
LEMMA SearchKeeps == ASSUME MediaInv, StartProbing \/ ProbingFound \/ ProbingMissing PROVE MediaInv'
<1>1. Typed
  BY InvParts
<1>2. Typed' /\ Handed
  <2>1. CASE StartProbing
    BY <1>1, <2>1, AtRest, Moves DEF StartProbing, Typed, Handed, Quiet, PublisherState
  <2>2. CASE ProbingFound
    BY <1>1, <2>2, AtRest, Moves, ReceiverMoves
       DEF ProbingFound, Typed, Handed, Quiet, PublisherState
  <2>3. CASE ProbingMissing
    BY <1>1, <2>3, AtRest, Moves DEF ProbingMissing, Typed, Handed, Quiet, PublisherState
  <2> QED BY <2>1, <2>2, <2>3
<1> QED BY <1>2, AfterHanding

(* handle_placeholder() *)
LEMMA PlaceholderStartKeeps == ASSUME MediaInv, PlaceholderStart PROVE MediaInv'
<1> USE DEF PlaceholderStart
<1>1. Sound /\ Typed /\ Related
  BY InvParts
<1>2. /\ thread' = "none" /\ freeze' = "none" /\ pump' \in {"none", "stopped"} /\ queue' = NoItem
      /\ state' = "PLACEHOLDER" /\ placeholder' = "fresh"
  BY AtRest
<1>3. /\ SoundEncoder(encoder') /\ Encoder!Key(encoder') /\ SoundClient(rtsp')
      /\ Encoder!Ready(encoder') /\ encoder'.exists
      /\ spout' \in Spout!Monitors /\ spout'.gpu_mode = encoder'.gpu
  <2>1. CASE CanSeamlessHandoff
    <3>1. encoder' = Encoder!RequestNextIdr(encoder) /\ UNCHANGED <<rtsp, spout>>
      BY <2>1
    <3>2. Encoder!Ready(encoder) /\ encoder.exists
      BY <1>1, <2>1 DEF CanSeamlessHandoff, SessionUp, Related, SessionFitsEncoder
    <3>3. SoundEncoder(encoder') /\ Same(encoder', encoder) /\ Encoder!Key(encoder')
      BY <1>1, <3>1, IdrRequested, Zenon DEF Sound
    <3> QED BY <1>1, <3>1, <3>2, <3>3 DEF Same, Sound, Related, ModeInv, Typed, Encoder!Ready
  <2>2. CASE ~CanSeamlessHandoff
    <3>1. PICK built \in Built(spout) : InitSucceeds(built) /\ spout' = built.m
      BY <2>2
    <3>2. /\ Fresh(built.e) /\ Encoder!Ready(built.e) /\ SoundClient(built.r)
          /\ built.m = Spout!SetGpuMode(spout, built.e.gpu)
      BY <1>1, BuiltWell
    <3>3. built.e.gpu \in BOOLEAN
      BY <3>2 DEF Fresh, SoundEncoder, Encoder!Encoders
    <3>4. spout' \in Spout!Monitors /\ spout'.gpu_mode = built.e.gpu
      BY <1>1, <3>1, <3>2, <3>3, ReceiverMoves DEF Typed
    <3> QED BY <3>1, <3>2, <3>4 DEF InitSucceeds, Fresh, Encoder!Key
  <2> QED BY <2>1, <2>2
<1>4. Typed' /\ Sound'
  BY <1>1, <1>2, <1>3 DEF Typed, Sound
<1>5. Related'
  <2>1. SessionFitsEncoder' /\ PictureIsCurrent' /\ WorkersInv' /\ ModeInv' /\ KeyInv'
    BY <1>2, <1>3 DEF SessionFitsEncoder, PictureIsCurrent, WorkersInv, ModeInv, KeyInv, Watching
  <2>2. FramesInv'
    BY <1>2 DEF FramesInv, Watching, Usable, NoItem
  <2> QED BY <2>1, <2>2 DEF Related
<1> QED BY <1>4, <1>5, InvParts

(* What every failure of init_encoder_and_rtsp() leads to *)
LEMMA AfterInitFails ==
  ASSUME MediaInv, NEW m \in Spout!Monitors, NEW saved \in Frames, InitFails(m, saved)
  PROVE  /\ encoder' = Encoder!NoEncoder /\ rtsp' = Rtsp!NoClient
         /\ spout' \in Spout!Monitors /\ spout'.gpu_mode = FALSE /\ initial_frame' \in Frames
<1>1. Sound
  BY InvParts
<1>2. encoder' = Encoder!NoEncoder /\ rtsp' = Rtsp!NoClient
  BY <1>1, BuiltNothing
<1>3. spout' = Spout!SetGpuMode(m, FALSE) /\ initial_frame' = WithoutTexture(saved)
  BY DEF InitFails
<1> QED BY <1>2, <1>3, ReceiverMoves, FrameMoves

(* teardown_encoder() and teardown_rtsp() *)
LEMMA AfterTeardownOutput ==
  ASSUME MediaInv, NEW m \in Spout!Monitors, NEW saved \in Frames, TeardownOutput(m, saved)
  PROVE  /\ encoder' = Encoder!NoEncoder /\ rtsp' = Rtsp!NoClient
         /\ spout' \in Spout!Monitors /\ spout'.gpu_mode = FALSE /\ initial_frame' \in Frames
<1>1. Sound
  BY InvParts
<1> QED BY <1>1, EncoderDestroyed, ClientDestroyed, ReceiverMoves, FrameMoves
        DEF TeardownOutput, TeardownRtsp, TeardownEncoder, Sound

LEMMA PlaceholderStartFailsKeeps == ASSUME MediaInv, PlaceholderStartFails PROVE MediaInv'
<1> USE DEF PlaceholderStartFails
<1>1. Typed
  BY InvParts
<1>2. /\ encoder' = Encoder!NoEncoder /\ rtsp' = Rtsp!NoClient
      /\ spout' \in Spout!Monitors /\ spout'.gpu_mode = FALSE /\ initial_frame' \in Frames
  BY <1>1, AfterInitFails DEF Typed
<1> QED BY <1>1, <1>2, AtRest, AfterTearDown DEF TornDown, Typed, Quiet, PublisherState

LEMMA PlaceholderSourceFoundKeeps == ASSUME MediaInv, PlaceholderSourceFound PROVE MediaInv'
<1> USE DEF PlaceholderSourceFound
<1>1. Typed
  BY InvParts
<1>2. state' = "CONNECTING_OUTPUT"
  BY Moves
<1>3. CASE SessionUp
  <2>1. Typed' /\ Handed
    BY <1>1, <1>2, <1>3, AtRest, ReceiverMoves DEF Typed, Handed, Quiet, PublisherState
  <2> QED BY <2>1, AfterHanding
<1>4. CASE ~SessionUp
  <2>1. /\ encoder' = Encoder!NoEncoder /\ rtsp' = Rtsp!NoClient
        /\ spout' \in Spout!Monitors /\ spout'.gpu_mode = FALSE /\ initial_frame' \in Frames
    BY <1>1, <1>4, AfterTeardownOutput, ReceiverMoves DEF Typed
  <2>2. UNCHANGED seamless_handoff
    BY <1>4
  <2> QED BY <1>1, <1>2, <2>1, <2>2, AtRest, AfterTearDown DEF TornDown, Typed, Quiet, PublisherState
<1> QED BY <1>3, <1>4

(* The two results that PlaceholderSend picks *)
StillSent(o, s) ==
  IF s.ok
    THEN /\ encoder' = o.e /\ rtsp' = s.r /\ placeholder' = "repeat"
         /\ UNCHANGED <<spout, initial_frame>>
    ELSE /\ encoder' = Encoder!Destroy(o.e) /\ rtsp' = Rtsp!Destroy(s.r)
         /\ spout' = Spout!SetGpuMode(spout, FALSE)
         /\ initial_frame' = WithoutTexture(initial_frame) /\ placeholder' = "off"

LEMMA PlaceholderSendKeeps == ASSUME MediaInv, PlaceholderSend PROVE MediaInv'
<1>1. Sound /\ Typed /\ Related
  BY InvParts
<1>2. PICK o \in Encoder!Encode(encoder, "placeholder", placeholder = "fresh", device_lost) :
        \E s \in IF o.ok THEN Rtsp!Send(rtsp, "placeholder") ELSE {[ok |-> FALSE, r |-> rtsp]} :
          StillSent(o, s)
  BY Zenon DEF PlaceholderSend, StillSent
<1>3. PICK s \in IF o.ok THEN Rtsp!Send(rtsp, "placeholder") ELSE {[ok |-> FALSE, r |-> rtsp]} :
        StillSent(o, s)
  BY <1>2, Zenon
<1>4. /\ SoundEncoder(o.e) /\ Same(o.e, encoder) /\ o.ok \in BOOLEAN
      /\ o.ok => o.e.picture = Encoder!PictureOf(encoder, "placeholder", placeholder = "fresh")
  BY <1>1, FrameEncoded DEF Sound, Typed
<1>5. /\ SoundClient(s.r) /\ s.r.exists = rtsp.exists /\ (s.r.connected => rtsp.connected)
      /\ s.ok \in BOOLEAN /\ (s.ok => o.ok /\ s.r.last = "placeholder")
  <2>1. CASE o.ok
    BY <1>1, <2>1, PacketSent DEF Sound
  <2>2. CASE ~o.ok
    <3>1. s = [ok |-> FALSE, r |-> rtsp]
      BY <1>3, <2>2
    <3> QED BY <1>1, <3>1 DEF Sound
  <2> QED BY <2>1, <2>2, <1>4
<1>6. /\ thread' = "none" /\ freeze' = "none" /\ pump' \in {"none", "stopped"} /\ queue' = NoItem
      /\ state' = "PLACEHOLDER" /\ UNCHANGED <<content_changed, seamless_handoff, envVars>>
  BY AtRest DEF PlaceholderSend
<1>7. CASE s.ok
  <2>1. encoder' = o.e /\ rtsp' = s.r /\ placeholder' = "repeat" /\ UNCHANGED <<spout, initial_frame>>
    BY <1>3, <1>7 DEF StillSent
  <2>2. Typed'
    BY <1>1, <1>6, <2>1 DEF Typed, Frames, NoItem, PublisherState
  <2>3. Sound'
    BY <1>4, <1>5, <2>1 DEF Sound
  <2>4. SessionFitsEncoder'
    BY <1>1, <1>4, <1>5, <2>1 DEF Related, SessionFitsEncoder, Rtsp!Up, Encoder!Ready, Same
  <2>5. encoder'.picture = "placeholder"
    BY <1>1, <1>4, <1>5, <1>7, <2>1
       DEF PlaceholderSend, Related, PictureIsCurrent, Encoder!PictureOf, Typed
  <2>6. PictureIsCurrent' /\ KeyInv'
    BY <1>5, <1>6, <1>7, <2>1, <2>5 DEF PictureIsCurrent, KeyInv
  <2>7. WorkersInv' /\ FramesInv'
    BY <1>6 DEF WorkersInv, FramesInv, Watching, Usable, NoItem
  <2>8. ModeInv'
    BY <1>1, <1>4, <2>1 DEF Related, ModeInv, Same
  <2> QED BY <2>2, <2>3, <2>4, <2>6, <2>7, <2>8, InvParts DEF Related
<1>8. CASE ~s.ok
  <2>1. encoder' = Encoder!NoEncoder /\ rtsp' = Rtsp!NoClient
    BY <1>3, <1>4, <1>5, <1>8, EncoderDestroyed, ClientDestroyed DEF StillSent
  <2>2. /\ spout' \in Spout!Monitors /\ spout'.gpu_mode = FALSE /\ initial_frame' \in Frames
        /\ placeholder' = "off"
    <3>1. /\ spout' = Spout!SetGpuMode(spout, FALSE)
          /\ initial_frame' = WithoutTexture(initial_frame) /\ placeholder' = "off"
      BY <1>3, <1>8 DEF StillSent
    <3> QED BY <1>1, <3>1, ReceiverMoves, FrameMoves DEF Typed
  <2>3. Typed'
    BY <1>1, <1>6, <2>2 DEF Typed, Frames, NoItem, PublisherState
  <2> QED BY <1>6, <2>1, <2>2, <2>3, AfterTearDown DEF TornDown, Quiet, PublisherState
<1> QED BY <1>7, <1>8

(* handle_connecting_output() *)
LEMMA ConnectNoFrameKeeps == ASSUME MediaInv, ConnectNoFrame PROVE MediaInv'
<1> USE DEF ConnectNoFrame
<1>1. Typed
  BY InvParts
<1>2. state' \in {"CONNECTING_OUTPUT", "PROBING"}
  BY Moves
<1>3. spout' \in Spout!Monitors /\ spout'.gpu_mode = spout.gpu_mode /\ initial_frame' \in Frames
  <2>1. CASE Spout!CanReceive(spout, sender, device_lost) /\ spout' = Spout!Received(spout, sender)
             /\ UNCHANGED initial_frame
    BY <1>1, <2>1, ReceiverMoves DEF Typed, Spout!CanReceive
  <2>2. CASE spout' = Spout!Disconnect(spout) /\ initial_frame' = Released(initial_frame)
    BY <1>1, <2>2, ReceiverMoves, FrameMoves DEF Typed
  <2> QED BY <2>1, <2>2
<1>4. Typed' /\ Handed
  BY <1>1, <1>2, <1>3, AtRest DEF Typed, Handed, Quiet, PublisherState
<1> QED BY <1>4, AfterHanding

(* The first frame is a texture only if the receiver is in GPU mode. *)
LEMMA FirstFrameFits ==
  /\ FirstFrame \in {"pixels", "texture"} /\ (FirstFrame = "texture" => spout.gpu_mode)
  /\ Answered = Spout!Received(spout, sender)
BY DEF FirstFrame, Spout!FrameOf, Answered

LEMMA ConnectSeamlessKeeps == ASSUME MediaInv, ConnectSeamless PROVE MediaInv'
<1> USE DEF ConnectSeamless
<1>1. Sound /\ Typed /\ Related
  BY InvParts
<1>2. encoder' = Encoder!RequestNextIdr(encoder) /\ UNCHANGED rtsp /\ spout' = Answered
  OBVIOUS
<1>3. SoundEncoder(encoder') /\ Same(encoder', encoder) /\ Encoder!Key(encoder')
  BY <1>1, <1>2, IdrRequested, Zenon DEF Sound
<1>4. Encoder!Ready(encoder) /\ encoder.exists
  BY <1>1 DEF CanSeamlessHandoff, SessionUp, Related, SessionFitsEncoder
<1>5. spout' \in Spout!Monitors /\ spout'.gpu_mode = spout.gpu_mode
  BY <1>1, <1>2, FirstFrameFits, ReceiverMoves DEF Typed, Spout!CanReceive
<1>6. spout'.gpu_mode = encoder'.gpu /\ (FirstFrame = "texture" => encoder'.gpu)
  BY <1>1, <1>3, <1>5, FirstFrameFits DEF Related, ModeInv, Same
<1>7. Started
  BY <1>1, <1>2, <1>3, <1>4, <1>6, FirstFrameFits, Moves, NotShown
     DEF Started, Sound, Same, Encoder!Ready, StartPump, StartThread
<1>8. Typed'
  BY <1>1, <1>5, FirstFrameFits, Moves, FrameMoves, NotShown
     DEF Typed, StartPump, StartThread, PublisherState, Frames, NoItem
<1> QED BY <1>7, <1>8, AfterStart

(* A start with an encoder and a client of its own, on the receiver m *)
LEMMA AfterBuilt ==
  ASSUME MediaInv, NEW m \in Spout!Monitors, NEW built \in Built(m), InitSucceeds(built)
  PROVE  /\ SoundEncoder(encoder') /\ Encoder!Ready(encoder') /\ encoder'.exists
         /\ Encoder!Key(encoder') /\ SoundClient(rtsp')
         /\ built.m \in Spout!Monitors /\ built.m.gpu_mode = encoder'.gpu
<1>1. Sound
  BY InvParts
<1>2. /\ Fresh(built.e) /\ Encoder!Ready(built.e) /\ SoundClient(built.r)
      /\ built.m = Spout!SetGpuMode(m, built.e.gpu)
  BY <1>1, BuiltWell
<1>3. built.e.gpu \in BOOLEAN
  BY <1>2 DEF Fresh, SoundEncoder, Encoder!Encoders
<1>4. built.m \in Spout!Monitors /\ built.m.gpu_mode = built.e.gpu
  BY <1>2, <1>3, ReceiverMoves
<1> QED BY <1>2, <1>4 DEF InitSucceeds, Fresh, Encoder!Key

LEMMA ConnectAnewKeeps == ASSUME MediaInv, ConnectAnew PROVE MediaInv'
<1> USE DEF ConnectAnew
<1>1. Typed
  BY InvParts
<1>2. PICK built \in Built(Answered) : InitSucceeds(built) /\ spout' = Reconnected(built.m)
  OBVIOUS
<1>3. Answered \in Spout!Monitors
  BY <1>1, FirstFrameFits, ReceiverMoves DEF Typed, Spout!CanReceive
<1>4. /\ SoundEncoder(encoder') /\ Encoder!Ready(encoder') /\ encoder'.exists
      /\ Encoder!Key(encoder') /\ SoundClient(rtsp')
      /\ built.m \in Spout!Monitors /\ built.m.gpu_mode = encoder'.gpu
  BY <1>2, <1>3, AfterBuilt
<1>5. spout' \in Spout!Monitors /\ spout'.gpu_mode = encoder'.gpu
  BY <1>2, <1>4, ReceiverMoves DEF Reconnected
<1>6. /\ freeze' \in {"none", "pixels"} /\ initial_frame' = MovedFrom(freeze')
      /\ content_changed' = TRUE /\ thread' = "running" /\ pump' = "running" /\ queue' = NoItem
  BY FirstFrameFits DEF StartPump, StartThread, WithoutTexture, Freed
<1>7. state' = "STREAMING" /\ placeholder' = "off"
  BY Moves, NotShown
<1>8. Started
  BY <1>4, <1>5, <1>6, <1>7 DEF Started
<1>9. Typed'
  BY <1>1, <1>5, <1>6, <1>7 DEF Typed, PublisherState, Frames, NoItem, MovedFrom
<1> QED BY <1>8, <1>9, AfterStart

LEMMA ConnectFailsKeeps == ASSUME MediaInv, ConnectFails PROVE MediaInv'
<1> USE DEF ConnectFails
<1>1. Typed
  BY InvParts
<1>2. Spout!Disconnect(Answered) \in Spout!Monitors /\ FirstFrame \in Frames
  BY <1>1, FirstFrameFits, ReceiverMoves DEF Typed, Spout!CanReceive, Frames
<1>3. /\ encoder' = Encoder!NoEncoder /\ rtsp' = Rtsp!NoClient
      /\ spout' \in Spout!Monitors /\ spout'.gpu_mode = FALSE /\ initial_frame' \in Frames
  BY <1>2, AfterInitFails
<1>4. state' = "PROBING"
  BY Moves
<1> QED BY <1>1, <1>3, <1>4, AtRest, AfterTearDown DEF TornDown, Typed, Quiet, PublisherState

(* handle_streaming(), handle_stalled() *)
LEMMA StallOrRecoverKeeps == ASSUME MediaInv, StallOrRecover PROVE MediaInv'
<1> USE DEF StallOrRecover
<1>1. Sound /\ Typed /\ Related
  BY InvParts
<1>2. state \in {"STREAMING", "STALLED"} /\ state' \in {"STREAMING", "STALLED"}
  BY Moves
<1>3. Typed' /\ Sound'
  BY <1>1, <1>2 DEF Typed, Sound, PublisherState
<1>4. SessionFitsEncoder' /\ PictureIsCurrent' /\ ModeInv' /\ KeyInv'
  BY <1>1, <1>2 DEF Related, SessionFitsEncoder, PictureIsCurrent, ModeInv, KeyInv
<1>5. WorkersInv' /\ FramesInv'
  BY <1>1, <1>2 DEF Related, WorkersInv, FramesInv, Watching, Usable
<1> QED BY <1>3, <1>4, <1>5, InvParts DEF Related

LEMMA DeviceLostSeenKeeps == ASSUME MediaInv, DeviceLostSeen PROVE MediaInv'
<1> USE DEF DeviceLostSeen
<1>1. Typed
  BY InvParts
<1>2. state' = "RECOVERING_DEVICE" /\ placeholder' = "off"
  BY Moves, NotShown DEF Watching
<1>3. Typed' /\ Handed
  BY <1>1, <1>2, SavedTyped DEF Typed, Handed, Quiet, PublisherState, ThreadGone, Frames
<1> QED BY <1>3, AfterHanding

LEMMA ResolutionChangeSeenKeeps == ASSUME MediaInv, ResolutionChangeSeen PROVE MediaInv'
<1> USE DEF ResolutionChangeSeen
<1>1. Typed
  BY InvParts
<1>2. state' = "RECONFIGURING" /\ placeholder' = "off"
  BY Moves, NotShown
<1>3. Typed' /\ Handed
  BY <1>1, <1>2 DEF Typed, Handed, Quiet, PublisherState, ThreadGone, Frames
<1> QED BY <1>3, AfterHanding

LEMMA ReconnectNeededKeeps == ASSUME MediaInv, ReconnectNeeded PROVE MediaInv'
<1> USE DEF ReconnectNeeded
<1>1. Sound /\ Typed /\ Related
  BY InvParts
<1>2. state' = "RECONNECTING_OUTPUT" /\ placeholder' = "off"
  BY Moves, NotShown DEF Watching
<1>3. rtsp' = Rtsp!NoClient /\ UNCHANGED encoder
  BY <1>1, ClientDestroyed DEF TeardownRtsp, Sound
<1>4. Typed' /\ Sound'
  BY <1>1, <1>2, <1>3, SavedTyped, NoClientSound
     DEF Typed, Sound, PublisherState, ThreadGone, Frames
<1>5. SessionFitsEncoder' /\ PictureIsCurrent' /\ ModeInv' /\ KeyInv'
  BY <1>1, <1>2, <1>3 DEF Related, SessionFitsEncoder, PictureIsCurrent, ModeInv, KeyInv,
                         ThreadGone, Rtsp!Up, Rtsp!NoClient
<1>6. WorkersInv'
  BY <1>1, <1>2, <1>3 DEF Related, WorkersInv, ThreadGone, Watching
<1>7. FramesInv'
  BY <1>1, <1>2, <1>3 DEF Related, FramesInv, ThreadGone, Watching, Usable, Saved
<1> QED BY <1>4, <1>5, <1>6, <1>7, InvParts DEF Related

(* teardown_streaming(), and the same with the receiver disconnected *)
LEMMA AfterTeardownStreaming ==
  ASSUME MediaInv, NEW m \in Spout!Monitors, NEW saved \in Frames,
         ThreadGone, DropPump, TeardownOutput(m, saved), UNCHANGED <<placeholder, envVars>>,
         seamless_handoff' \in BOOLEAN, state' \in Quiet, placeholder = "off" \/ state' = "STOPPING"
  PROVE  MediaInv'
<1>1. Typed
  BY InvParts
<1>2. /\ encoder' = Encoder!NoEncoder /\ rtsp' = Rtsp!NoClient
      /\ spout' \in Spout!Monitors /\ spout'.gpu_mode = FALSE /\ initial_frame' \in Frames
  BY AfterTeardownOutput
<1>3. Typed'
  BY <1>1, <1>2 DEF Typed, ThreadGone, DropPump, Quiet, Frames, NoItem
<1> QED BY <1>2, <1>3, AfterTearDown DEF TornDown, ThreadGone, DropPump

LEMMA TeardownKeeps ==
  ASSUME MediaInv, EncodeErrorSeen \/ WatchdogFires \/ GiveUp \/ Stop PROVE MediaInv'
<1>1. Typed /\ Related
  BY InvParts
<1>2. Saved \in Frames /\ Released(Saved) \in Frames /\ Spout!Disconnect(spout) \in Spout!Monitors
      /\ spout \in Spout!Monitors /\ seamless_handoff \in BOOLEAN
  BY <1>1, SavedTyped, FrameMoves, ReceiverMoves DEF Typed
<1>3. CASE EncodeErrorSeen
  <2>1. state' = "PROBING" /\ placeholder = "off"
    BY <1>3, Moves, NotShown DEF EncodeErrorSeen, Watching
  <2> QED BY <1>2, <1>3, <2>1, AfterTeardownStreaming
          DEF EncodeErrorSeen, TeardownStreaming, Quiet, PublisherState
<1>4. CASE WatchdogFires
  <2>1. state' = "PROBING" /\ placeholder = "off"
    BY <1>4, Moves, NotShown DEF WatchdogFires, StallLasts
  <2> QED BY <1>2, <1>4, <2>1, AfterTeardownStreaming DEF WatchdogFires, Quiet, PublisherState
<1>5. CASE GiveUp
  <2>1. state' = "FATAL" /\ placeholder = "off"
    BY <1>5, Moves, NotShown DEF GiveUp
  <2> QED BY <1>2, <1>5, <2>1, AfterTeardownStreaming
          DEF GiveUp, TeardownStreaming, Quiet, PublisherState
<1>6. CASE Stop
  <2>1. state' \in {"STOPPING", "INIT"} /\ (placeholder = "off" \/ state' = "STOPPING")
    <3>1. state' = TransitionTo(state, "STOPPING") /\ state \in PublisherState \ {"FATAL", "STOPPING"}
      BY <1>1, <1>6 DEF Stop, Typed
    <3>2. CASE state = "PLACEHOLDER"
      BY <3>1, <3>2 DEF TransitionTo, CanTransition, Successors
    <3>3. CASE state # "PLACEHOLDER"
      <4>1. placeholder = "off"
        BY <3>1, <3>3, NotShown
      <4> QED BY <3>1, <4>1 DEF TransitionTo, CanTransition, Successors, PublisherState
    <3> QED BY <3>2, <3>3
  <2> QED BY <1>2, <1>6, <2>1, AfterTeardownStreaming
          DEF Stop, TeardownStreaming, Quiet, PublisherState
<1> QED BY <1>3, <1>4, <1>5, <1>6

(* handle_stalled(), without a sender *)
LEMMA SenderMissingKeeps == ASSUME MediaInv, SenderMissing PROVE MediaInv'
<1> USE DEF SenderMissing
<1>1. Typed
  BY InvParts
<1>2. Released(Saved) \in Frames /\ Spout!Disconnect(spout) \in Spout!Monitors
      /\ Spout!Disconnect(spout).gpu_mode = spout.gpu_mode /\ placeholder = "off"
  BY <1>1, SavedTyped, FrameMoves, ReceiverMoves, NotShown DEF Typed
<1>3. CASE PlaceholderEnabled
  <2>1. /\ state' = "PLACEHOLDER" /\ spout' = Spout!Disconnect(spout)
        /\ initial_frame' = Released(Saved) /\ UNCHANGED <<encoder, rtsp>>
    BY <1>3, Moves
  <2>2. seamless_handoff' \in BOOLEAN
    BY <1>3 DEF SessionUp, Rtsp!Up
  <2>3. Typed' /\ Handed
    BY <1>1, <1>2, <2>1, <2>2 DEF Typed, Handed, ThreadGone, DropPump, Quiet, PublisherState, Frames, NoItem
  <2> QED BY <2>3, AfterHanding
<1>4. CASE ~PlaceholderEnabled
  <2>1. state' = "IDLE" /\ seamless_handoff' \in BOOLEAN
    BY <1>1, <1>4, Moves DEF Typed
  <2> QED BY <1>2, <1>4, <2>1, AfterTeardownStreaming DEF Quiet, PublisherState
<1> QED BY <1>3, <1>4

(* handle_recovering_device() *)
LEMMA RecoverDeviceKeeps == ASSUME MediaInv, RecoverDevice PROVE MediaInv'
<1> USE DEF RecoverDevice
<1>1. Sound /\ Typed
  BY InvParts
<1>2. state' \in {"PROBING", "FATAL"} /\ placeholder' = "off"
  BY Moves, NotShown
<1>3. encoder' = Encoder!NoEncoder /\ rtsp' = Rtsp!NoClient
  <2>1. Encoder!DeviceReplaced(Encoder!NoEncoder) = Encoder!NoEncoder
    BY DEF Encoder!DeviceReplaced, Encoder!NoEncoder
  <2> QED BY <1>1, <2>1, EncoderDestroyed, ClientDestroyed DEF Dismantle, TeardownRtsp, Sound
<1>4. spout' \in Spout!Monitors /\ spout'.gpu_mode = FALSE
  BY <1>1, ReceiverMoves DEF Typed, Spout!Monitors
<1>5. thread' = "none" /\ freeze' = "none" /\ pump' = "none" /\ queue' = NoItem
      /\ initial_frame' \in Frames /\ UNCHANGED content_changed
  BY <1>1, SavedTyped, FrameMoves DEF Dismantle, ThreadGone, DropPump
<1>6. Typed'
  BY <1>1, <1>2, <1>4, <1>5 DEF Typed, PublisherState, Frames, NoItem
<1> QED BY <1>2, <1>3, <1>4, <1>5, <1>6, AfterTearDown DEF TornDown, Quiet, PublisherState

(* handle_reconfiguring() *)
LEMMA ReconfigureKeeps == ASSUME MediaInv, Reconfigure PROVE MediaInv'
<1> USE DEF Reconfigure
<1>1. Typed
  BY InvParts
<1>2. Spout!SetGpuMode(spout, FALSE) \in Spout!Monitors
  BY <1>1, ReceiverMoves DEF Typed
<1>3. PICK built \in Built(Spout!SetGpuMode(spout, FALSE)) : InitSucceeds(built) /\ spout' = built.m
  OBVIOUS
<1>4. /\ SoundEncoder(encoder') /\ Encoder!Ready(encoder') /\ encoder'.exists
      /\ Encoder!Key(encoder') /\ SoundClient(rtsp')
      /\ spout' \in Spout!Monitors /\ spout'.gpu_mode = encoder'.gpu
  BY <1>2, <1>3, AfterBuilt
<1>5. /\ freeze' \in {"none", "pixels"} /\ initial_frame' = MovedFrom(freeze')
      /\ content_changed' = TRUE /\ thread' = "running" /\ pump' = "running" /\ queue' = NoItem
  BY <1>1, FrameMoves DEF StartPump, StartThread, Typed
<1>6. state' = "STREAMING" /\ placeholder' = "off"
  BY Moves, NotShown
<1>7. Started
  BY <1>4, <1>5, <1>6 DEF Started
<1>8. Typed'
  BY <1>1, <1>4, <1>5, <1>6 DEF Typed, PublisherState, Frames, NoItem, MovedFrom
<1> QED BY <1>7, <1>8, AfterStart

LEMMA ReconfigureFailsKeeps == ASSUME MediaInv, ReconfigureFails PROVE MediaInv'
<1> USE DEF ReconfigureFails
<1>1. Typed /\ WorkersInv
  BY InvParts DEF Related
<1>2. Spout!Disconnect(spout) \in Spout!Monitors /\ Released(initial_frame) \in Frames
  BY <1>1, ReceiverMoves, FrameMoves DEF Typed
<1>3. /\ encoder' = Encoder!NoEncoder /\ rtsp' = Rtsp!NoClient
      /\ spout' \in Spout!Monitors /\ spout'.gpu_mode = FALSE /\ initial_frame' \in Frames
  BY <1>2, AfterInitFails
<1>4. state' = "RECONFIGURING" /\ placeholder' = "off"
  BY Moves, NotShown
<1>5. thread' = "none" /\ freeze' = "none" /\ pump' \in {"none", "stopped"} /\ queue' = NoItem
      /\ UNCHANGED content_changed
  BY <1>1 DEF WorkersInv, Watching, StopPump
<1>6. Typed'
  BY <1>1, <1>3, <1>4, <1>5 DEF Typed, PublisherState, Frames, NoItem
<1> QED BY <1>3, <1>4, <1>5, <1>6, AfterTearDown DEF TornDown, Quiet, PublisherState

(* handle_reconnecting_output() *)
LEMMA ReconnectKeeps == ASSUME MediaInv, Reconnect PROVE MediaInv'
<1> USE DEF Reconnect
<1>1. Sound /\ Typed /\ Related
  BY InvParts
<1>2. PICK r \in Rtsp!Connected(rtsp) : r.connected /\ rtsp' = r
  OBVIOUS
<1>3. SoundClient(rtsp')
  BY <1>1, <1>2, ClientConnected DEF Sound
<1>4. SoundEncoder(encoder') /\ Same(encoder', encoder) /\ Encoder!Key(encoder')
  BY <1>1, IdrRequested, Zenon DEF Sound
<1>5. Encoder!Ready(encoder) /\ encoder.exists /\ spout.gpu_mode = encoder.gpu
      /\ initial_frame # "freed" /\ (initial_frame \in Borrowed => encoder.gpu)
  BY <1>1 DEF Related, WorkersInv, ModeInv, FramesInv, Usable
<1>6. state' = "STREAMING" /\ placeholder' = "off"
  BY Moves, NotShown
<1>7. Started
  BY <1>3, <1>4, <1>5, <1>6 DEF Started, StartThread, Same, Encoder!Ready
<1>8. Typed'
  BY <1>1, <1>6, FrameMoves DEF Typed, StartThread, PublisherState
<1> QED BY <1>7, <1>8, AfterStart

LEMMA ReconnectFailsKeeps == ASSUME MediaInv, ReconnectFails PROVE MediaInv'
<1> USE DEF ReconnectFails
<1>1. Sound /\ Typed /\ Related
  BY InvParts
<1>2. rtsp' = Rtsp!NoClient
  BY <1>1, ClientConnected, ClientDestroyed DEF Sound
<1>3. Typed' /\ Sound'
  BY <1>1, <1>2, NoClientSound DEF Typed, Sound
<1>4. SessionFitsEncoder' /\ PictureIsCurrent' /\ WorkersInv' /\ ModeInv'
  BY <1>1, <1>2 DEF Related, SessionFitsEncoder, PictureIsCurrent, WorkersInv, ModeInv, Watching,
                   Rtsp!Up, Rtsp!NoClient
<1>5. FramesInv' /\ KeyInv'
  BY <1>1, <1>2 DEF Related, FramesInv, KeyInv, WorkersInv, Watching, Usable
<1> QED BY <1>3, <1>4, <1>5, InvParts DEF Related

-----------------------------------------------------------------------------
(* The steps of the two threads and of the environment *)

(* The queue of one frame, when it is empty *)
LEMMA NoItemTyped == NoItem \in Frames \X BOOLEAN /\ "none" \in Frames
BY DEF NoItem, Frames

(* encode_publish_thread_func() *)
LEMMA EncodePopKeeps == ASSUME MediaInv, EncodePop PROVE MediaInv'
<1> USE DEF EncodePop
<1>1. Sound /\ Typed /\ Related
  BY InvParts
<1>2. /\ Watching /\ queue' = NoItem
      /\ UNCHANGED <<state, spout, encoder, rtsp, pump, holdVars, envVars>>
  BY <1>1 DEF Related, WorkersInv
<1>3. Usable(queue[1]) /\ Usable(freeze) /\ Usable(initial_frame) /\ queue[1] \in Frames
  BY <1>1, <1>2 DEF Related, FramesInv, Typed
<1>4. queue' \in Frames \X BOOLEAN /\ "none" \in Frames
  BY <1>2, NoItemTyped, Zenon
<1>5. CASE queue[2]
  <2>1. freeze' = queue[1] /\ content_changed' = TRUE /\ UNCHANGED <<thread, initial_frame>>
    BY <1>5
  <2>2. Typed'
    BY <1>1, <1>2, <1>3, <1>4, <2>1 DEF Typed
  <2>5. Sound'
    BY <1>1, <1>2 DEF Sound
  <2>3. SessionFitsEncoder' /\ PictureIsCurrent' /\ WorkersInv' /\ ModeInv' /\ KeyInv'
    BY <1>1, <1>2, <2>1
       DEF Related, SessionFitsEncoder, PictureIsCurrent, WorkersInv, ModeInv, KeyInv, Watching
  <2>4. FramesInv'
    BY <1>2, <1>3, <2>1 DEF FramesInv, Usable, NoItem
  <2> QED BY <2>2, <2>3, <2>4, <2>5, InvParts DEF Related
<1>6. CASE ~queue[2]
  <2>1. /\ thread' = "resolution_changed" /\ initial_frame' = queue[1] /\ freeze' = "none"
        /\ UNCHANGED content_changed
    BY <1>6
  <2>2. Typed'
    BY <1>1, <1>2, <1>3, <1>4, <2>1 DEF Typed, ThreadEnds
  <2>5. Sound'
    BY <1>1, <1>2 DEF Sound
  <2>3. SessionFitsEncoder' /\ PictureIsCurrent' /\ WorkersInv' /\ ModeInv' /\ KeyInv'
    BY <1>1, <1>2, <2>1
       DEF Related, SessionFitsEncoder, PictureIsCurrent, WorkersInv, ModeInv, KeyInv, Watching
  <2>4. FramesInv'
    BY <1>2, <1>3, <2>1 DEF FramesInv, Usable, NoItem
  <2> QED BY <2>2, <2>3, <2>4, <2>5, InvParts DEF Related
<1> QED BY <1>5, <1>6

(* The two results that EncodeAndSend picks *)
SourceSent(o, s) ==
  /\ encoder' = o.e /\ rtsp' = s.r
  /\ IF s.ok
       THEN content_changed' = FALSE /\ UNCHANGED <<thread, freeze, initial_frame>>
       ELSE /\ thread' = IF o.ok THEN "rtsp_error" ELSE "encode_error"
            /\ initial_frame' = freeze /\ freeze' = "none" /\ UNCHANGED content_changed

LEMMA EncodeAndSendKeeps == ASSUME MediaInv, EncodeAndSend PROVE MediaInv'
<1>1. Sound /\ Typed /\ Related
  BY InvParts
<1>2. PICK o \in Encoder!Encode(encoder, "source", content_changed, device_lost) :
        \E s \in IF o.ok THEN Rtsp!Send(rtsp, "source") ELSE {[ok |-> FALSE, r |-> rtsp]} :
          SourceSent(o, s)
  BY Zenon DEF EncodeAndSend, SourceSent
<1>3. PICK s \in IF o.ok THEN Rtsp!Send(rtsp, "source") ELSE {[ok |-> FALSE, r |-> rtsp]} :
        SourceSent(o, s)
  BY <1>2, Zenon
<1>4. /\ SoundEncoder(o.e) /\ Same(o.e, encoder) /\ o.ok \in BOOLEAN
      /\ o.ok => o.e.picture = Encoder!PictureOf(encoder, "source", content_changed)
  BY <1>1, FrameEncoded DEF Sound, Typed
<1>5. /\ SoundClient(s.r) /\ s.r.exists = rtsp.exists /\ (s.r.connected => rtsp.connected)
      /\ s.ok \in BOOLEAN /\ (s.ok => o.ok /\ s.r.last = "source")
  <2>1. CASE o.ok
    BY <1>1, <2>1, PacketSent DEF Sound
  <2>2. CASE ~o.ok
    <3>1. s = [ok |-> FALSE, r |-> rtsp]
      BY <1>3, <2>2
    <3> QED BY <1>1, <3>1 DEF Sound
  <2> QED BY <2>1, <2>2, <1>4
<1>6. thread = "running" /\ freeze # "none" /\ UNCHANGED <<state, spout, pumpVars, holdVars, envVars>>
  BY DEF EncodeAndSend
<1>7. encoder' = o.e /\ rtsp' = s.r
  BY <1>3 DEF SourceSent
<1>8. Watching
  BY <1>1, <1>6 DEF Related, WorkersInv
<1>9. Sound' /\ SessionFitsEncoder' /\ ModeInv' /\ Encoder!Ready(encoder') /\ encoder'.exists
      /\ encoder'.gpu = encoder.gpu
  BY <1>1, <1>4, <1>5, <1>6, <1>7, <1>8
     DEF Sound, Related, SessionFitsEncoder, ModeInv, WorkersInv, Same, Rtsp!Up, Encoder!Ready
<1>10. CASE s.ok
  <2>1. content_changed' = FALSE /\ UNCHANGED <<thread, freeze, initial_frame>>
    BY <1>3, <1>10 DEF SourceSent
  <2>2. Typed'
    BY <1>1, <1>6, <2>1 DEF Typed
  <2>3. encoder'.picture = "source"
    BY <1>1, <1>4, <1>5, <1>6, <1>7, <1>10
       DEF Related, PictureIsCurrent, Encoder!PictureOf, Typed
  <2>4. PictureIsCurrent' /\ KeyInv'
    BY <1>5, <1>6, <1>7, <1>8, <1>10, <2>1, <2>3 DEF PictureIsCurrent, KeyInv, Watching
  <2>5. WorkersInv' /\ FramesInv'
    BY <1>1, <1>6, <1>9, <2>1 DEF Related, WorkersInv, FramesInv, Watching, Usable
  <2> QED BY <1>9, <2>2, <2>4, <2>5, InvParts DEF Related
<1>11. CASE ~s.ok
  <2>1. /\ thread' \in ThreadEnds /\ thread' # "running"
        /\ initial_frame' = freeze /\ freeze' = "none" /\ UNCHANGED content_changed
    BY <1>3, <1>11 DEF SourceSent, ThreadEnds
  <2>2. Typed'
    BY <1>1, <1>6, <2>1 DEF Typed, Frames
  <2>3. PictureIsCurrent' /\ KeyInv'
    BY <1>6, <1>8, <2>1 DEF PictureIsCurrent, KeyInv, Watching
  <2>4. WorkersInv'
    BY <1>1, <1>6, <1>8, <1>9, <2>1 DEF Related, WorkersInv, Watching
  <2>5. FramesInv'
    BY <1>1, <1>6, <1>9, <2>1 DEF Related, FramesInv, Usable
  <2> QED BY <1>9, <2>2, <2>3, <2>4, <2>5, InvParts DEF Related
<1> QED BY <1>5, <1>10, <1>11

(* A frame that ages is as good for the encoder as before. *)
LEMMA AgedUsable ==
  ASSUME NEW f \in Frames, NEW replaced \in BOOLEAN
  PROVE  /\ Aged(f, replaced) \in Frames /\ (Usable(f) => Usable(Aged(f, replaced)))
         /\ (Aged(f, replaced) = "none" <=> f = "none")
BY DEF Aged, Frames, Usable

(* FramePump::capture_thread_func() *)
LEMMA CaptureKeeps == ASSUME MediaInv, Capture PROVE MediaInv'
<1>1. Sound /\ Typed /\ Related
  BY InvParts
<1>2. /\ UNCHANGED <<state, encoder, rtsp, pump, thread, content_changed, holdVars, envVars>>
      /\ pump = "running" /\ spout' = Spout!Polled(spout, sender, device_lost)
  BY DEF Capture
<1>3. PICK replaced \in Spout!MayReplaceTexture(spout, device_lost) :
        /\ freeze' = Aged(freeze, replaced) /\ initial_frame' = Aged(initial_frame, replaced)
        /\ \/ queue' = <<Aged(queue[1], replaced), queue[2]>>
           \/ \E same \in BOOLEAN : queue' = <<Spout!FrameOf(spout), same>>
  BY DEF Capture
<1>4. replaced \in BOOLEAN /\ queue[1] \in Frames /\ queue[2] \in BOOLEAN
  BY <1>1 DEF Typed, Spout!MayReplaceTexture
<1>5. spout' \in Spout!Monitors /\ spout'.gpu_mode = spout.gpu_mode
  BY <1>1, <1>2, ReceiverMoves DEF Typed, Spout!CanReceive, Spout!Polled
<1>6. queue' \in Frames \X BOOLEAN /\ Usable(queue[1])'
  <2>1. CASE queue' = <<Aged(queue[1], replaced), queue[2]>>
    BY <1>1, <1>2, <1>4, <2>1, AgedUsable DEF Related, FramesInv, Usable
  <2>2. ASSUME NEW same \in BOOLEAN, queue' = <<Spout!FrameOf(spout), same>>
        PROVE  queue' \in Frames \X BOOLEAN /\ Usable(queue[1])'
    BY <1>1, <1>2, <2>2 DEF Related, ModeInv, Usable, Spout!FrameOf, Frames
  <2> QED BY <1>3, <2>1, <2>2
<1>7. freeze' \in Frames /\ initial_frame' \in Frames /\ (freeze' = "none" <=> freeze = "none")
      /\ (Usable(freeze) => Usable(freeze')) /\ (Usable(initial_frame) => Usable(initial_frame'))
  BY <1>1, <1>3, <1>4, AgedUsable DEF Typed
<1>8. Typed' /\ Sound'
  BY <1>1, <1>2, <1>5, <1>6, <1>7 DEF Typed, Sound
<1>9. SessionFitsEncoder' /\ PictureIsCurrent' /\ WorkersInv' /\ ModeInv' /\ KeyInv'
  BY <1>1, <1>2, <1>5, <1>7
     DEF Related, SessionFitsEncoder, PictureIsCurrent, WorkersInv, ModeInv, KeyInv, Watching
<1>10. FramesInv'
  BY <1>1, <1>2, <1>6, <1>7 DEF Related, FramesInv, Watching, Usable
<1> QED BY <1>8, <1>9, <1>10, InvParts DEF Related

(* The world changes, or nothing does. *)
LEMMA WorldKeeps ==
  ASSUME MediaInv, SenderChanges \/ DeviceLost \/ UNCHANGED vars PROVE MediaInv'
<1>1. Sound /\ Typed /\ Related
  BY InvParts
<1>2. UNCHANGED <<state, spout, encoder, rtsp, pumpVars, threadVars, holdVars>>
  BY DEF SenderChanges, DeviceLost, vars
<1>3. Typed' /\ Sound'
  BY <1>1, <1>2 DEF Typed, Sound, SenderChanges, DeviceLost, vars
<1>4. SessionFitsEncoder' /\ PictureIsCurrent' /\ WorkersInv' /\ ModeInv' /\ KeyInv' /\ FramesInv'
  BY <1>1, <1>2
     DEF Related, SessionFitsEncoder, PictureIsCurrent, WorkersInv, ModeInv, KeyInv, FramesInv,
         Watching, Usable
<1> QED BY <1>3, <1>4, InvParts DEF Related

-----------------------------------------------------------------------------
(* The inductive invariant *)

(* Nothing is allocated, running or queued at the start. *)
LEMMA InitMedia == ASSUME Init PROVE MediaInv
<1>1. Sound
  BY NoEncoderSound, NoClientSound DEF Init, Sound
<1>2. state = "IDLE"
  BY Moves DEF Init
<1>3. Typed
  BY <1>2, NoItemTyped
     DEF Init, Typed, PublisherState, Spout!Opened, Spout!Monitors, Spout!Paths, Spout!Formats
<1>4. SessionFitsEncoder /\ PictureIsCurrent /\ WorkersInv /\ KeyInv
  BY <1>2 DEF Init, SessionFitsEncoder, PictureIsCurrent, WorkersInv, KeyInv, Watching,
              Rtsp!Up, Rtsp!NoClient
<1>5. ModeInv
  BY DEF Init, ModeInv, Spout!Opened, Encoder!NoEncoder
<1>6. FramesInv
  BY <1>2 DEF Init, FramesInv, Watching, Usable, NoItem
<1> QED BY <1>1, <1>3, <1>4, <1>5, <1>6, InvParts DEF Related

(* Every step of Next preserves MediaInv. *)
LEMMA NextMedia == ASSUME MediaInv, [Next]_vars PROVE MediaInv'
<1>1. CASE SearchStep
  BY <1>1, SearchKeeps, PlaceholderStartKeeps, PlaceholderStartFailsKeeps,
     PlaceholderSourceFoundKeeps, PlaceholderSendKeeps DEF SearchStep
<1>2. CASE ConnectStep
  BY <1>2, ConnectNoFrameKeeps, ConnectSeamlessKeeps, ConnectAnewKeeps, ConnectFailsKeeps
     DEF ConnectStep
<1>3. CASE WatchStep
  BY <1>3, StallOrRecoverKeeps, DeviceLostSeenKeeps, TeardownKeeps, ResolutionChangeSeenKeeps,
     ReconnectNeededKeeps, SenderMissingKeeps DEF WatchStep
<1>4. CASE RepairStep
  BY <1>4, RecoverDeviceKeeps, ReconfigureKeeps, ReconfigureFailsKeeps, ReconnectKeeps,
     ReconnectFailsKeeps, TeardownKeeps DEF RepairStep
<1>5. CASE Stop
  BY <1>5, TeardownKeeps
<1>6. CASE EncodePop \/ EncodeAndSend \/ Capture
  BY <1>6, EncodePopKeeps, EncodeAndSendKeeps, CaptureKeeps
<1>7. CASE SenderChanges \/ DeviceLost \/ UNCHANGED vars
  BY <1>7, WorldKeeps
<1> QED BY <1>1, <1>2, <1>3, <1>4, <1>5, <1>6, <1>7 DEF Next

(* MediaInv holds in every reachable state, for every pair of codecs, every step of init()
   and connect() that may fail, and every order of the handlers and the two threads. *)
THEOREM MediaInductive == Spec => []MediaInv
BY InitMedia, NextMedia, PTL DEF Spec

-----------------------------------------------------------------------------
(* The properties *)

(* The variables keep their types. *)
THEOREM MediaTypeCorrect == Spec => []TypeOK
<1>1. MediaInv => TypeOK
  BY DEF MediaInv
<1> QED BY <1>1, MediaInductive, PTL

(* No error branch of init() or connect() leaves an object of libav or Direct3D behind, and
   none leaves half an encoder: whichever step fails, with whichever codecs. *)
THEOREM NothingEverLeaks == Spec => []NothingLeaks
<1>1. MediaInv => NothingLeaks
  BY DEF MediaInv
<1> QED BY <1>1, MediaInductive, PTL

(* No RTSP session outlives the encoder whose parameters it was opened with. *)
THEOREM SessionAlwaysFits == Spec => []SessionFitsEncoder
<1>1. MediaInv => SessionFitsEncoder
  BY DEF MediaInv
<1> QED BY <1>1, MediaInductive, PTL

(* After a handoff in either direction nobody keeps sending the old picture. *)
THEOREM PictureStaysCurrent == Spec => []PictureIsCurrent
<1>1. MediaInv => PictureIsCurrent
  BY DEF MediaInv
<1> QED BY <1>1, MediaInductive, PTL

(* No frame on its way to the encoder borrows from a receiver that has been given up, whatever
   a later reception has made of its texture. *)
THEOREM FramesOutliveNoReceiver == Spec => []FramesOfPresentReceiver
<1>1. MediaInv => FramesOfPresentReceiver
  BY DEF MediaInv, FramesInv, Usable, FramesOfPresentReceiver
<1> QED BY <1>1, MediaInductive, PTL

(* A CPU encoder is never given a frame that is only a texture. *)
THEOREM CpuEncoderFed == Spec => []CpuEncoderGetsPixels
<1>1. MediaInv => CpuEncoderGetsPixels
  <2>1. MediaInv => Usable(freeze) /\ Usable(queue[1]) /\ freeze \in Frames
    BY DEF MediaInv, FramesInv, TypeOK
  <2> QED BY <2>1 DEF Usable, CpuEncoderGetsPixels, Frames
<1> QED BY <1>1, MediaInductive, PTL

(* The receiver is in the mode of the encoder that its frames are for. *)
THEOREM ModesMatch == Spec => []ReceiverModeMatchesEncoder
<1>1. MediaInv => ReceiverModeMatchesEncoder
  BY DEF MediaInv, ModeInv, ReceiverModeMatchesEncoder
<1> QED BY <1>1, MediaInductive, PTL

(* No encoder survives the re-creation of the device that its pool belongs to. *)
THEOREM DeviceStaysLive == Spec => []EncoderOnLiveDevice
<1>1. MediaInv => EncoderOnLiveDevice
  BY DEF MediaInv
<1> QED BY <1>1, MediaInductive, PTL

-----------------------------------------------------------------------------
(* What no step does *)

(* Only the two senders of packets show the session another picture. *)
LEMMA NothingShown ==
  ASSUME MediaInv, [Next]_vars, ~PlaceholderSend, ~EncodeAndSend
  PROVE  rtsp'.last \in {rtsp.last, "none"}
<1> USE DEF Rtsp!NoClient
<1>1. Sound /\ Typed
  BY InvParts
<1>2. ASSUME NEW m, NEW built \in Built(m), InitSucceeds(built) PROVE rtsp'.last = "none"
  BY <1>1, <1>2, BuiltWell DEF InitSucceeds
<1>3. ASSUME NEW m, NEW saved, InitFails(m, saved) PROVE rtsp'.last = "none"
  BY <1>1, <1>3, BuiltNothing
<1>4. ASSUME TeardownRtsp PROVE rtsp'.last = "none"
  BY <1>1, <1>4, ClientDestroyed DEF TeardownRtsp, Sound
<1>5. CASE StartProbing \/ ProbingFound \/ ProbingMissing \/ ConnectNoFrame \/ ConnectSeamless
           \/ StallOrRecover \/ DeviceLostSeen \/ ResolutionChangeSeen \/ EncodePop \/ Capture
           \/ SenderChanges \/ DeviceLost \/ UNCHANGED vars
  BY <1>5 DEF StartProbing, ProbingFound, ProbingMissing, ConnectNoFrame, ConnectSeamless,
              StallOrRecover, DeviceLostSeen, ResolutionChangeSeen, EncodePop, Capture,
              SenderChanges, DeviceLost, vars
<1>6. CASE PlaceholderStart
  <2>1. CASE CanSeamlessHandoff
    BY <1>6, <2>1 DEF PlaceholderStart
  <2>2. CASE ~CanSeamlessHandoff
    BY <1>2, <1>6, <2>2 DEF PlaceholderStart
  <2> QED BY <2>1, <2>2
<1>7. CASE ConnectAnew \/ Reconfigure
  BY <1>2, <1>7 DEF ConnectAnew, Reconfigure
<1>8. CASE PlaceholderStartFails \/ ConnectFails \/ ReconfigureFails
  BY <1>3, <1>8 DEF PlaceholderStartFails, ConnectFails, ReconfigureFails
<1>9. CASE PlaceholderSourceFound
  BY <1>4, <1>9 DEF PlaceholderSourceFound, TeardownOutput
<1>10. CASE SenderMissing
  BY <1>4, <1>10 DEF SenderMissing, TeardownOutput
<1>11. CASE EncodeErrorSeen \/ ReconnectNeeded \/ WatchdogFires \/ RecoverDevice \/ GiveUp \/ Stop
  BY <1>4, <1>11 DEF EncodeErrorSeen, ReconnectNeeded, WatchdogFires, RecoverDevice, GiveUp, Stop,
                     TeardownStreaming, TeardownOutput, Dismantle
<1>12. CASE Reconnect \/ ReconnectFails
  <2>1. PICK r \in Rtsp!Connected(rtsp) : rtsp' \in {r, Rtsp!Destroy(r)}
    BY <1>12 DEF Reconnect, ReconnectFails
  <2>2. SoundClient(r) /\ r.last = "none"
    BY <1>1, ClientConnected DEF Sound
  <2> QED BY <2>1, <2>2, ClientDestroyed
<1> QED BY <1>5, <1>6, <1>7, <1>8, <1>9, <1>10, <1>11, <1>12
        DEF Next, SearchStep, ConnectStep, WatchStep, RepairStep

(* A session, and each side of a handoff within it, starts with an IDR. *)
THEOREM SwitchesStartWithKey == Spec => SwitchStartsWithKey
<1>1. ASSUME MediaInv, [Next]_vars, rtsp'.last \notin {rtsp.last, "none"} PROVE Encoder!Key(encoder)
  <2>1. Sound /\ Typed /\ Related
    BY <1>1, InvParts
  <2>2. CASE EncodeAndSend
    <3>1. thread = "running"
      BY <2>2 DEF EncodeAndSend
    <3>2. \E o, s : rtsp' = s.r /\ s \in Rtsp!Send(rtsp, "source") \cup {[ok |-> FALSE, r |-> rtsp]}
      BY <2>2 DEF EncodeAndSend
    <3>3. PICK s \in Rtsp!Send(rtsp, "source") \cup {[ok |-> FALSE, r |-> rtsp]} : rtsp' = s.r
      BY <3>2
    <3>4. s.r.last \in {rtsp.last, "source"}
      BY <2>1, <3>3, PacketSent DEF Sound
    <3>5. rtsp.last # "source"
      BY <1>1, <3>3, <3>4
    <3> QED BY <2>1, <3>1, <3>5 DEF Related, KeyInv
  <2>3. CASE PlaceholderSend
    <3>1. state = "PLACEHOLDER" /\ placeholder # "off"
      BY <2>3 DEF PlaceholderSend
    <3>2. PICK s \in Rtsp!Send(rtsp, "placeholder") \cup {[ok |-> FALSE, r |-> rtsp]} :
            rtsp' \in {s.r, Rtsp!Destroy(s.r)}
      BY <2>3 DEF PlaceholderSend
    <3>3. SoundClient(s.r) /\ s.r.last \in {rtsp.last, "placeholder"}
      BY <2>1, <3>2, PacketSent DEF Sound
    <3>4. rtsp.last # "placeholder"
      BY <1>1, <3>2, <3>3, ClientDestroyed DEF Rtsp!NoClient
    <3> QED BY <2>1, <3>1, <3>4 DEF Related, KeyInv
  <2> QED BY <1>1, <2>2, <2>3, NothingShown
<1> QED BY <1>1, MediaInductive, PTL DEF Spec, SwitchStartsWithKey

(* Only the two ways of handle_connecting_output() that succeed start a stream. *)
LEMMA StreamStarts ==
  ASSUME MediaInv, [Next]_vars, state = "CONNECTING_OUTPUT", state' = "STREAMING"
  PROVE  ConnectSeamless \/ ConnectAnew
<1>1. thread = "none"
  BY AtRest
<1>2. ~StartProbing /\ ~ProbingFound /\ ~ProbingMissing /\ ~PlaceholderStart
      /\ ~PlaceholderStartFails /\ ~PlaceholderSourceFound /\ ~PlaceholderSend
  BY DEF StartProbing, ProbingFound, ProbingMissing, PlaceholderStart,
         PlaceholderStartFails, PlaceholderSourceFound, PlaceholderSend
<1>3. ~WatchStep /\ ~RepairStep
  BY DEF WatchStep, RepairStep, Watching, StallLasts, StallOrRecover, DeviceLostSeen,
         EncodeErrorSeen, ResolutionChangeSeen, ReconnectNeeded, WatchdogFires,
         SenderMissing, RecoverDevice, Reconfigure, ReconfigureFails, Reconnect,
         ReconnectFails, GiveUp
<1>4. ~Stop /\ ~ConnectNoFrame /\ ~ConnectFails
  BY Moves DEF Stop, ConnectNoFrame, ConnectFails, TransitionTo, CanTransition, Successors
<1>5. ~EncodePop /\ ~EncodeAndSend /\ ~Capture /\ ~SenderChanges /\ ~DeviceLost
      /\ ~UNCHANGED vars
  BY DEF EncodePop, EncodeAndSend, Capture, SenderChanges, DeviceLost, vars
<1> QED BY <1>2, <1>3, <1>4, <1>5 DEF Next, SearchStep, ConnectStep

(* A stream that starts from CONNECTING_OUTPUT has a receiver whose update event no other
   path has consumed. *)
THEOREM StreamsStartInTheirMode == Spec => StartsInItsMode
<1>1. ASSUME MediaInv, [Next]_vars, state = "CONNECTING_OUTPUT", state' = "STREAMING"
      PROVE  Spout!ReceivesInItsMode(spout')
  <2>1. Sound /\ Typed /\ WorkersInv
    BY <1>1, InvParts DEF Related
  <2>2. ConnectSeamless \/ ConnectAnew
    BY <1>1, StreamStarts
  <2>3. Answered \in Spout!Monitors /\ Answered.session = Spout!Path(Answered) /\ Answered.connected
    <3>1. spout \in Spout!Monitors /\ spout.connected /\ sender \in Spout!Formats
      BY <2>1, <2>2 DEF ConnectSeamless, ConnectAnew, Spout!CanReceive, Typed
    <3> QED BY <3>1 DEF Answered, Spout!Received, Spout!Path, Spout!Monitors, Spout!Paths
  <2>4. CASE ConnectSeamless
    BY <2>3, <2>4 DEF ConnectSeamless, Spout!ReceivesInItsMode
  <2>5. CASE ConnectAnew
    <3>1. PICK built \in Built(Answered) : spout' = Reconnected(built.m)
      BY <2>5 DEF ConnectAnew
    <3>2. built.m = Spout!SetGpuMode(Answered, built.e.gpu)
      BY <2>1, BuiltWell
    <3>3. built.m.connected /\ DOMAIN built.m = {"connected", "gpu_mode", "session", "format"}
      BY <2>3, <3>2 DEF Spout!SetGpuMode, Spout!Monitors
    <3> QED BY <3>1, <3>3
            DEF Reconnected, Spout!Connect, Spout!Disconnect, Spout!ReceivesInItsMode
  <2> QED BY <2>2, <2>4, <2>5
<1> QED BY <1>1, MediaInductive, PTL DEF Spec, StartsInItsMode

-----------------------------------------------------------------------------
(* The pool of a GPU encoder *)

(* Without the placeholder no session is ever handed over to the source. *)
NoHandoff == ~seamless_handoff /\ state # "PLACEHOLDER"

LEMMA HandoffNeedsPlaceholder ==
  ASSUME MediaInv, NoHandoff, PlaceholderEnabled = FALSE, [Next]_vars
  PROVE  NoHandoff'
<1> USE DEF NoHandoff
<1>1. CASE SearchStep \/ ConnectStep
  <2>1. ~PlaceholderStart /\ ~PlaceholderStartFails /\ ~PlaceholderSourceFound /\ ~PlaceholderSend
    BY DEF PlaceholderStart, PlaceholderStartFails, PlaceholderSourceFound, PlaceholderSend
  <2>2. CASE StartProbing \/ ProbingFound \/ ProbingMissing
    BY <2>2, Moves DEF StartProbing, ProbingFound, ProbingMissing
  <2>3. CASE ConnectNoFrame
    BY <2>3, Moves DEF ConnectNoFrame
  <2>4. CASE ConnectSeamless \/ ConnectAnew \/ ConnectFails
    BY <2>4, Moves DEF ConnectSeamless, ConnectAnew, ConnectFails
  <2> QED BY <1>1, <2>1, <2>2, <2>3, <2>4 DEF SearchStep, ConnectStep
<1>2. CASE WatchStep
  BY <1>2, Moves
     DEF WatchStep, StallOrRecover, DeviceLostSeen, EncodeErrorSeen, ResolutionChangeSeen,
         ReconnectNeeded, WatchdogFires, SenderMissing, Watching, StallLasts
<1>3. CASE RepairStep
  <2>1. CASE RecoverDevice
    BY <2>1, Moves DEF RecoverDevice
  <2>2. CASE Reconfigure \/ ReconfigureFails
    <3>1. UNCHANGED seamless_handoff /\ state = "RECONFIGURING"
          /\ state' \in {TransitionTo(state, "STREAMING"), TransitionTo(state, "PROBING")}
      BY <2>2 DEF Reconfigure, ReconfigureFails
    <3> QED BY <3>1, Moves
  <2>3. CASE Reconnect
    BY <2>3, Moves DEF Reconnect
  <2>4. CASE ReconnectFails \/ GiveUp
    BY <2>4, Moves DEF ReconnectFails, GiveUp
  <2> QED BY <1>3, <2>1, <2>2, <2>3, <2>4 DEF RepairStep
<1>4. CASE Stop
  BY <1>4 DEF Stop, TransitionTo
<1>5. CASE EncodePop \/ EncodeAndSend \/ Capture \/ SenderChanges \/ DeviceLost \/ UNCHANGED vars
  BY <1>5 DEF EncodePop, EncodeAndSend, Capture, SenderChanges, DeviceLost, vars
<1> QED BY <1>1, <1>2, <1>3, <1>4, <1>5 DEF Next

(* init() gives the pool of a GPU encoder the format that it is told. *)
LEMMA PoolInitialised ==
  ASSUME NEW e, SoundEncoder(e), NEW format, NEW n \in Encoder!Initialised(e, format), n.gpu
  PROVE  n.pool = Encoder!PoolFormat(format)
BY DEF Encoder!Initialised, SoundEncoder, Encoder!Encoders, Encoder!Destroy, Encoder!Reset,
       Encoder!NoEncoder

(* supervisor.cpp:768-772 is right for the sessions that the source opens itself: with the
   placeholder switched off, the pool always has the format of the sender that is there when
   a stream starts.  The run that refutes it takes over the placeholder's encoder. *)
THEOREM PoolFitsWithoutPlaceholder ==
  ASSUME PlaceholderEnabled = FALSE PROVE Spec => PoolMatchesSender
<1>1. Init => NoHandoff
  BY Moves DEF Init, NoHandoff
<1>2. MediaInv /\ NoHandoff /\ [Next]_vars => NoHandoff'
  BY HandoffNeedsPlaceholder
<1>3. ASSUME MediaInv, NoHandoff, [Next]_vars, state = "CONNECTING_OUTPUT", state' = "STREAMING",
             encoder'.gpu
      PROVE  encoder'.pool = sender
  <2>1. ConnectAnew /\ sender \in Spout!Formats /\ spout.connected /\ spout \in Spout!Monitors
    BY <1>3, StreamStarts, InvParts
       DEF NoHandoff, ConnectSeamless, CanSeamlessHandoff, ConnectAnew, Spout!CanReceive, Typed
  <2>2. Spout!SenderFormats(Answered, sender) = {sender}
    BY <2>1 DEF Answered, Spout!SenderFormats, Spout!Received, Spout!Path, Spout!Monitors,
                Spout!Paths, Spout!Formats
  <2>3. PICK built \in Built(Answered) : encoder' = built.e
    BY <2>1 DEF ConnectAnew, InitSucceeds
  <2>4. built.e \in Encoder!Initialised(encoder, sender)
    BY <2>2, <2>3 DEF Built
  <2>5. built.e.pool = Encoder!PoolFormat(sender)
    BY <1>3, <2>3, <2>4, InvParts, PoolInitialised DEF Sound
  <2> QED BY <2>1, <2>3, <2>5 DEF Encoder!PoolFormat, Spout!Formats
<1> QED BY <1>1, <1>2, <1>3, MediaInductive, PTL DEF Spec, PoolMatchesSender
=============================================================================
