-------------------------- MODULE EncoderController --------------------------
(***************************************************************************)
(* EncoderController (src/encoder/encoder_controller.cpp), as a record and *)
(* the operations on it; module MediaPath keeps one in its variable        *)
(* encoder.                                                                *)
(*                                                                         *)
(* init() takes a codec through a list of allocations, any of which may    *)
(* fail, each with an error branch of its own that releases what has been  *)
(* allocated so far by hand.  Gains and Frees are the two sides of those   *)
(* branches; what a branch forgets ends up in the field "stray".  Codec    *)
(* parameters, pixel conversion and packet contents are left out.  A frame *)
(* that is sent yields its packet at once: the program configures no       *)
(* encoder delay (max_b_frames 0, delay 0, zerolatency).                   *)
(***************************************************************************)
EXTENDS Naturals, Sequences

CONSTANTS
  Codec,           \* config.codec: "hardware" (nvenc, amf, qsv) or "software"
  FallbackCodec    \* config.fallback_codec: "hardware", "software" or "none" (empty)

(* What each step of init() allocates when it succeeds *)
Gains ==
  [ find |-> {}, alloc_context |-> {"codec_ctx"},
    device_alloc |-> {"hw_device_ctx", "d3d_ctx"}, device_init |-> {},
    frames_alloc |-> {"hw_frames_ctx"}, frames_init |-> {},
    open |-> {}, device_ref |-> {"d3d_device"}, last_hw_frame |-> {"last_hw_frame"},
    sws |-> {"sws_ctx"}, colorspace |-> {}, yuv_frame |-> {"yuv_frame"}, yuv_buffer |-> {},
    gpu_pkt |-> {"pkt"}, cpu_pkt |-> {"pkt"} ]

Steps == DOMAIN Gains
Object == UNION {Gains[s] : s \in Steps}

(* The steps of try_init_gpu_path(), and the order of the steps on either path *)
TryGpu == {"device_alloc", "device_init", "frames_alloc", "frames_init"}
GpuPath == <<"find", "alloc_context", "device_alloc", "device_init", "frames_alloc",
             "frames_init", "open", "device_ref", "last_hw_frame", "gpu_pkt">>
CpuPath == <<"find", "alloc_context", "open", "sws", "colorspace", "yuv_frame", "yuv_buffer",
             "cpu_pkt">>

(* reset() releases every pointer of Impl *)
FreedByReset == {"pkt", "yuv_frame", "sws_ctx", "last_hw_frame", "hw_frames_ctx",
                 "hw_device_ctx", "d3d_ctx", "d3d_device", "codec_ctx"}

(* What the error branch of each step releases when it fails *)
SlipFrees ==
  [ find |-> {}, alloc_context |-> {}, device_alloc |-> {},
    device_init |-> {"hw_device_ctx", "d3d_ctx"},
    frames_alloc |-> {"hw_device_ctx", "d3d_ctx"},
    frames_init |-> {"hw_frames_ctx", "hw_device_ctx", "d3d_ctx"},
    open |-> {"hw_frames_ctx", "hw_device_ctx", "d3d_ctx", "codec_ctx"},
    device_ref |-> {}, last_hw_frame |-> FreedByReset, gpu_pkt |-> FreedByReset,
    sws |-> {"codec_ctx"}, colorspace |-> {"codec_ctx"},
    yuv_frame |-> {"sws_ctx", "codec_ctx"},
    yuv_buffer |-> {"yuv_frame", "sws_ctx", "codec_ctx"},
    cpu_pkt |-> {"yuv_frame", "sws_ctx", "codec_ctx"} ]
Frees ==
  [ find |-> {}, alloc_context |-> {}, device_alloc |-> {},
    device_init |-> {"hw_device_ctx", "d3d_ctx"},
    frames_alloc |-> {"hw_device_ctx", "d3d_ctx"},
    frames_init |-> {"hw_frames_ctx", "hw_device_ctx", "d3d_ctx"},
    open |-> {"hw_frames_ctx", "hw_device_ctx", "d3d_ctx", "codec_ctx"},
    device_ref |-> {}, last_hw_frame |-> FreedByReset, gpu_pkt |-> FreedByReset,
    sws |-> {"codec_ctx"}, colorspace |-> {"sws_ctx", "codec_ctx"},
    yuv_frame |-> {"sws_ctx", "codec_ctx"},
    yuv_buffer |-> {"yuv_frame", "sws_ctx", "codec_ctx"},
    cpu_pkt |-> {"yuv_frame", "sws_ctx", "codec_ctx"} ]

-----------------------------------------------------------------------------
(* init(): the ways it can end *)

(* What is still allocated after the k-th step of a path failed *)
LeftBy(path, k) == (UNION {Gains[path[j]] : j \in 1..(k - 1)}) \ Frees[path[k]]
HeldBy(path) == UNION {Gains[path[k]] : k \in DOMAIN path}

Ends(path) == {[path |-> path, stray |-> {}]}
Leaving(left, outcomes) == {[o EXCEPT !.stray = @ \cup left] : o \in outcomes}

(* A failed step either lets the next codec be tried ("rest") or ends init() *)
TriesNextCodec == {"find", "alloc_context", "open", "sws", "colorspace"}
FailedAt(path, k, rest) ==
  Leaving(LeftBy(path, k), IF path[k] \in TriesNextCodec THEN rest ELSE Ends(<<>>))

CpuOutcomes(rest) ==
  Ends(CpuPath) \cup UNION {FailedAt(CpuPath, k, rest) : k \in DOMAIN CpuPath}

(* A failure inside try_init_gpu_path() keeps the codec and goes on without the GPU;
   AddRef() on the device cannot fail *)
GpuOutcomes(rest) ==
  LET inTry == {k \in DOMAIN GpuPath : GpuPath[k] \in TryGpu}
      others == {k \in (DOMAIN GpuPath) \ inTry : GpuPath[k] # "device_ref"}
  IN  Ends(GpuPath) \cup (UNION {FailedAt(GpuPath, k, rest) : k \in others})
        \cup (UNION {Leaving(LeftBy(GpuPath, k) \ {"codec_ctx"}, CpuOutcomes(rest)) : k \in inTry})

(* The primary codec, then the fallback *)
Tried(codec, rest) == IF codec = "hardware" THEN GpuOutcomes(rest) ELSE CpuOutcomes(rest)
InitOutcomes ==
  Tried(Codec, IF FallbackCodec = "none" THEN Ends(<<>>) ELSE Tried(FallbackCodec, Ends(<<>>)))

-----------------------------------------------------------------------------
(* The controller.  first: frame_count = 0; idr: force_next_idr; picture: what
   yuv_frame or last_hw_frame shows; device: whose textures the pool is made of;
   pool: sw_format of the pool. *)
Pictures == {"none", "placeholder", "source"}

Encoders ==
  [ exists : BOOLEAN, held : SUBSET Object, stray : SUBSET Object, gpu : BOOLEAN,
    pool : {"none", "bgra", "rgba"}, device : {"none", "current", "replaced"},
    first : BOOLEAN, idr : BOOLEAN, picture : Pictures ]

NoEncoder ==
  [ exists |-> FALSE, held |-> {}, stray |-> {}, gpu |-> FALSE, pool |-> "none",
    device |-> "none", first |-> TRUE, idr |-> FALSE, picture |-> "none" ]

(* reset(), which the destructor calls too; and an encoder_ that is destroyed *)
Reset(e) ==
  [ NoEncoder EXCEPT !.exists = e.exists, !.stray = e.stray \cup (e.held \ FreedByReset) ]
Destroy(e) == [Reset(e) EXCEPT !.exists = FALSE]

(* reinit_device() replaces the device under a pool that may be left *)
DeviceReplaced(e) == [e EXCEPT !.device = IF @ = "current" THEN "replaced" ELSE @]

(* The pool follows the sender's format, when the sender is known: RGBA or else BGRA *)
SlipPoolFormat(sender_format) == sender_format
PoolFormat(sender_format) == IF sender_format = "rgba" THEN "rgba" ELSE "bgra"

(* make_unique<EncoderController>() in the place of e, and init() *)
Initialised(e, sender_format) ==
  { LET gpu == "hw_frames_ctx" \in HeldBy(o.path)
        fresh == [Destroy(e) EXCEPT !.exists = TRUE]
    IN  [ fresh EXCEPT !.held = HeldBy(o.path), !.stray = @ \cup o.stray, !.gpu = gpu,
                       !.pool = IF gpu THEN PoolFormat(sender_format) ELSE "none",
                       !.device = IF gpu THEN "current" ELSE "none" ]
    : o \in InitOutcomes }

Ready(e) == "codec_ctx" \in e.held

SlipIdr(e) == e
RequestNextIdr(e) == [e EXCEPT !.idr = TRUE]

(* flush() only drains what the caller discards *)

(* encode() makes the picture from the frame when its content changed and consumes the
   flag for an IDR; it can fail before or after that, and fails at once on a lost device.
   (Its test for a frame without pixels and texture is met by no caller: has_freeze.) *)
PictureOf(e, shows, changed) ==
  IF changed \/ e.first \/ e.picture = "none" THEN shows ELSE e.picture

Encoded(e, shows, changed) ==
  [e EXCEPT !.picture = PictureOf(e, shows, changed), !.first = FALSE, !.idr = FALSE]

Key(e) == e.idr \/ e.first

(* Where a failure leaves the GPU path between the two: the old picture is dropped before
   the new one is kept, and a copy of that is what is sent *)
HalfEncoded(e, shows, changed) ==
  IF e.gpu THEN {[e EXCEPT !.picture = p] : p \in {"none", PictureOf(e, shows, changed)}} ELSE {}

Encode(e, shows, changed, device_lost) ==
  LET after == Encoded(e, shows, changed)
      failed == {e, after} \cup HalfEncoded(e, shows, changed)
  IN  IF ~Ready(e) \/ (e.gpu /\ device_lost) THEN {[ok |-> FALSE, e |-> e]}
      ELSE {[ok |-> TRUE, e |-> after]} \cup {[ok |-> FALSE, e |-> f] : f \in failed}

-----------------------------------------------------------------------------
(* Everything init() allocates is either in use by a complete encoder or has been
   released: no error branch leaves an object behind, and none leaves half an encoder. *)
Accounted(e) ==
  e.stray = {} /\ e.held \in {{}, HeldBy(GpuPath), HeldBy(CpuPath)}
               /\ (e.gpu <=> e.held = HeldBy(GpuPath)) /\ (~e.exists => e.held = {})
=============================================================================
