----------------------------- MODULE RtspClient -----------------------------
(***************************************************************************)
(* RtspPublisherClient (src/rtsp/rtsp_publisher_client.cpp), as a record   *)
(* and the operations on it; module MediaPath keeps one in its variable    *)
(* rtsp.  held is the set of libav objects its Impl points to; last is     *)
(* what the outside can say of the session: which picture it was last      *)
(* sent.  Packet contents and time bases are left out, and so is what      *)
(* avformat_write_header() opens inside the muxer: av_write_trailer(),     *)
(* which closes it and is skipped after a failed write, has nothing to     *)
(* release here.                                                           *)
(***************************************************************************)
EXTENDS Naturals, Sequences

(* Steps of connect(): what each allocates, and what its error branch releases.  The
   last is the reusable packet, allocated after connected_ has been set. *)
ConnectPath == <<"context", "stream", "extradata", "header", "packet">>
Gains == [ context |-> {"fmt_ctx"}, stream |-> {}, extradata |-> {}, header |-> {},
           packet |-> {"pkt"} ]
Object == UNION {Gains[s] : s \in DOMAIN Gains}
Frees == [ context |-> {}, stream |-> {"fmt_ctx"}, extradata |-> {"fmt_ctx"},
           header |-> {"fmt_ctx"}, packet |-> {"fmt_ctx"} ]
LeftBy(k) == (UNION {Gains[ConnectPath[j]] : j \in 1..(k - 1)}) \ Frees[ConnectPath[k]]

Clients ==
  [ exists : BOOLEAN, held : SUBSET Object, stray : SUBSET Object, connected : BOOLEAN,
    last : {"none", "placeholder", "source"} ]

NoClient ==
  [ exists |-> FALSE, held |-> {}, stray |-> {}, connected |-> FALSE, last |-> "none" ]

(* disconnect(), a no-op without a context; the destructor calls it too *)
Disconnect(r) ==
  IF "fmt_ctx" \notin r.held THEN r
  ELSE [r EXCEPT !.held = {}, !.connected = FALSE, !.last = "none"]
Destroy(r) == [NoClient EXCEPT !.stray = r.stray \cup Disconnect(r).held]

(* make_unique<RtspPublisherClient>() in the place of r, and connect() *)
Connected(r) ==
  LET fresh == [Destroy(r) EXCEPT !.exists = TRUE]
  IN  {[fresh EXCEPT !.held = Object, !.connected = TRUE]}
        \cup {[fresh EXCEPT !.stray = @ \cup LeftBy(k)] : k \in DOMAIN ConnectPath}

Up(r) == r.exists /\ r.connected

(* send_packet(): without a session it fails; a packet that cannot be allocated leaves
   the client connected, a failed write does not *)
Send(r, picture) ==
  IF ~r.connected \/ r.held # Object THEN {[ok |-> FALSE, r |-> r]}
  ELSE { [ok |-> TRUE,  r |-> [r EXCEPT !.last = picture]],
         [ok |-> FALSE, r |-> r],
         [ok |-> FALSE, r |-> [r EXCEPT !.connected = FALSE]] }

(* No error branch of connect() leaves a context behind, and a connected client
   has the context and the packet that send_packet() uses. *)
Accounted(r) ==
  r.stray = {} /\ r.held \in {{}, Object} /\ (r.connected => r.held = Object)
               /\ (~r.exists => r.held = {})
=============================================================================
