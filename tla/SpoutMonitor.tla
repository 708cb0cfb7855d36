---------------------------- MODULE SpoutMonitor ----------------------------
(***************************************************************************)
(* SpoutMonitor (src/spout/spout_monitor.cpp), as a record and the         *)
(* operations on it; module MediaPath keeps one in its variable spout.     *)
(*                                                                         *)
(* session is the state inside spoutDX: "none" until the first successful  *)
(* reception, then the path ("cpu": ReceiveImage, "gpu": ReceiveTexture)   *)
(* that consumed its update event.  handle_connecting_output()'s comment   *)
(* (supervisor.cpp:419-423) says what follows: the other path may then     *)
(* never receive.  format is the sender's texture format as spoutDX knows  *)
(* it.  Sizes, names, fps and sequence numbers are left out.  Every         *)
(* operation holds mutex_ throughout, so each is atomic.                   *)
(***************************************************************************)

Formats == {"bgra", "rgba"}
Paths   == {"cpu", "gpu"}

Monitors ==
  [ connected : BOOLEAN, gpu_mode : BOOLEAN, session : Paths \cup {"none"},
    format : Formats \cup {"unknown"} ]

(* after init() *)
Opened == [connected |-> FALSE, gpu_mode |-> FALSE, session |-> "none", format |-> "unknown"]

(* connect() only sets the name; disconnect() releases the receiver and its texture *)
Connect(m) == [m EXCEPT !.connected = TRUE]
Disconnect(m) ==
  IF m.connected
    THEN [m EXCEPT !.connected = FALSE, !.session = "none", !.format = "unknown"] ELSE m
FreesTexture(m) == m.connected

SetGpuMode(m, enabled) == [m EXCEPT !.gpu_mode = enabled]

(* reinit_device(): the receiver and the device are given up first; it returns to the
   CPU path and stays disconnected, whether or not the new device can be opened *)
ReinitDevice(m) == Opened

Path(m) == IF m.gpu_mode THEN "gpu" ELSE "cpu"

(* receive_latest_frame(): it can succeed with a live sender and device; the frame has
   pixels of its own, or borrows the receiver's texture *)
CanReceive(m, sender, device_lost) == m.connected /\ sender # "none" /\ ~device_lost
Received(m, sender) == [m EXCEPT !.session = Path(m), !.format = sender]
Polled(m, sender, device_lost) ==
  IF CanReceive(m, sender, device_lost) THEN Received(m, sender) ELSE m
FrameOf(m) == IF m.gpu_mode THEN "texture" ELSE "pixels"

(* On the GPU path that pointer is valid only until the next ReceiveTexture(): whether the
   call succeeds or not, it may replace the texture that earlier frames borrow *)
MayReplaceTexture(m, device_lost) ==
  IF m.connected /\ m.gpu_mode /\ ~device_lost THEN BOOLEAN ELSE {FALSE}

(* get_sender_dxgi_format(): 0 ("unknown") unless the receiver is really connected; that
   a sender has gone is noticed by a later reception *)
SenderFormats(m, sender) ==
  IF ~m.connected \/ m.session = "none" THEN {"unknown"}
  ELSE IF sender # "none" THEN {m.format} ELSE {m.format, "unknown"}

(* The update event has been consumed by no path, or by the one in use *)
ReceivesInItsMode(m) == m.session \in {"none", Path(m)}
=============================================================================
