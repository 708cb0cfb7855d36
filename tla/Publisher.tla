------------------------------ MODULE Publisher ------------------------------
(***************************************************************************)
(* What the Supervisor (src/app/supervisor.cpp) promises to the RTSP       *)
(* server and to whoever watches: who publishes, and through what.  The    *)
(* source (the encode thread) and the placeholder (the main thread) take   *)
(* turns at one output, an encoder and an RTSP session.  They never        *)
(* publish together, nobody publishes through half an output, an output is *)
(* opened as a whole, only its session is renewed alone, and none of it is *)
(* released under whoever publishes.  Modules Supervisor and MediaPath     *)
(* both implement this.                                                    *)
(***************************************************************************)
EXTENDS StateMachine, TLAPS

VARIABLES
  state,       \* the publisher's state
  encoder,     \* there is an encoder
  session,     \* "none", "connected" or "broken"
  publisher    \* who publishes: "nobody", "source" or "placeholder"

publisherVars == <<state, encoder, session, publisher>>

TypeOK ==
  /\ state \in PublisherState \ {"INIT"} /\ encoder \in BOOLEAN
  /\ session \in {"none", "connected", "broken"}
  /\ publisher \in {"nobody", "source", "placeholder"}

PublisherInit ==
  state = "IDLE" /\ encoder = FALSE /\ session = "none" /\ publisher = "nobody"

(* The output: whole, absent; opened (or up already, and taken over), kept, released *)
Whole == encoder /\ session = "connected"
Absent == ~encoder /\ session = "none"
Open  == encoder' = TRUE /\ session' = "connected"
Keep  == UNCHANGED <<encoder, session>>
Close == encoder' = FALSE /\ session' = "none"

Streaming == {"STREAMING", "STALLED"}

-----------------------------------------------------------------------------
(* The search for somebody to publish leaves the output alone. *)
Search ==
  /\ \/ state = "IDLE" /\ state' = "PROBING"
     \/ state = "PROBING" /\ state' \in {"CONNECTING_OUTPUT", "PLACEHOLDER"}
     \/ state = "CONNECTING_OUTPUT" /\ state' = "PROBING"
  /\ Keep /\ UNCHANGED publisher

StartPlaceholder ==
  /\ state = "PLACEHOLDER" /\ publisher = "nobody" /\ publisher' = "placeholder"
  /\ Open /\ UNCHANGED state

(* After an RTSP outage the session alone is opened, for the encoder of before. *)
StartSource ==
  /\ publisher = "nobody" /\ publisher' = "source" /\ Open /\ state' = "STREAMING"
  /\ \/ state \in {"CONNECTING_OUTPUT", "RECONFIGURING"}
     \/ state = "RECONNECTING_OUTPUT" /\ encoder /\ session = "none"

(* An output that cannot be opened leaves nothing behind.  A failed reconfiguration asks
   for a move that the table does not have. *)
StartFails ==
  /\ publisher = "nobody" /\ Close /\ UNCHANGED publisher
  /\ \/ state \in {"PLACEHOLDER", "RECONFIGURING"} /\ UNCHANGED state
     \/ state = "CONNECTING_OUTPUT" /\ state' = "PROBING"

(* The placeholder ends: for a source that may take its session over, or by a failure *)
PlaceholderEnds ==
  /\ state = "PLACEHOLDER" /\ publisher = "placeholder" /\ publisher' = "nobody"
  /\ \/ Keep /\ state' = "CONNECTING_OUTPUT"
     \/ Close /\ UNCHANGED state

-----------------------------------------------------------------------------
Stall ==
  /\ state \in Streaming /\ state' \in Streaming /\ Keep /\ UNCHANGED publisher

(* The encode thread returns, asked to or by an error, which may be that of the session. *)
SourceEnds ==
  /\ publisher = "source" /\ publisher' = "nobody"
  /\ session' \in {session, "broken"} /\ UNCHANGED <<state, encoder>>

(* A stream is left once nobody publishes: with nothing, with all of the output, or with
   the encoder that waits for a new session. *)
LeaveStream ==
  /\ state \in Streaming /\ publisher' = "nobody"
  /\ \/ state' \in {"IDLE", "PROBING"} /\ Close
     \/ state' \in {"PLACEHOLDER", "RECONFIGURING", "RECOVERING_DEVICE"} /\ Keep
     \/ state' = "RECONNECTING_OUTPUT" /\ session' = "none" /\ UNCHANGED encoder

(* A lost device, or a server that refuses too often *)
Recover ==
  /\ state = "RECOVERING_DEVICE" /\ state' \in {"PROBING", "FATAL"} /\ Close /\ UNCHANGED publisher
GiveUp ==
  /\ state = "RECONNECTING_OUTPUT" /\ state' = "FATAL" /\ Close /\ UNCHANGED publisher

(* A stop releases the output at once, or leaves it to the end of run(); the encode thread
   may publish until then. *)
Stop ==
  /\ state \notin {"STOPPING", "FATAL"} /\ state' = "STOPPING"
  /\ \/ Close /\ publisher' = "nobody"
     \/ Keep /\ publisher' = (IF publisher = "source" THEN "source" ELSE "nobody")
Finish ==
  /\ state = "STOPPING" /\ publisher = "nobody" /\ state' = "IDLE" /\ Close /\ UNCHANGED publisher

-----------------------------------------------------------------------------
PublisherNext ==
  \/ Search \/ StartPlaceholder \/ StartSource \/ StartFails \/ PlaceholderEnds
  \/ Stall \/ SourceEnds \/ LeaveStream \/ Recover \/ GiveUp \/ Stop \/ Finish

PublisherSpec == PublisherInit /\ [][PublisherNext]_publisherVars

-----------------------------------------------------------------------------
(* Whoever publishes does so through a whole output and in a state of his own, a session
   always has its encoder, and what is left of the output in a state without a publisher
   is what the next one may take over. *)
OutputFollowsState ==
  /\ publisher # "nobody" => Whole
  /\ publisher = "placeholder" => state = "PLACEHOLDER"
  /\ publisher = "source" => state \in Streaming \cup {"STOPPING"}
  /\ session # "none" => encoder
  /\ state \in Streaming => encoder /\ session # "none"
  /\ state = "RECONNECTING_OUTPUT" => encoder /\ session = "none"
  /\ state \in {"PROBING", "CONNECTING_OUTPUT"} => Whole \/ Absent
  /\ state \in {"IDLE", "FATAL"} => Absent
-----------------------------------------------------------------------------
(* That follows from the steps, whoever implements them. *)

PublisherInv == TypeOK /\ OutputFollowsState

(* Every step keeps the publisher and his output together. *)
LEMMA PublisherStep == PublisherInv /\ [PublisherNext]_publisherVars => PublisherInv'
<1>1. ASSUME PublisherInv, PublisherNext PROVE PublisherInv'
  <2> USE DEF PublisherInv, TypeOK, OutputFollowsState, PublisherState, Whole, Absent, Open, Keep,
              Close, Streaming
  <2>1. CASE Search \/ Stall
    BY <1>1, <2>1 DEF Search, Stall
  <2>2. CASE StartPlaceholder \/ StartSource
    BY <1>1, <2>2 DEF StartPlaceholder, StartSource
  <2>3. CASE StartFails \/ PlaceholderEnds
    BY <1>1, <2>3 DEF StartFails, PlaceholderEnds
  <2>4. CASE SourceEnds \/ LeaveStream
    BY <1>1, <2>4 DEF SourceEnds, LeaveStream
  <2>5. CASE Recover \/ GiveUp \/ Stop \/ Finish
    BY <1>1, <2>5 DEF Recover, GiveUp, Stop, Finish
  <2> QED BY <1>1, <2>1, <2>2, <2>3, <2>4, <2>5 DEF PublisherNext
<1>2. ASSUME PublisherInv, UNCHANGED publisherVars PROVE PublisherInv'
  BY <1>2 DEF publisherVars, PublisherInv, TypeOK, OutputFollowsState, Whole, Absent
<1> QED BY <1>1, <1>2

(* Whatever implements this specification publishes through a whole output, in turns. *)
THEOREM PublisherSafe == PublisherSpec => []PublisherInv
<1>1. PublisherInit => PublisherInv
  BY DEF PublisherInit, PublisherInv, TypeOK, OutputFollowsState, PublisherState, Whole, Absent,
     Streaming
<1> QED BY <1>1, PublisherStep, PTL DEF PublisherSpec
=============================================================================

