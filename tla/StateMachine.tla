---------------------------- MODULE StateMachine ----------------------------
(***************************************************************************)
(* The publisher's transition table (src/app/state_machine.cpp).           *)
(*                                                                         *)
(* StateMachine::transition_to(to) changes the state only when the pair    *)
(* (current, to) is in the table; any other request is refused and leaves  *)
(* the state as it was.  Every caller in supervisor.cpp ignores the        *)
(* returned bool, so a refused request is a silent no-op: TransitionTo     *)
(* models exactly that.                                                    *)
(***************************************************************************)

(* enum class PublisherState *)
PublisherState ==
  { "INIT", "IDLE", "PROBING", "PLACEHOLDER", "CONNECTING_OUTPUT", "STREAMING",
    "STALLED", "RECONFIGURING", "RECONNECTING_OUTPUT", "RECOVERING_DEVICE",
    "STOPPING", "FATAL" }

(* valid_transitions_, as the set of successors of each state *)
Successors ==
  [ INIT                |-> {"IDLE", "FATAL"},
    IDLE                |-> {"PROBING", "STOPPING"},
    PROBING             |-> {"IDLE", "CONNECTING_OUTPUT", "PLACEHOLDER", "STOPPING"},
    PLACEHOLDER         |-> {"CONNECTING_OUTPUT", "STOPPING"},
    CONNECTING_OUTPUT   |-> {"STREAMING", "PROBING", "STOPPING", "FATAL"},
    STREAMING           |-> {"STALLED", "RECONFIGURING", "RECONNECTING_OUTPUT",
                             "STOPPING", "IDLE", "PROBING", "RECOVERING_DEVICE"},
    STALLED             |-> {"STREAMING", "RECONNECTING_OUTPUT", "STOPPING", "IDLE",
                             "PROBING", "PLACEHOLDER", "RECOVERING_DEVICE"},
    RECONFIGURING       |-> {"STREAMING", "STOPPING", "FATAL"},
    RECONNECTING_OUTPUT |-> {"STREAMING", "STOPPING", "FATAL"},
    RECOVERING_DEVICE   |-> {"PROBING", "FATAL", "STOPPING"},
    STOPPING            |-> {"IDLE"},
    FATAL               |-> {} ]

(* A table that lacks one entry: what a forgotten line of it would do *)
SlipMissingEntry(from, to) ==
  to \in Successors[from] /\ <<from, to>> # <<"PLACEHOLDER", "CONNECTING_OUTPUT">>

(* StateMachine::can_transition, for the current state "from" *)
CanTransition(from, to) == to \in Successors[from]

(* The state after StateMachine::transition_to(to) in the state "from" *)
TransitionTo(from, to) == IF CanTransition(from, to) THEN to ELSE from
=============================================================================
