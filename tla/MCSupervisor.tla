---------------------------- MODULE MCSupervisor ----------------------------
(***************************************************************************)
(* Instances of Supervisor for TLC; the .cfg files give the constants.     *)
(***************************************************************************)
EXTENDS Supervisor

(* The VIEW of the safety runs: states that differ only in a value the program
   overwrites before it reads it are one state.  stall_timer_ is reset on the way into
   STALLED and read only there; placeholder_probe_timer_ is reset when the placeholder
   starts and read only while it is active; pending_width_/height_ are stored before
   resolution_changed_flag_ is raised and read only by the handler that saw the flag. *)
LiveView ==
  <<mainVars, encVars, flags, streamVars, seamless_handoff, placeholder, cooldown, waitVars,
    worldVars, IF placeholder # None THEN probe_due ELSE FALSE,
    reconnect_attempts, backoff_attempt, backoff_delay, consecutive_stall_recoveries,
    IF state = "STALLED" THEN stall_age ELSE 0,
    IF "resolution_changed" \in flags \/ pc = "reconfigure_join" THEN pending ELSE None>>
=============================================================================
