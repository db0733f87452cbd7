----------------------------- MODULE JobStates -----------------------------
(***************************************************************************)
(* The vocabulary every part of CopySecureFast shares: the states of a job *)
(* (daemon/src/types.rs, mirrored in csf_client/protocol.py), the control  *)
(* verbs of the JSON-RPC protocol, and the three values of the atomic byte *)
(* through which the RPC server talks to a running copy (ops/copy.rs).     *)
(***************************************************************************)

JobState == {"pending", "running", "paused", "completed", "failed", "cancelled"}

(* JobState::is_cancellable, is_pausable, is_resumable.                    *)
Cancellable == {"pending", "running", "paused"}
Pausable    == {"pending", "running"}
Resumable   == {"paused"}

(* JobState.is_terminal of the Python mirror.                              *)
Terminal == {"completed", "failed", "cancelled"}

(* What one run of the copy engine may end in.                             *)
Outcome == Terminal \cup {"paused"}

Operation == {"copy", "move"}

Verb == {"pause", "resume", "cancel"}

(* The filter control_job applies before it touches a job's signal.        *)
Eligible(verb) == CASE verb = "pause"  -> Pausable
                    [] verb = "resume" -> Resumable
                    [] verb = "cancel" -> Cancellable

Signal == {"run", "pause", "cancel"}   \* SIGNAL_RUN, SIGNAL_PAUSE, SIGNAL_CANCEL

SignalOfRaw(verb)     == verb
SignalOfSwapped(verb) == CASE verb = "pause"  -> "cancel"
                           [] verb = "cancel" -> "pause"
                           [] verb = "resume" -> "run"

(* The value control_job stores for each verb.                             *)
SignalOf(verb) == IF verb = "resume" THEN "run" ELSE verb
=============================================================================
