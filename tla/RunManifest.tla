----------------------------- MODULE RunManifest -----------------------------
(* The job statuses a run manifest (run_manifest.json) can carry, the         *)
(* transitions the manifest store accepts, and the best-effort terminal write *)
(* the web server makes on behalf of a child that can no longer speak.        *)

JobStatus ==
    {"pending", "validating", "running", "succeeded", "failed", "retrying",
     "cancelled"}

\* Statuses after which a manifest is immutable (failed -> retrying aside).
TerminalJobStatus == {"succeeded", "failed", "cancelled"}

AllowedJobTransitions ==
    [s \in JobStatus |->
        CASE s = "pending"    -> {"validating", "failed", "cancelled"}
          [] s = "validating" -> {"running", "failed", "cancelled"}
          [] s = "running"    -> {"succeeded", "failed", "cancelled"}
          [] s = "failed"     -> {"retrying"}
          [] s = "retrying"   -> {"running", "failed", "cancelled"}
          [] OTHER            -> {}]

EnsureJobTransition(current, target) ==
    current = target \/ target \in AllowedJobTransitions[current]

\* _sync_manifest_terminal: a manifest already terminal keeps its status, any
\* other is moved to target if the transition is allowed.
SyncTerminal(current, target) ==
    IF current \notin TerminalJobStatus /\ EnsureJobTransition(current, target)
    THEN target
    ELSE current
==============================================================================
