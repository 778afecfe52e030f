-------------------------------- MODULE Fate --------------------------------
(***************************************************************************)
(* The controller's pure decisions about one worker: the stop ladder       *)
(* (controller/safety.cpp) and the fate read from the evidence left once   *)
(* it is reaped (controller/supervision.cpp).  A status is how the process *)
(* ended: "exit0", another exit code by its class, or the signal.          *)
(***************************************************************************)
EXTENDS Naturals, FiniteSets

Signals == {"SIGTERM", "SIGKILL"}
FaultSignals == {"SIGSEGV"}         \* and the five others is_fault_signal names
ExitErrors == {"exit119", "exit120", "exit124"}
Statuses == {"exit0"} \cup ExitErrors \cup Signals \cup FaultSignals

StopSteps == {"none", "requested", "terminated", "killed"}

Fates == {"completed", "worker error", "startup failed", "controller lost",
          "fault", "killed", "oom killed", "stopped by controller",
          "timed out", "channel corrupt", "truncated evidence"}

OomFindings == {"not consulted", "attributed", "ruled out", "inconclusive"}

(* What Evidence holds; `attempted` is "none" while no signal was sent.    *)
Evidence == [status : Statuses \cup {"none"},
             attempted : Signals \cup {"none"},
             stale : BOOLEAN, finished : BOOLEAN,
             corrupt : BOOLEAN, truncated : BOOLEAN,
             oom : OomFindings]

-----------------------------------------------------------------------------
(* The signal due for a worker that has been `waited` at `step`, if any.   *)
NoKillDue(step, waited, stop, kill) ==
  IF step = "requested" /\ waited >= stop THEN "SIGTERM" ELSE "none"
NoGrace(step, waited, stop, kill) ==
  IF step = "requested" THEN "SIGTERM"
  ELSE IF step = "terminated" THEN "SIGKILL" ELSE "none"
escalation_due(step, waited, stop, kill) ==
  IF step = "requested" /\ waited >= stop THEN "SIGTERM"
  ELSE IF step = "terminated" /\ waited >= kill THEN "SIGKILL"
  ELSE "none"

SignalAsStep(signal) == signal
step_after(signal) == IF signal = "SIGKILL" THEN "killed" ELSE "terminated"

-----------------------------------------------------------------------------
(* The exit codes: 0, the launcher's and a refused argument (120), the     *)
(* worker's own loss of its controller (124), every other (119).           *)
classify_exit(e) ==
  CASE e.status = "exit0" -> IF e.finished /\ ~e.truncated
                             THEN "completed" ELSE "truncated evidence"
    [] e.status = "exit120" -> "startup failed"
    [] e.status = "exit124" -> "controller lost"
    [] OTHER -> "worker error"

classify_signal(e) ==
  IF e.attempted = e.status
  THEN IF e.status = "SIGKILL" /\ e.oom = "attributed" THEN "oom killed"
       ELSE IF e.status = "SIGKILL" /\ e.oom = "inconclusive" THEN "killed"
       ELSE IF e.stale THEN "timed out" ELSE "stopped by controller"
  ELSE IF e.status \in FaultSignals THEN "fault"
  ELSE IF e.status = "SIGKILL" /\ e.oom = "attributed" THEN "oom killed"
  ELSE "killed"

classify(e) ==
  IF e.corrupt THEN "channel corrupt"
  ELSE IF e.status \in Signals \cup FaultSignals THEN classify_signal(e)
  ELSE classify_exit(e)

(* Only a SIGKILL on a channel that did not go corrupt can be the OOM      *)
(* killer's, one the controller attempted included.                        *)
NotAttempted(e) == ~e.corrupt /\ e.status = "SIGKILL" /\ e.attempted # "SIGKILL"
oom_candidate(e) == ~e.corrupt /\ e.status = "SIGKILL"

(* The verdict on all candidates together: `counted` kills in the window,  *)
(* or a count that could not be read (or went back).                       *)
judge_oom_kills(readable, counted, candidates) ==
  IF ~readable THEN "inconclusive"
  ELSE IF counted = 0 THEN "ruled out"
  ELSE IF counted < candidates THEN "inconclusive"
  ELSE "attributed"
=============================================================================
