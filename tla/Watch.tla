------------------------------- MODULE Watch -------------------------------
(***************************************************************************)
(* The controller's judgement of one worker against what a healthy worker  *)
(* does, in time.  The worker is the ticker of worker/verified_run.cpp: it *)
(* beats, reads its control pipe, obeys (pause, resume, a duty cycle, a    *)
(* replaced runner) and answers, or else computes one slice.  The          *)
(* controller (controller/orchestration.cpp) sends the commands of its     *)
(* schedule, takes the answers, and judges the slot it reads: a beat too   *)
(* old, or no progress for too long, and the worker is signalled.          *)
(*                                                                         *)
(* Every clock reading is an age in whole units; an age that has passed    *)
(* the largest allowance stays there.  A unit passes only while somebody   *)
(* is in something that takes time, within its bound.                      *)
(***************************************************************************)
EXTENDS Naturals, Sequences, SequencesExt

CONSTANTS Interval,        \* interval_ns: the poll's timeout, on both sides
          Slice,           \* bound: the longest slice
          Preempt,         \* bound: how long the scheduler may hold a publish
          MaxHeld,         \* bound: publishes it holds
          Start,           \* bound: the first runner is made
          Replacement,     \* bound: a runner is replaced
          StaleAfter,      \* stale_after_ns
          Allowance,       \* replacement_allowance_ns
          Dwell,           \* bound: the least time between two steps
          MaxUnanswered,   \* kMaxUnanswered
          Steps,           \* what one step of the schedule tells the worker
          MayHang,         \* bound: whether the worker may hang
          Period, Half     \* the duty cycle's period, and its busy part

Commands == {"pause", "resume", "half", "full", "switch", "rebind"}
Replaces(command) == command \in {"switch", "rebind"}

VARIABLES worker,     \* the process: where it is, its command state
          slot,       \* its heartbeat slot
          control,    \* the control pipe: commands not yet read
          acks,       \* the record pipe: answers not yet read
          tracked,    \* what the controller holds about it
          ctl         \* where the controller is

vars == <<worker, slot, control, acks, tracked, ctl>>

Most == StaleAfter + Allowance + Interval + Period + 1
Older(age) == IF age < Most THEN age + 1 ELSE age

Init ==
  /\ worker = [at |-> "start", since |-> 0, inbox |-> <<>>, paused |-> FALSE,
               busy |-> Period, into |-> 0, computed |-> FALSE, wait |-> 0, held |-> 0, hung |-> FALSE]
  /\ slot = [beaten |-> FALSE, readable |-> TRUE, age |-> 0, ahead |-> FALSE]
  /\ control = <<>> /\ acks = <<>>
  /\ tracked = [read |-> 0, progress |-> 0, paused |-> FALSE,
                idle |-> 0, unanswered |-> <<>>, signalled |-> FALSE]
  /\ ctl = [at |-> "tick", waited |-> 0, dwelt |-> 0]

-----------------------------------------------------------------------------
(* The worker                                                              *)

Goes(at) == [worker EXCEPT !.at = at, !.since = 0]

(* The position in the duty cycle when the clock was read, `ago`.          *)
Position(ago) == (worker.into + Period - (ago % Period)) % Period

(* Nothing to run: paused, or past the busy part of the duty cycle.        *)
Idle(ago) == worker.paused \/ Position(ago) >= worker.busy

(* wait_ms: an interval, or what is left of the idle part.                 *)
Wait(ago) == IF ~worker.paused /\ Period - Position(ago) < Interval
             THEN Period - Position(ago) ELSE Interval

(* The beat is in the slot: its timestamp is a reading `ago` old, its      *)
(* progress what was computed before.                                      *)
Beaten(ago) ==
  /\ slot' = [beaten |-> TRUE, readable |-> TRUE, age |-> ago,
              ahead |-> slot.ahead \/ worker.computed]
  /\ worker' = [Goes(IF Idle(ago) THEN "idle" ELSE "look") EXCEPT
                  !.computed = FALSE, !.wait = Wait(ago)]
  /\ UNCHANGED <<control, acks, tracked, ctl>>

Beat == worker.at \in {"start", "beat"} /\ Beaten(0)

(* The scheduler takes it off the core between the halves of its write.    *)
Hold ==
  /\ worker.at \in {"start", "beat"} /\ worker.held < MaxHeld
  /\ worker' = [Goes("publish") EXCEPT !.held = @ + 1]
  /\ slot' = [slot EXCEPT !.readable = FALSE]
  /\ UNCHANGED <<control, acks, tracked, ctl>>

Release == worker.at = "publish" /\ Beaten(worker.since)

(* The messages on the pipe, all of them; or none: a worker with nothing   *)
(* to run has waited for one for an interval, or to the end of the idle    *)
(* part; one with work to do only looked.                                  *)
Look ==
  \/ /\ worker.at \in {"look", "idle"} /\ control # <<>>
     /\ worker' = [Goes("handle") EXCEPT !.inbox = control]
     /\ control' = <<>>
     /\ UNCHANGED <<slot, acks, tracked, ctl>>
  \/ /\ worker.at = "idle" /\ control = <<>>
     /\ worker.since >= worker.wait
     /\ worker' = Goes("beat")
     /\ UNCHANGED <<slot, control, acks, tracked, ctl>>
  \/ /\ worker.at = "look" /\ control = <<>>
     /\ worker' = Goes("slice")
     /\ UNCHANGED <<slot, control, acks, tracked, ctl>>

(* The state a command leaves: a duty cycle begins when this tick read the *)
(* clock, which is the slot's timestamp; a runner is replaced in "replace".*)
Obey(w, command) ==
  CASE command = "pause" -> [w EXCEPT !.paused = TRUE]
    [] command = "resume" -> [w EXCEPT !.paused = FALSE]
    [] command = "half" -> [w EXCEPT !.busy = Half, !.into = slot.age % Period]
    [] command = "full" -> [w EXCEPT !.busy = Period, !.into = slot.age % Period]
    [] OTHER -> w

Onward(w) == IF w.inbox = <<>> THEN [w EXCEPT !.at = "beat", !.since = 0]
            ELSE [w EXCEPT !.at = "handle", !.since = 0]

(* A command is answered whether it was done or refused.                   *)
RefusedInSilence(status) == IF status = "done" THEN Append(acks, status) ELSE acks
Answered(status) == Append(acks, status)

Handle ==
  /\ worker.at = "handle"
  /\ IF Replaces(Head(worker.inbox))
     THEN worker' = Goes("replace") /\ UNCHANGED acks
     ELSE /\ worker' = Onward([Obey(worker, Head(worker.inbox)) EXCEPT !.inbox = Tail(@)])
          /\ acks' = Answered("done")
  /\ UNCHANGED <<slot, control, tracked, ctl>>

(* The runner is replaced, or the old one made again: then the answer.     *)
Replaced(status) ==
  /\ worker.at = "replace"
  /\ worker' = Onward([worker EXCEPT !.inbox = Tail(@)])
  /\ acks' = Answered(status)
  /\ UNCHANGED <<slot, control, tracked, ctl>>

Computed ==
  /\ worker.at = "slice"
  /\ worker' = [Goes("beat") EXCEPT !.computed = TRUE]
  /\ UNCHANGED <<slot, control, acks, tracked, ctl>>

(* It stops for good, wherever it is.                                      *)
Hang ==
  /\ MayHang /\ ~worker.hung
  /\ worker' = [worker EXCEPT !.hung = TRUE, !.since = 0]
  /\ UNCHANGED <<slot, control, acks, tracked, ctl>>

Worker ==
  /\ ~worker.hung
  /\ \/ Beat \/ Hold \/ Release \/ Look \/ Handle \/ Computed
     \/ \E status \in {"done", "refused"} : Replaced(status)

-----------------------------------------------------------------------------
(* The controller                                                          *)

(* One step of the schedule: its commands are written, up to the most that *)
(* may be unanswered; the rest are dropped.                                *)
Told(step) ==
  LET room == MaxUnanswered - Len(tracked.unanswered) IN
  SubSeq(step, 1, IF Len(step) < room THEN Len(step) ELSE room)
Schedule(step) ==
  /\ ctl.at = "tick" /\ ctl.dwelt >= Dwell
  /\ control' = control \o Told(step)
  /\ tracked' = [tracked EXCEPT !.unanswered =
                   @ \o [i \in DOMAIN Told(step) |-> [command |-> Told(step)[i], age |-> 0]]]
  /\ ctl' = [ctl EXCEPT !.dwelt = 0]
  /\ UNCHANGED <<worker, slot, acks>>

(* replacement_extra_ns                                                    *)
Extra(t) ==
  IF \E i \in DOMAIN t.unanswered :
       Replaces(t.unanswered[i].command) /\ t.unanswered[i].age <= Allowance
  THEN Allowance ELSE 0

(* The progress age starts at the launch, as launched_ns does, and no      *)
(* progress is seen before the first beat.                                 *)
(* What a look at the slot leaves in `tracked`: nothing when it cannot be  *)
(* read; a paused worker's progress counts as made.                        *)
PausedIsJudged(t) == IF slot.ahead THEN [t EXCEPT !.read = 0, !.progress = 0]
                     ELSE [t EXCEPT !.read = 0]
ReadAnyway(t) == [t EXCEPT !.read = 0,
                    !.progress = IF slot.ahead \/ t.paused THEN 0 ELSE @]
Observed(t) ==
  IF ~slot.readable THEN t
  ELSE [t EXCEPT !.read = 0, !.progress = IF slot.ahead \/ t.paused THEN 0 ELSE @]

Stale(t) ==
  LET after == StaleAfter + Extra(t) IN
  CASE ~slot.readable -> t.read > after
    [] slot.readable /\ ~slot.beaten -> t.progress > StaleAfter
    [] slot.readable /\ slot.beaten -> slot.age > after \/ t.progress > after + t.idle

Watch ==
  /\ ctl.at = "tick"
  /\ tracked' = [Observed(tracked) EXCEPT !.signalled = Stale(Observed(tracked))]
  /\ slot' = [slot EXCEPT !.ahead = @ /\ ~slot.readable]
  /\ ctl' = [ctl EXCEPT !.at = "poll", !.waited = 0]
  /\ UNCHANGED <<worker, control, acks>>

(* How long the duty cycle leaves it idle, by the command that set it.     *)
Allowed(command) == IF command = "half" THEN Period - Half ELSE 0

(* take_ack: the oldest unanswered command is done, or refused.            *)
Taken(t, status) ==
  LET asked == Head(t.unanswered).command
      popped == [t EXCEPT !.unanswered = Tail(@)] IN
  CASE status = "refused" -> popped
    [] status = "done" /\ asked = "pause" -> [popped EXCEPT !.paused = TRUE]
    [] status = "done" /\ asked = "resume" -> [popped EXCEPT !.paused = FALSE]
    [] status = "done" /\ asked \in {"half", "full"} ->
         [popped EXCEPT !.idle = Allowed(asked)]
    [] OTHER -> popped

(* poll_and_drain: it returns with what there is to read, or at its        *)
(* timeout; then the next tick.                                            *)
Poll ==
  /\ ctl.at = "poll" /\ (acks # <<>> \/ ctl.waited >= Interval)
  /\ tracked' = FoldLeft(Taken, tracked, acks)
  /\ acks' = <<>>
  /\ ctl' = [ctl EXCEPT !.at = "tick"]
  /\ UNCHANGED <<worker, slot, control>>

Controller == Watch \/ Poll \/ \E step \in Steps : Schedule(step)

-----------------------------------------------------------------------------
(* Time: the most each place of a healthy worker may take.                 *)
Longest(at) ==
  CASE at = "start" -> Start
    [] at = "publish" -> Preempt
    [] at = "idle" -> IF control = <<>> THEN worker.wait ELSE 0
    [] at = "slice" -> Slice
    [] at = "replace" -> Replacement
    [] at \in {"beat", "look", "handle"} -> 0

Advanced(into) == (into + 1) % Period

TimePasses ==
  /\ ctl.at = "poll" /\ ctl.waited < Interval
  /\ worker.hung \/ worker.since < Longest(worker.at)
  /\ worker' = [worker EXCEPT !.since = Older(@),
                              !.into = IF worker.hung THEN @ ELSE Advanced(@)]
  /\ slot' = [slot EXCEPT !.age = IF slot.beaten THEN Older(@) ELSE @]
  /\ tracked' = [tracked EXCEPT
       !.read = Older(@), !.progress = Older(@),
       !.unanswered = [i \in DOMAIN @ |->
          [@[i] EXCEPT !.age = IF @ <= Allowance THEN @ + 1 ELSE @]]]
  /\ ctl' = [ctl EXCEPT !.waited = @ + 1,
                        !.dwelt = IF @ < Dwell THEN @ + 1 ELSE @]
  /\ UNCHANGED <<control, acks>>

Signalled == tracked.signalled /\ UNCHANGED vars

Next ==
  \/ Signalled
  \/ ~tracked.signalled /\ (Worker \/ Hang \/ Controller \/ TimePasses)

Spec == Init /\ [][Next]_vars
-----------------------------------------------------------------------------
(* The variables keep their types.                                         *)
TypeOK ==
  /\ worker \in [at : {"start", "beat", "publish", "look", "idle", "handle",
                      "replace", "slice"},
                 since : 0 .. Most, inbox : Seq(Commands), paused : BOOLEAN,
                 busy : {Half, Period}, into : 0 .. Period - 1,
                 computed : BOOLEAN, wait : 0 .. Interval,
                 held : 0 .. MaxHeld, hung : BOOLEAN]
  /\ slot \in [beaten : BOOLEAN, readable : BOOLEAN, age : 0 .. Most, ahead : BOOLEAN]
  /\ control \in Seq(Commands) /\ acks \in Seq({"done", "refused"})
  /\ tracked \in [read : 0 .. Most, progress : 0 .. Most,
                  paused : BOOLEAN, idle : {0, Period - Half},
                  unanswered : Seq([command : Commands, age : 0 .. Allowance + 1]),
                  signalled : BOOLEAN]
  /\ ctl \in [at : {"tick", "poll"}, waited : 0 .. Interval, dwelt : 0 .. Dwell]

(* A worker that does what it is told within its bounds is never signalled *)
(* for a stale beat or a lack of progress: not while it is paused, in the  *)
(* idle part of its duty cycle, held in the middle of a publish, or between*)
(* a command and its answer.                                               *)
WellIsLeftAlone == tracked.signalled => worker.hung

(* A worker that hangs, even inside a publish or while paused, is found in *)
(* bounded time, and further commands do not put it off.                   *)
HungIsFound ==
  worker.hung /\ ~tracked.signalled =>
    worker.since <= StaleAfter + Allowance + Interval

(* The answers on the pipe, the commands the worker holds and those it has *)
(* not read are together the commands the controller has unanswered, in    *)
(* order: an answer always finds the command it is for.                    *)
AnswersMatch ==
  Len(acks) + Len(worker.inbox) + Len(control) = Len(tracked.unanswered)
=============================================================================
