------------------------------ MODULE Sampling ------------------------------
(***************************************************************************)
(* The telemetry of a run and the temperature ceiling that depends on it   *)
(* (orchestration.cpp, temperature.cpp, round_sampler.cpp,                 *)
(* bounded_timeline.cpp): at every tick the controller may take a round of *)
(* readings into a timeline of bounded capacity, looks at the temperatures *)
(* of the latest round, and marks the phases of the run.  The deadline,    *)
(* the ceiling, a user's signal and the steps of a schedule each have a    *)
(* place in the tick, and all of them share the tick's one reading of the  *)
(* clock.                                                                  *)
(***************************************************************************)
EXTENDS Integers, FiniteSets

CONSTANTS Sensors,       \* 1 .. n: the temperature series, in the order of a round
          Capacity,      \* of the timeline, in points
          Interval,      \* sample_interval_ns
          BlindAfter,    \* temperature_blind_after_ns
          Duration,      \* duration_ns_
          Steps,         \* the times of the schedule's steps, in order
          MaxLag,        \* bound: the time between two ticks
          MaxTime,       \* bound: the clock
          MaxSignals     \* bound: signals to the controller

NSensors == Cardinality(Sensors)

ASSUME SamplingAssumption ==
  /\ {Capacity, Interval, BlindAfter, Duration, MaxLag} \subseteq Nat \ {0}
  /\ Sensors = 1 .. NSensors /\ Capacity >= NSensors /\ NSensors > 0
  /\ {MaxTime, MaxSignals} \subseteq Nat
  /\ DOMAIN Steps \subseteq Nat /\ IsFiniteSet(DOMAIN Steps)

VARIABLES pc,          \* where the tick is
          now,         \* the tick's time, from the start of the run
          point,       \* the last point of each series
          size,        \* points in the timeline
          marks,       \* the last phase's start, and how many steps were marked
          sampling,    \* sampling_live_, last_round_ns
          watch,       \* last_read_ns_, temperature_checked_ns_
          stop,        \* temperature_stop_
          requested,   \* stop_requested_
          nextStep, signals,
          hot,         \* history: a reading at the ceiling went into the timeline
          answered     \* history: when a temperature last did

vars == <<pc, now, point, size, marks, sampling, watch, stop, requested, nextStep, signals, hot,
          answered>>

Readings == {"warm", "hot", "gone"}
None == "none"

(* The baseline, before any worker: a run that starts can read a           *)
(* temperature, and none is at the ceiling.                                *)
Init ==
  /\ pc = "wait" /\ now = 0
  /\ \E r \in [Sensors -> Readings] :
       /\ \A s \in Sensors : r[s] # "hot"
       /\ \E s \in Sensors : r[s] # "gone"
       /\ point = [s \in Sensors |-> [at |-> 0, reading |-> r[s]]]
  /\ size = NSensors
  /\ marks = [last |-> 0, steps |-> 0]
  /\ sampling = [live |-> TRUE, last |-> 0]
  /\ watch = [read |-> 0, checked |-> 0]
  /\ stop = None /\ requested = FALSE
  /\ nextStep = 1 /\ signals = 0
  /\ hot = FALSE /\ answered = 0

-----------------------------------------------------------------------------
(* mark_phase: a phase must start later than the one before it.            *)
Marked(steps) == IF now > marks.last THEN [last |-> now, steps |-> marks.steps + steps] ELSE marks

(* take_round: not when the timeline would refuse it as not later, and not *)
(* before it is due unless it is forced.                                   *)
NotLater == now <= sampling.last
IsDue(force) == sampling.live /\ ~NotLater /\ (force \/ now - sampling.last >= Interval)

(* Points go in one by one; the first that the timeline refuses, out of    *)
(* order or over its capacity, ends the round and the sampling.            *)
Unbounded(s) == now > point[s].at
Accepts(s) == now > point[s].at /\ size + s <= Capacity
Appended == {s \in Sensors : \A t \in 1 .. s : Accepts(t)}

Round(readings) ==
  /\ point' = [s \in Sensors |-> IF s \in Appended THEN [at |-> now, reading |-> readings[s]]
                                 ELSE point[s]]
  /\ size' = size + Cardinality(Appended)
  /\ sampling' = IF Appended = Sensors THEN [sampling EXCEPT !.last = now]
                 ELSE [sampling EXCEPT !.live = FALSE]
  /\ hot' = (hot \/ \E s \in Appended : readings[s] = "hot")
  /\ answered' = IF \E s \in Appended : readings[s] # "gone" THEN now ELSE answered

NoRound == UNCHANGED <<point, size, sampling, hot, answered>>
take_round(force, readings) == IF IsDue(force) THEN Round(readings) ELSE NoRound

-----------------------------------------------------------------------------
(* The tick                                                                *)

Begin(lag) ==
  /\ pc = "wait" /\ now + lag <= MaxTime
  /\ now' = now + lag /\ pc' = "deadline"
  /\ UNCHANGED <<point, size, marks, sampling, watch, stop, requested, nextStep, signals, hot, answered>>

(* The deadline: the round that closes the phase, the mark that opens the  *)
(* next, the request.                                                      *)
Deadline(readings) ==
  /\ pc = "deadline" /\ pc' = "round"
  /\ IF ~requested /\ now >= Duration
     THEN /\ take_round(TRUE, readings)
          /\ marks' = Marked(0) /\ requested' = TRUE
     ELSE NoRound /\ UNCHANGED <<marks, requested>>
  /\ UNCHANGED <<now, watch, stop, nextStep, signals>>

TakeRound(readings) ==
  /\ pc = "round" /\ pc' = "enforce"
  /\ take_round(FALSE, readings)
  /\ UNCHANGED <<now, marks, watch, stop, requested, nextStep, signals>>

(* TemperatureWatch::observe, over the points of the latest round.         *)
Seen(s) == IF point[s].at = sampling.last THEN point[s].reading ELSE "gone"
AnyRead == \E s \in Sensors : Seen(s) # "gone"
AnyHot == \E s \in Sensors : Seen(s) = "hot"
AlwaysRead == sampling.last
LastRead == IF AnyRead THEN sampling.last ELSE watch.read
Blind == ~AnyRead /\ sampling.last - LastRead > BlindAfter

StopFor(cause) ==
  /\ stop' = cause /\ requested' = TRUE
  /\ marks' = IF requested THEN marks ELSE Marked(0)

Looked == sampling.last = watch.checked

Enforce ==
  /\ pc = "enforce" /\ pc' = "schedule"
  /\ CASE stop # None -> UNCHANGED <<watch, stop, requested, marks>>
       [] stop = None /\ ~sampling.live -> StopFor("unwatched") /\ UNCHANGED watch
       [] stop = None /\ sampling.live /\ Looked -> UNCHANGED <<watch, stop, requested, marks>>
       [] OTHER -> /\ watch' = [read |-> LastRead, checked |-> sampling.last]
                   /\ IF AnyHot THEN StopFor("reached")
                      ELSE IF Blind THEN StopFor("unwatched")
                      ELSE UNCHANGED <<stop, requested, marks>>
  /\ UNCHANGED <<now, point, size, sampling, nextStep, signals, hot, answered>>

(* run_schedule: every step that is due, one after the other.              *)
StepIsDue == ~requested /\ nextStep \in DOMAIN Steps /\ Steps[nextStep] <= now

Step ==
  /\ pc = "schedule" /\ StepIsDue
  /\ marks' = Marked(1) /\ nextStep' = nextStep + 1
  /\ UNCHANGED <<pc, now, point, size, sampling, watch, stop, requested, signals, hot, answered>>

Scheduled ==
  /\ pc = "schedule" /\ ~StepIsDue
  /\ pc' = "poll"
  /\ UNCHANGED <<now, point, size, marks, sampling, watch, stop, requested, nextStep, signals, hot, answered>>

(* A user's signal ends the wait: as the deadline does it, at the tick's   *)
(* time.                                                                   *)
Signal(readings) ==
  /\ pc = "poll" /\ signals < MaxSignals
  /\ signals' = signals + 1 /\ pc' = "wait"
  /\ IF signals = 0 /\ ~requested
     THEN /\ take_round(TRUE, readings)
          /\ marks' = Marked(0) /\ requested' = TRUE
     ELSE NoRound /\ UNCHANGED <<marks, requested>>
  /\ UNCHANGED <<now, watch, stop, nextStep>>

Poll ==
  /\ pc = "poll" /\ pc' = "wait"
  /\ UNCHANGED <<now, point, size, marks, sampling, watch, stop, requested, nextStep, signals, hot, answered>>

(* The workers are gone, asked to stop or not: the last round, at the      *)
(* tick's time.                                                            *)
Finish(readings) ==
  /\ pc = "wait" /\ now > 0
  /\ pc' = "over" /\ take_round(TRUE, readings)
  /\ UNCHANGED <<now, marks, watch, stop, requested, nextStep, signals>>

Over == (pc = "over" \/ (pc = "wait" /\ now = MaxTime)) /\ UNCHANGED vars

Next ==
  \/ \E lag \in 1 .. MaxLag : Begin(lag)
  \/ \E readings \in [Sensors -> Readings] :
       Deadline(readings) \/ TakeRound(readings) \/ Signal(readings) \/ Finish(readings)
  \/ Enforce \/ Step \/ Scheduled \/ Poll \/ Over

Spec == Init /\ [][Next]_vars

-----------------------------------------------------------------------------
(* The variables keep their types, and the timeline its capacity.          *)
TypeOK ==
  /\ pc \in {"wait", "deadline", "round", "enforce", "schedule", "poll", "over"}
  /\ now \in 0 .. MaxTime /\ size \in 0 .. Capacity
  /\ point \in [Sensors -> [at : 0 .. MaxTime, reading : Readings]]
  /\ marks \in [last : 0 .. MaxTime, steps : Nat]
  /\ sampling \in [live : BOOLEAN, last : 0 .. MaxTime]
  /\ watch \in [read : 0 .. MaxTime, checked : 0 .. MaxTime]
  /\ stop \in {None, "reached", "unwatched"}
  /\ {requested, hot} \subseteq BOOLEAN
  /\ nextStep \in Nat /\ signals \in 0 .. MaxSignals /\ answered \in 0 .. MaxTime

(* Between two ticks of a run that goes on, no reading at the ceiling is   *)
(* in the timeline: the tick that put it there, in whatever round and      *)
(* however much of the round the timeline took, asked the workers to stop. *)
HotEndsRun == pc = "wait" /\ hot => requested

(* Nor does a run go on when no temperature has answered for so long that  *)
(* a round was due after the time it may be blind.                         *)
BlindEndsRun == pc = "wait" /\ now - answered >= BlindAfter + Interval => requested

(* A run the ceiling ended deserved it: a reading was at the ceiling, or   *)
(* nothing was read for too long, or the timeline takes no more readings.  *)
StopIsDeserved ==
  /\ stop = "reached" => hot
  /\ stop = "unwatched" => ~sampling.live \/ watch.checked - watch.read > BlindAfter

(* The ceiling is held, and nothing but the ceiling ends a run for it.     *)
CeilingHolds == HotEndsRun /\ BlindEndsRun /\ StopIsDeserved
=============================================================================
