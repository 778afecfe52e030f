------------------------------- MODULE Trial --------------------------------
(***************************************************************************)
(* One trial of a search, around the run itself: the trial runner          *)
(* (main/trial_runner.cpp), what Search::configure asks before the first   *)
(* trial (explore/search.cpp), the objective a trial is scored by          *)
(* (explore/objective.cpp), and the interval its replicates give           *)
(* (explore/estimate.cpp).                                                 *)
(*                                                                         *)
(* The settle phase reads its metric every interval until the slope over   *)
(* the last window is small or the phase has used its time.  Time is in    *)
(* ticks of which Millisecond make one millisecond; a wait may end late,   *)
(* and a signal may end it early.  The run is what the controller answers. *)
(***************************************************************************)
EXTENDS Integers, Sequences, FiniteSets, SequencesExt, FiniteSetsExt

CONSTANTS Setups,       \* families of the machine, the search and the candidate
          Known,        \* the registry's workloads
          Allowed,      \* the CPUs the process may use
          MostThreads, Longest, Millisecond,
          MarginRounds, \* kMarginRounds
          Late,         \* by how much a wait may end late
          Interrupts,   \* waits ended early by a signal that asks nothing
          Levels        \* what a gauge reads

VARIABLES setup,
          trial,     \* where the trial is, and what it answered
          clock,     \* now, and when the settle phase began
          readings   \* the rounds of the settle phase: when, and what

vars == <<setup, trial, clock, readings>>

Missing == -1                \* a round that could not read the metric
NotYet == [settled |-> FALSE, ns |-> 0]

TrialInit ==
  /\ \E i \in DOMAIN Setups : setup \in Setups[i]
  /\ trial = [at |-> "create", fault |-> "none", config |-> <<>>, settle |-> NotYet,
              interrupts |-> 0, started |-> 0, run |-> "none", score |-> "none"]
  /\ clock = [now |-> 0, began |-> 0] /\ readings = <<>>

Refuse(fault) == trial' = [trial EXCEPT !.at = "over", !.fault = fault]
Go(at) == trial' = [trial EXCEPT !.at = at]

-----------------------------------------------------------------------------
(* The capability report: metrics in the order of their sources.           *)
Report == setup.report
HasTemperature == \E i \in DOMAIN Report : Report[i].readable /\ Report[i].celsius /\ Report[i].kind = "gauge"

(* create: the probe, and a ceiling nothing can read.                      *)
CreateRunner ==
  /\ trial.at = "create"
  /\ \/ Refuse("run")
     \/ IF setup.ceiling /\ ~HasTemperature THEN Refuse("run") ELSE Go("configure")
  /\ UNCHANGED <<setup, clock, readings>>

(* bind: the first series of that name and index.                          *)
GaugeStatistics == {"mean", "max", "min", "last", "stddev", "slope"}
CounterStatistics == {"rate", "delta"}
KindOf(statistic) ==
  CASE statistic \in GaugeStatistics -> "gauge" [] statistic \in CounterStatistics -> "counter"
Bindable == {i \in DOMAIN Report : Report[i].name = setup.objective.metric /\ Report[i].index = setup.objective.index}
BoundMetric == Report[Min(Bindable)]
Bind ==
  IF Bindable = {} THEN "unknown metric"
  ELSE IF ~BoundMetric.readable THEN "metric unavailable"
  ELSE IF BoundMetric.kind # KindOf(setup.objective.statistic) THEN "statistic" ELSE "none"

ParameterProblem(search) ==
  \/ search.base < 1 \/ search.factor < 2 \/ search.final < 2 \/ search.every < 1 \/ search.references < 1
IdentityProblem(search) ==
  \/ search.ids = <<>> \/ "" \in Range(search.ids) \cup {search.reference}
  \/ Cardinality(Range(search.ids) \cup {search.reference}) <= Len(search.ids)

(* settle_problem and check_settle_metric: the search asks what the trial  *)
(* will ask, of the first series of that name.                             *)
Named(metric) == {i \in DOMAIN Report : Report[i].name = metric}
AnyReadable(metric) == {i \in DOMAIN Report : Report[i].name = metric /\ Report[i].readable}
Considered(metric) == Named(metric)
SettleProblem(settle) ==
  IF settle.window > settle.max THEN "configuration"
  ELSE IF Considered(settle.metric) = {} THEN "unknown metric"
  ELSE IF ~Report[Min(Considered(settle.metric))].readable THEN "metric unavailable"
  ELSE IF Report[Min(Considered(settle.metric))].kind # "gauge" THEN "configuration" ELSE "none"
CheckSettleMetric(settle) ==
  IF Named(settle.metric) = {} THEN "metric unavailable"
  ELSE LET status == Report[Min(Named(settle.metric))]
       IN  IF ~status.readable \/ status.kind # "gauge" THEN "metric unavailable" ELSE "none"

ConfigureFault ==
  IF Bind # "none" THEN Bind
  ELSE IF ParameterProblem(setup.search) \/ IdentityProblem(setup.search) THEN "configuration"
  ELSE IF setup.candidate.duty # setup.search.duty THEN "duty cycle"
  ELSE IF setup.candidate.settle # <<>> THEN SettleProblem(setup.candidate.settle[1]) ELSE "none"
Configure ==
  /\ trial.at = "configure"
  /\ IF ConfigureFault # "none" THEN Refuse(ConfigureFault) ELSE Go("check")
  /\ UNCHANGED <<setup, clock, readings>>

-----------------------------------------------------------------------------
(* run: what the candidate asks for can be run.                            *)
IsFormed(settle) ==
  /\ settle.window \in 1..Longest /\ settle.max \in 1..Longest
  /\ settle.slope >= 0 /\ settle.window <= settle.max
Runnable(c) ==
  /\ c.workloads # <<>> /\ Range(c.workloads) \subseteq Known
  /\ c.threads \in 1..MostThreads /\ c.threads >= Len(c.workloads)
  /\ c.duration \in 1..Longest /\ c.cpus \subseteq Allowed
  /\ \A i \in DOMAIN c.settle : IsFormed(c.settle[i])

(* The controller's configuration: the workloads dealt out in turn, whole  *)
(* milliseconds, the CPUs each once and in order.                          *)
DealtAt(c, slot) == ((slot - 1) % Len(c.workloads)) + 1
WholeMilliseconds(ns) == (ns \div Millisecond) + (IF ns % Millisecond # 0 THEN 1 ELSE 0)
ConfigOf(c) ==
  [workers |-> [slot \in 1..c.threads |-> c.workloads[DealtAt(c, slot)]],
   duration |-> WholeMilliseconds(c.duration) * Millisecond,
   cpus |-> IF c.cpus = {} THEN Allowed ELSE c.cpus]

(* How often the settle phase reads, and how many rounds are kept for it.  *)
Clamp(x, low, high) == Max({low, Min({x, high})})
SettleInterval(settle) == Clamp(settle.window \div 4, Millisecond, Max({Millisecond, setup.interval}))
TimelineRounds(length, step) == (Max({length, 0}) \div Max({step, 1})) + MarginRounds
SettleRounds(settle) == TimelineRounds(settle.max, SettleInterval(settle))

StartTrial ==
  LET c == setup.candidate IN
  /\ trial.at = "check"
  /\ IF ~Runnable(c) THEN Refuse("candidate")
     ELSE IF c.settle # <<>> /\ CheckSettleMetric(c.settle[1]) # "none"
          THEN Refuse(CheckSettleMetric(c.settle[1]))
     ELSE \E rig \in BOOLEAN :
            trial' = [trial EXCEPT !.started = 1, !.config = <<ConfigOf(c)>>,
                                   !.fault = IF rig THEN "none" ELSE "run",
                                   !.at = IF ~rig THEN "over" ELSE IF c.settle # <<>> THEN "settle" ELSE "run"]
  /\ clock' = [clock EXCEPT !.began = clock.now]
  /\ UNCHANGED <<setup, readings>>

-----------------------------------------------------------------------------
Settling == setup.candidate.settle[1]
Elapsed == clock.now - clock.began

(* summarize_gauge: the least-squares slope of the readings in a window.   *)
(* <<>> without two of them; otherwise its numerator and its denominator.  *)
InWindow(from) == {i \in DOMAIN readings : readings[i].at >= from /\ readings[i].value # Missing}
SumOver(S, Of(_)) == MapThenSumSet(Of, S)
Slope(S) ==
  LET n == Cardinality(S)
      t(i) == readings[i].at - readings[Min(S)].at
      v(i) == readings[i].value
  IN  IF n < 2 THEN <<>>
      ELSE <<n * SumOver(S, LAMBDA i : t(i) * v(i)) - SumOver(S, t) * SumOver(S, v),
             n * SumOver(S, LAMBDA i : t(i) * t(i)) - SumOver(S, t) * SumOver(S, t)>>
Magnitude(x) == IF x < 0 THEN -x ELSE x
IsFlat(slope) == slope # <<>> /\ Magnitude(slope[1]) <= Settling.slope * slope[2]

(* A round of the phase.  The clock, the look at the signals or the round  *)
(* may fail; the timeline may be full.                                     *)
AtOnce == TRUE
HasWindow == Elapsed >= Settling.window
SettleRound ==
  /\ trial.at = "settle"
  /\ \/ Refuse("run") /\ UNCHANGED readings
     \/ IF Len(readings) >= SettleRounds(Settling) THEN Refuse("timeline full") /\ UNCHANGED readings
        ELSE \E value \in Levels \cup {Missing} :
               readings' = Append(readings, [at |-> clock.now, value |-> value]) /\ Go("judge")
  /\ UNCHANGED <<setup, clock>>
Settled(met, ns) == trial' = [trial EXCEPT !.at = "run", !.settle = [settled |-> met, ns |-> ns]]
Judge ==
  /\ trial.at = "judge"
  /\ IF HasWindow /\ IsFlat(Slope(InWindow(clock.now - Settling.window)))
     THEN Settled(TRUE, Min({Elapsed, Settling.max}))
     ELSE IF Elapsed >= Settling.max THEN Settled(FALSE, Settling.max) ELSE Go("wait")
  /\ UNCHANGED <<setup, clock, readings>>

(* The wait, in whole milliseconds.  A signal that asks for the end stops  *)
(* the trial at the next look; one that does not is another round early.   *)
RoundedDown(ns) == (ns \div Millisecond) * Millisecond
WaitOf(ns) == ((ns + Millisecond - 1) \div Millisecond) * Millisecond
Wait ==
  /\ trial.at = "wait"
  /\ \/ \E late \in 0..Late :
          /\ clock' = [clock EXCEPT !.now = @ + late + WaitOf(Min({SettleInterval(Settling), Settling.max - Elapsed}))]
          /\ Go("settle")
     \/ /\ trial.interrupts < Interrupts
        /\ clock' = [clock EXCEPT !.now = @ + 1]
        /\ trial' = [trial EXCEPT !.at = "settle", !.interrupts = @ + 1]
     \/ Refuse("run") /\ UNCHANGED clock
  /\ UNCHANGED <<setup, readings>>

-----------------------------------------------------------------------------
(* The controller's run, and what is made of its answer, in this order.    *)
(* The rig with the settle phase's readings is dropped; time counts from   *)
(* the next phase.                                                         *)
CutShort == {"error", "child", "stop signal", "ceiling", "blind", "no result", "no window"}
Scorable == {"clean", "corrected errors"}
Verdicts == Scorable \cup {"findings", "incomplete"}
Run ==
  /\ trial.at = "run"
  /\ \/ \E answer \in CutShort :
          trial' = [trial EXCEPT !.at = "over", !.run = answer, !.fault = "run"]
     \/ \E verdict \in Verdicts :
          trial' = [trial EXCEPT !.run = verdict, !.at = IF verdict \in Scorable THEN "score" ELSE "over"]
  /\ clock' = [now |-> 0, began |-> 0] /\ readings' = <<>>
  /\ UNCHANGED setup

(* score: the one series bound, of however many readings the window held.  *)
SameSeries(m, n) == m.name = n.name /\ m.scope = n.scope /\ m.index = n.index
Series == {i \in DOMAIN Report : Report[i].readable /\ SameSeries(Report[i], BoundMetric)}
NeedsTwo == {"stddev", "slope", "rate"}
ScoreOf(count) ==
  IF Series = {} THEN "no reading"
  ELSE IF count = 0 THEN "no reading"
  ELSE IF Report[Min(Series)].kind # KindOf(setup.objective.statistic) THEN "statistic"
  ELSE IF setup.objective.statistic \in NeedsTwo /\ count < 2 THEN "no reading" ELSE "value"
Score ==
  /\ trial.at = "score"
  /\ \E count \in 0..2 : trial' = [trial EXCEPT !.at = "over", !.score = ScoreOf(count)]
  /\ UNCHANGED <<setup, clock, readings>>

TrialDone == trial.at = "over" /\ UNCHANGED vars
TrialNext == CreateRunner \/ Configure \/ StartTrial \/ SettleRound \/ Judge \/ Wait \/ Run \/ Score \/ TrialDone

-----------------------------------------------------------------------------
(* estimate: the interval of the mean of some replicates.  Variances are   *)
(* in units of 1 / n^2 (n - 1), so that they are whole numbers.            *)
TTable == <<12706, 4303, 3182, 2776, 2571, 2447, 2365, 2306, 2262, 2228, 2201, 2179, 2160, 2145, 2131,
            2120, 2110, 2101, 2093, 2086, 2080, 2074, 2069, 2064, 2060, 2056, 2052, 2048, 2045, 2042>>
TCritical(degrees) ==
  IF degrees <= 30 THEN TTable[Max({degrees, 1})]
  ELSE IF degrees >= 120 THEN 1980 ELSE IF degrees >= 60 THEN 2000 ELSE IF degrees >= 40 THEN 2021
  ELSE TTable[30]
Moments(samples) ==
  LET n == Len(samples) IN
  n * SumOver(DOMAIN samples, LAMBDA i : samples[i] * samples[i])
    - SumOver(DOMAIN samples, LAMBDA i : samples[i]) * SumOver(DOMAIN samples, LAMBDA i : samples[i])
ScaledBy(variance, n) == variance * n * n * (n - 1)
Uncapped(sample, n, added, degrees) ==
  IF added = 0 THEN n - 1
  ELSE Max({1, ((sample + added) * (sample + added) * (n - 1) * degrees)
                 \div (sample * sample * degrees + added * added * (n - 1))})
CombinedDegrees(sample, n, added, degrees) ==
  IF added = 0 THEN n - 1
  ELSE Max({1, Min({n - 1, ((sample + added) * (sample + added) * (n - 1) * degrees)
                             \div (sample * sample * degrees + added * added * (n - 1))})})
DegreesOf(samples, correction) ==
  CombinedDegrees(Moments(samples), Len(samples), ScaledBy(correction.variance, Len(samples)), correction.degrees)

-----------------------------------------------------------------------------
(* The variables keep their types.                                         *)
TypeOK ==
  /\ trial.at \in {"create", "configure", "check", "settle", "judge", "wait", "run", "score", "over"}
  /\ trial.fault \in {"none", "run", "candidate", "metric unavailable", "unknown metric", "statistic",
                      "configuration", "duty cycle", "timeline full"}
  /\ trial.interrupts \in 0..Interrupts /\ trial.started \in 0..1
  /\ trial.run \in {"none"} \cup CutShort \cup Verdicts
  /\ trial.score \in {"none", "value", "no reading", "statistic"}
  /\ clock.now >= clock.began
  /\ \A i \in DOMAIN readings : readings[i].value \in Levels \cup {Missing}

(* search.cpp, of the settle phase: "refused before it starts -- the trial *)
(* would refuse it too, hours in"; objective.hpp: a bound objective fits   *)
(* its metric.  What configure() accepts, no trial refuses for its metric  *)
(* and no score for its statistic.                                         *)
ConfiguredIsMeasurable == trial.fault = "metric unavailable" => ConfigureFault # "none"
ScoreFitsObjective == trial.score # "statistic"

(* trial_runner.hpp, a controlled experiment: what runs is every workload  *)
(* of the candidate, for its duration and less than a millisecond more, on *)
(* CPUs the process may use; and only a trial that ran to its end counts.  *)
WhatRunsWasAsked ==
  \A i \in DOMAIN trial.config :
    /\ Range(trial.config[i].workers) = Range(setup.candidate.workloads)
    /\ Len(trial.config[i].workers) = setup.candidate.threads
    /\ trial.config[i].duration - setup.candidate.duration \in 0..(Millisecond - 1)
    /\ trial.config[i].cpus # {} /\ trial.config[i].cpus \subseteq Allowed
ScoreIsOfAWholeTrial ==
  trial.score # "none" => trial.fault = "none" /\ trial.run \in Scorable /\ trial.started = 1

(* trial.hpp: a trial starts settled when the metric was flat over a whole *)
(* window of the phase, by two readings at least; the phase never takes    *)
(* longer than its maximum but for the last wait, and its rounds fit the   *)
(* timeline however late or early the waits end.                           *)
SettledIsMeasured ==
  trial.at = "run" /\ trial.settle.settled =>
    \E from \in clock.began..clock.now :
      /\ clock.now - from = Settling.window
      /\ Cardinality(InWindow(from)) >= 2 /\ IsFlat(Slope(InWindow(from)))
SettleIsBounded ==
  /\ trial.fault # "timeline full"
  /\ trial.at \in {"settle", "judge", "wait"} =>
       Elapsed <= Settling.max + Late + Millisecond - 1
  /\ \A i \in DOMAIN setup.candidate.settle : trial.settle.ns <= setup.candidate.settle[i].max

(* estimate.hpp: "the interval errs wide".  Between table entries the      *)
(* larger value is used; and the noise of the reference, added to the      *)
(* spread of the replicates, never gives a smaller t than theirs, nor more *)
(* degrees than theirs or fewer than the lesser of the two.                *)
IntervalErrsWide ==
  LET samples == setup.samples
      degrees == DegreesOf(samples, setup.correction)
  IN  trial.at = "create" /\ Len(samples) >= 2 =>
        /\ degrees \in Min({Len(samples) - 1, setup.correction.degrees})..(Len(samples) - 1)
        /\ TCritical(degrees) >= TCritical(Len(samples) - 1)
        /\ \A d \in 0..125 : TCritical(d) >= TCritical(d + 1) /\ TCritical(d) > 1960

TrialIsTrue ==
  /\ ConfiguredIsMeasurable /\ ScoreFitsObjective /\ WhatRunsWasAsked /\ ScoreIsOfAWholeTrial
  /\ SettledIsMeasured /\ SettleIsBounded /\ IntervalErrsWide
=============================================================================
