------------------------------ MODULE Signature ------------------------------
(***************************************************************************)
(* What is made of a counter's readings (statistics/summarizer.cpp,        *)
(* telemetry/sample.hpp, main/run_result.cpp, main/trial_runner.cpp): the  *)
(* advance over the run's window, over the window of each phase, and over  *)
(* the load window of a trial.  The counter is the machine's: it counts    *)
(* events, may wrap at a modulus or, without one, be reset, and may fail   *)
(* to answer.  Beside each reading the model keeps the true count.         *)
(***************************************************************************)
EXTENDS Integers, Sequences, FiniteSets, SequencesExt

CONSTANTS Moduli,       \* of the counter; 0: it has none
          Gaps, Events, \* between one instant and the next
          MaxPoints, MaxMarks, MaxTime

VARIABLES now, modulus, counter, truth,
          points,   \* the series: [at, raw, real]; raw is Gone when it was unavailable
          marks,    \* the timeline's phases, their starts
          wasReset  \* history: the counter was reset

vars == <<now, modulus, counter, truth, points, marks, wasReset>>

Gone == -1

-----------------------------------------------------------------------------
(* counter_advance: of a pair of readings; Gone when it cannot be known.   *)
StepDownIsReset(from, to) == IF to < from THEN Gone ELSE to - from
Advance(from, to) ==
  IF modulus = 0 /\ to < from THEN Gone
  ELSE IF to >= from THEN to - from ELSE modulus - from + to

Total(s) == FoldLeft(LAMBDA a, b : a + b, 0, s)

(* summarize_series over [start, end): the pairs of consecutive readings   *)
(* that are both there and both in the window.                             *)
InWindow(w) == SelectSeq(points, LAMBDA p : w.start <= p.at /\ p.at < w.end)
PairAdvance(s, i) == IF s[i].raw = Gone \/ s[i + 1].raw = Gone THEN Gone
                     ELSE Advance(s[i].raw, s[i + 1].raw)
Pairs(s) == 1 .. Len(s) - 1
Delta(w) == LET s == InWindow(w)
            IN  Total([i \in Pairs(s) |-> IF PairAdvance(s, i) = Gone THEN 0 ELSE PairAdvance(s, i)])
Resets(w) == LET s == InWindow(w)
             IN  {i \in Pairs(s) : s[i].raw # Gone /\ s[i + 1].raw # Gone /\ PairAdvance(s, i) = Gone}
UnavailableSamples(w) == {i \in DOMAIN InWindow(w) : InWindow(w)[i].raw = Gone}

(* run_window, phase_window: a window closes one nanosecond past its last  *)
(* reading.                                                                *)
NoMargin == 0
ClosingMargin == 1
LastRound == points[Len(points)].at
RunWindow == [start |-> points[1].at, end |-> LastRound + ClosingMargin]
PhaseWindow(i) == [start |-> marks[i],
                   end |-> (IF i = Len(marks) THEN LastRound ELSE marks[i + 1]) + ClosingMargin]
CounterByPhase == [i \in DOMAIN marks |-> Delta(PhaseWindow(i))]

(* A trial's load window, of the given length up to the last mark, and its *)
(* delta: taken from the last reading before the window, if there is one.  *)
LoadEnd == marks[Len(marks)] + ClosingMargin
ReadingBefore(start) == SelectSeq(points, LAMBDA p : p.at < start)
Opens(start) == IF ReadingBefore(start) = <<>> THEN start ELSE ReadingBefore(start)[Len(ReadingBefore(start))].at
LoadDelta(duration) == Delta([start |-> Opens(LoadEnd - duration), end |-> LoadEnd])

(* counter_advanced and counter_blind, as derive_verdict takes them        *)
IsBlind == Resets(RunWindow) # {} \/ UnavailableSamples(RunWindow) # {}
Verdict == IF IsBlind THEN "incomplete" ELSE IF Delta(RunWindow) > 0 THEN "errors" ELSE "clean"

-----------------------------------------------------------------------------
Read == [at |-> now, raw |-> counter, real |-> truth]

Init ==
  /\ now = 0 /\ modulus \in Moduli
  /\ counter \in IF modulus = 0 THEN {0, 1} ELSE 0 .. modulus - 1
  /\ truth = 0 /\ points = <<Read>> /\ marks = <<0>> /\ wasReset = FALSE

(* The machine counts on, and may lose its count.                          *)
Counts(gap, events, reset) ==
  /\ now + gap <= MaxTime /\ now' = now + gap
  /\ truth' = truth + events
  /\ reset => modulus = 0
  /\ counter' = IF reset THEN events ELSE IF modulus = 0 THEN counter + events ELSE (counter + events) % modulus
  /\ wasReset' = (wasReset \/ reset)
  /\ UNCHANGED modulus

Point(raw) == Append(points, [at |-> now', raw |-> raw, real |-> truth'])

(* A round of the sampler, on its interval or at a mark that is made with  *)
(* it (the deadline, a signal, the ceiling).                               *)
Round(gap, events, reset, answers, marked) ==
  /\ Counts(gap, events, reset)
  /\ Len(points) < MaxPoints /\ points' = Point(IF answers THEN counter' ELSE Gone)
  /\ IF marked THEN Len(marks) < MaxMarks /\ marks' = Append(marks, now') ELSE UNCHANGED marks

(* A step of a schedule: a mark, and no round if none is due.              *)
StepMark(gap, events) ==
  /\ Counts(gap, events, FALSE)
  /\ Len(marks) < MaxMarks /\ marks' = Append(marks, now') /\ UNCHANGED points

Rounds ==
  \E gap \in Gaps, events \in Events, reset, answers, marked \in BOOLEAN :
    Round(gap, events, reset, answers, marked)
StepMarks == \E gap \in Gaps, events \in Events : StepMark(gap, events)

Over == UNCHANGED vars

Next == Rounds \/ StepMarks \/ Over
Spec == Init /\ [][Next]_vars

-----------------------------------------------------------------------------
(* Readings and marks are in time order, and a reading is below the        *)
(* modulus of a counter that has one.                                      *)
TypeOK ==
  /\ now \in 0 .. MaxTime /\ modulus \in Moduli /\ {counter, truth} \subseteq Nat /\ wasReset \in BOOLEAN
  /\ \A i \in DOMAIN points : modulus > 0 => points[i].raw \in Gone .. modulus - 1
  /\ \A i \in 2 .. Len(points) : points[i - 1].at < points[i].at
  /\ \A i \in 2 .. Len(marks) : marks[i - 1] < marks[i]
  /\ \A i \in DOMAIN points : i > 1 /\ PairAdvance(points, i - 1) # Gone => PairAdvance(points, i - 1) >= 0

(* The sampler's contract: never reset, and round at most once between two  *)
(* readings that answered.                                                 *)
ReadOftenEnough ==
  /\ ~wasReset
  /\ modulus > 0 => \A i \in Pairs(points) : points[i + 1].real - points[i].real < modulus

(* The run's delta never says more than happened, and says all of it when  *)
(* every reading answered: wraps are counted, whatever the modulus.        *)
DeltaIsTrue ==
  ReadOftenEnough => /\ Delta(RunWindow) <= points[Len(points)].real
                     /\ UnavailableSamples(RunWindow) = {} => Delta(RunWindow) = points[Len(points)].real

(* A run that is called clean counted no event from its first round to its *)
(* last, even if the counter failed to answer for a while and came back.   *)
CleanIsClean == Verdict = "clean" /\ ReadOftenEnough => points[Len(points)].real = 0

(* A reset is never an advance: the delta is not negative, and at most     *)
(* what happened, in the window of every phase.                            *)
NeverInvented ==
  modulus = 0 => \A i \in DOMAIN marks : Delta(PhaseWindow(i)) \in 0 .. points[Len(points)].real

(* The load window of a trial that ends at a reading counts what happened  *)
(* from the reading before it opened, when all of them answered.           *)
LoadIsWhole ==
  \A duration \in Gaps :
    LET start == LoadEnd - duration
        inside == InWindow([start |-> start, end |-> LoadEnd])
    IN  ReadOftenEnough /\ UnavailableSamples(RunWindow) = {} /\ start >= 0 /\ inside # <<>> =>
          LoadDelta(duration) = inside[Len(inside)].real
                                - (IF ReadingBefore(start) = <<>> THEN inside[1] ELSE ReadingBefore(start)[Len(ReadingBefore(start))]).real

(* When every phase is marked with a round, the phases' deltas sum to the  *)
(* run's: no advance falls between two phases or is counted in both.       *)
MarksHaveRounds == \A i \in DOMAIN marks : \E j \in DOMAIN points : points[j].at = marks[i]
PhasesSumWithRounds == MarksHaveRounds => Total(CounterByPhase) = Delta(RunWindow)

(* The run's count is what happened, or said to be unknown.                *)
CountIsTrue == DeltaIsTrue /\ CleanIsClean /\ NeverInvented

(* A window counts the whole of what it is for: a trial's load the load,   *)
(* and the phases between them the run.                                    *)
WindowsAreWhole == LoadIsWhole /\ PhasesSumWithRounds
=============================================================================
