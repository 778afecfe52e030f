------------------------------ MODULE Options ------------------------------
(***************************************************************************)
(* The command line: which command it is (cli::run), the options of        *)
(* stress, of stress --test, of explore and of selftest, and the run, the  *)
(* search or the check that they come to.                                  *)
(*                                                                         *)
(* An argument is a text, as in Config.  What an objective or a candidate  *)
(* says between its colons is a record of a table, for the text it is.     *)
(***************************************************************************)
EXTENDS Config, FiniteSetsExt, TLC

CONSTANTS CommandLines,   \* what may be typed, in families: [head, options, machine, document]
          Machines,       \* what prepare_launch may find: [resolves, described, found, permitted]
          Objectives,     \* the parts of the text of an --objective
          Candidates,     \* the parts of the text of a --candidate
          Lists,          \* the items of the text of an --output
          Registry,       \* the names of the workloads
          LongestTrial,   \* thirty days
          MostWorkers,    \* kMostDefaultWorkers
          MostElimination,
          LeastFootprint, \* of selftest
          Defaults        \* the durations and intervals when none is given

VARIABLES line, outcome

optionVars == <<line, outcome>>

WholeNumber(t) == IF SplitNumber(t).error # "" \/ t.suffix # "" THEN None ELSE SplitNumber(t).value
Positive(t, longest) == ParseDuration(t).error = "" /\ ParseDuration(t).value \in 1 .. longest
IsWordOf(t, words) == t \in {Word(word) : word \in words}
IsaPaths == {"scalar", "avx2", "avx512", "neon"}
LockPolicies == {"require", "try", "none"}
Writers == {"json", "csv"}
ParseFormats(t) ==
  /\ t.kind = "word" /\ t.suffix \in DOMAIN Lists
  /\ Range(Lists[t.suffix]) \subseteq Writers /\ IsInjective(Lists[t.suffix])

(* The loop over the arguments: each key once unless it may be repeated,   *)
(* each with its value, which Refuses may refuse.                          *)
Parsed == [refused |-> "", want |-> "", given |-> <<>>]
IsGiven(given, key) == \E i \in DOMAIN given : given[i].key = key
LastWins(given, key) == FALSE
IsTwice(given, key) == IsGiven(given, key)
ParseArgs(args, keys, flags, repeatable, Refuses(_, _)) ==
  LET step(s, t) ==
        IF s.refused # "" THEN s
        ELSE IF s.want # ""
          THEN IF Refuses(s.want, t) THEN [s EXCEPT !.refused = s.want]
               ELSE [s EXCEPT !.want = "", !.given = Append(@, [key |-> s.want, value |-> t])]
        ELSE IF t.suffix \notin keys \cup flags \/ (t.suffix \notin repeatable /\ IsTwice(s.given, t.suffix))
          THEN [s EXCEPT !.refused = t.suffix]
        ELSE IF t.suffix \in flags THEN [s EXCEPT !.given = Append(@, [key |-> t.suffix, value |-> Empty])]
        ELSE [s EXCEPT !.want = t.suffix]
      end == FoldLeft(step, Parsed, args)
  IN IF end.refused = "" /\ end.want # "" THEN [end EXCEPT !.refused = end.want] ELSE end
ValueOf(given, key) == Last(SelectSeq(given, LAMBDA each : each.key = key)).value
DurationIn(given, key, default) == IF IsGiven(given, key) THEN ParseDuration(ValueOf(given, key)).value ELSE default
NumberIn(given, key, default) == IF IsGiven(given, key) THEN WholeNumber(ValueOf(given, key)) ELSE default
WordIn(given, key, default) == IF IsGiven(given, key) THEN ValueOf(given, key).suffix ELSE default
SizeIn(given, key) == IF IsGiven(given, key) THEN ParseByteSize(ValueOf(given, key)) ELSE NoSize("")

-----------------------------------------------------------------------------
(* The machine: prepare_launch, and the CPUs a worker may be placed on.    *)
AllowedCpus(machine) ==
  IF machine.permitted = {None} THEN machine.found ELSE SelectSeq(machine.found, LAMBDA cpu : cpu \in machine.permitted)
PrepareLaunch(machine) == machine.resolves /\ machine.described

-----------------------------------------------------------------------------
(* stress --test                                                           *)
TestKeys == {"--duration", "--workers", "--footprint", "--isa", "--seed", "--lock", "--output", "--output-dir",
             "--sample-interval", "--journal", "--max-temperature", "--rotation", "--dwell", "--cycle", "--workload"}
TakeDuration(t) == ParseDuration(t).error = ""
TakeCelsius(t) == WholeNumber(t) \in 1 .. MaxCelsius
TestRefuses(key, t) ==
  CASE key = "--duration" -> ~TakeDuration(t)
    [] key = "--workers" -> WholeNumber(t) < 1
    [] key = "--footprint" -> ParseByteSize(t).error # ""
    [] key = "--isa" -> ~IsWordOf(t, IsaPaths)
    [] key = "--seed" -> WholeNumber(t) = None
    [] key = "--lock" -> ~IsWordOf(t, LockPolicies)
    [] key = "--output" -> ~ParseFormats(t)
    [] key \in {"--sample-interval", "--rotation", "--dwell"} -> ~Positive(t, LongestRun)
    [] key = "--max-temperature" -> ~TakeCelsius(t)
    [] key = "--cycle" -> ~IsWordOf(t, {"load", "cores"})
    [] OTHER -> FALSE
ParseTestArgs(args) == ParseArgs(Tail(args), TestKeys, {}, {}, TestRefuses)
Misplaced(name, given) ==
  \/ name # "mixed" /\ IsGiven(given, "--rotation")
  \/ name # "cycling" /\ \E key \in {"--dwell", "--cycle", "--workload"} : IsGiven(given, key)

Exits(code) == [is |-> "exit", code |-> code, config |-> NoConfig, search |-> <<>>, given |-> <<>>]
Comes(is, config, given) == [Exits(0) EXCEPT !.is = is, !.config = config, !.given = given]
StressTest(args, machine) ==
  LET parsed == ParseTestArgs(args)
      given == parsed.given
      name == args[1].suffix
      workload == IF name = "cycling" THEN WordIn(given, "--workload", "dense_linear") ELSE name
      cpus == Len(AllowedCpus(machine))
      workers == NumberIn(given, "--workers", Max({1, Min({cpus, MostWorkers})}))
      footprint == SizeIn(given, "--footprint") IN
  IF parsed.refused # "" \/ Misplaced(name, given) \/ (name # "mixed" /\ workload \notin Registry) THEN Exits(2)
  ELSE IF ~PrepareLaunch(machine) \/ (name = "mixed" /\ footprint.percent # None) THEN Exits(1)
  ELSE Comes(IF name \in {"mixed", "cycling"} THEN "schedule" ELSE "run",
            [mode |-> "stress", duration |-> DurationIn(given, "--duration", Defaults.test),
             celsius |-> NumberIn(given, "--max-temperature", None), memory |-> NoSize(""),
             workloads |-> [i \in 1 .. workers |-> [name |-> workload, threads |-> 1, enabled |-> TRUE, memory |-> footprint]]],
            given)

(* stress --config                                                         *)
StressKeys == {"--config", "--output", "--output-dir", "--sample-interval", "--journal"}
StressRefuses(key, t) ==
  \/ key = "--output" /\ ~ParseFormats(t)
  \/ key = "--sample-interval" /\ ~Positive(t, LongestRun)
ParseStressArgs(args) == ParseArgs(args, StressKeys, {}, {}, StressRefuses)
StressFile(args, machine, document) ==
  LET parsed == ParseStressArgs(args)
      loaded == Validate(document) IN
  IF parsed.refused # "" \/ ~IsGiven(parsed.given, "--config") THEN Exits(2)
  ELSE IF ~loaded.ok \/ loaded.config.mode # "stress" \/ ~PrepareLaunch(machine) THEN Exits(1)
  ELSE Comes("run", loaded.config, parsed.given)

-----------------------------------------------------------------------------
(* explore                                                                 *)
ExploreKeys == {"--objective", "--candidate", "--reference", "--duration", "--settle", "--settle-slope", "--settle-window",
                "--settle-max", "--replicates", "--final-replicates", "--elimination", "--interleave",
                "--reference-replicates", "--seed", "--footprint", "--isa", "--lock", "--sample-interval", "--max-temperature"}
Statistics == {"mean", "max", "min", "last", "stddev", "slope", "rate", "delta"}
TakeObjective(t) ==
  /\ t.suffix \in DOMAIN Objectives
  /\ LET o == Objectives[t.suffix] IN
     /\ o.parts = 3 /\ o.named \in {1, 2} /\ o.metric # ""
     /\ o.named = 2 => WholeNumber(o.index) \in 0 .. MaxThreads
     /\ o.statistic \in Statistics /\ o.direction \in {"higher", "lower"}
CandidateOf(t) ==
  /\ t.suffix \in DOMAIN Candidates
  /\ LET chosen == Candidates[t.suffix] IN
     /\ chosen.parts \in {3, 4} /\ chosen.id # "" /\ "" \notin Range(chosen.workloads)
     /\ WholeNumber(chosen.threads) \in 1 .. MaxThreads
     /\ chosen.parts = 4 => chosen.cpus # <<>>
ExploreRefuses(key, t) ==
  CASE key = "--objective" -> ~TakeObjective(t)
    [] key \in {"--candidate", "--reference"} -> ~CandidateOf(t)
    [] key \in {"--duration", "--settle-window", "--settle-max", "--sample-interval"} -> ~Positive(t, LongestTrial)
    [] key = "--settle-slope" -> SplitNumber(t).error # "" \/ t.suffix # ""
    [] key \in {"--replicates", "--final-replicates", "--interleave", "--reference-replicates"} -> WholeNumber(t) < 1
    [] key = "--elimination" -> WholeNumber(t) \notin 1 .. MostElimination
    [] key = "--seed" -> WholeNumber(t) = None
    [] key = "--footprint" -> ParseByteSize(t).error # "" \/ ParseByteSize(t).percent # None
    [] key = "--isa" -> ~IsWordOf(t, IsaPaths)
    [] key = "--lock" -> ~IsWordOf(t, LockPolicies)
    [] key = "--max-temperature" -> ~TakeCelsius(t)
    [] OTHER -> FALSE
Extras == {"--settle-slope", "--settle-window", "--settle-max"}
Window(given) == DurationIn(given, "--settle-window", Defaults.window)
Longest(given) == DurationIn(given, "--settle-max", Defaults.settle)
AnyWindow(given) == ~IsGiven(given, "--settle") /\ \E key \in Extras : IsGiven(given, key)
SettleRefused(given) ==
  IF IsGiven(given, "--settle") THEN Window(given) > Longest(given)
  ELSE \E key \in Extras : IsGiven(given, key)
NeedsTwoReadings(statistic) == statistic \in {"stddev", "slope", "rate", "delta"}
ObjectiveIn(given) == Objectives[ValueOf(given, "--objective").suffix]
ShortLoad(given) ==
  /\ NeedsTwoReadings(ObjectiveIn(given).statistic)
  /\ DurationIn(given, "--duration", Defaults.trial) < 2 * DurationIn(given, "--sample-interval", Defaults.interval)
ParseExploreArgs(args) ==
  LET parsed == ParseArgs(args, ExploreKeys, {"--verbose"}, {"--candidate"}, ExploreRefuses) IN
  IF parsed.refused # "" THEN parsed
  ELSE [parsed EXCEPT !.refused =
    IF ~IsGiven(parsed.given, "--objective") THEN "--objective"
    ELSE IF ~IsGiven(parsed.given, "--candidate") THEN "--candidate"
    ELSE IF SettleRefused(parsed.given) THEN "--settle" ELSE IF ShortLoad(parsed.given) THEN "--duration" ELSE ""]

(* search_config_of: what the search is given.                             *)
Asked(given, t) ==
  [id |-> Candidates[t.suffix].id, workloads |-> Candidates[t.suffix].workloads,
   threads |-> WholeNumber(Candidates[t.suffix].threads), cpus |-> Candidates[t.suffix].cpus,
   duration |-> DurationIn(given, "--duration", Defaults.trial) * Nanos,
   settle |-> IF IsGiven(given, "--settle") THEN <<Window(given) * Nanos, Longest(given) * Nanos>> ELSE <<>>]
SearchConfigOf(given) ==
  LET each == SelectSeq(given, LAMBDA one : one.key = "--candidate")
      candidates == [i \in DOMAIN each |-> Asked(given, each[i].value)] IN
  [candidates |-> candidates,
   reference |-> IF IsGiven(given, "--reference") THEN Asked(given, ValueOf(given, "--reference"))
                 ELSE [candidates[1] EXCEPT !.id = "reference", !.threads = Len(candidates[1].workloads), !.cpus = <<>>]]
ExploreCommand(args, machine) ==
  LET parsed == ParseExploreArgs(args) IN
  IF parsed.refused # "" THEN Exits(2)
  ELSE IF ~PrepareLaunch(machine) THEN Exits(1)
  ELSE [Comes("search", NoConfig, parsed.given) EXCEPT !.search = <<SearchConfigOf(parsed.given)>>]

-----------------------------------------------------------------------------
(* selftest                                                                *)
SelftestRefuses(key, t) ==
  CASE key = "--isa" -> ~IsWordOf(t, IsaPaths)
    [] key = "--footprint" -> ParseByteSize(t).error # "" \/ ParseByteSize(t).bytes < LeastFootprint
    [] OTHER -> WholeNumber(t) = None
ParseSelftestArgs(args) == ParseArgs(args, {"--isa", "--footprint", "--seed"}, {"--verbose"}, {}, SelftestRefuses)
SelftestCommand(args) ==
  LET parsed == ParseSelftestArgs(args) IN
  IF parsed.refused # "" THEN Exits(2) ELSE Comes("selftest", NoConfig, parsed.given)

(* cli::run                                                                *)
Command(args, machine, document) ==
  IF args = <<>> THEN Exits(0)
  ELSE LET first == args[1].suffix IN
    CASE first \in {"--worker", "--rerun"} -> Comes(first, NoConfig, <<>>)
      [] first = "--check-config" -> Exits(IF Len(args) # 2 THEN 2 ELSE IF Validate(document).ok THEN 0 ELSE 1)
      [] first = "stress" ->
           IF Len(args) >= 3 /\ args[2] = Word("--test") THEN StressTest(SubSeq(args, 3, Len(args)), machine)
           ELSE StressFile(Tail(args), machine, document)
      [] first = "selftest" -> SelftestCommand(Tail(args))
      [] first = "explore" -> ExploreCommand(Tail(args), machine)
      [] first = "journal" -> IF Len(args) # 2 THEN Exits(2) ELSE Comes("journal", NoConfig, <<>>)
      [] OTHER -> Exits(IF Len(args) = 1 /\ first \in {"--version", "-V", "--selftest-digest", "--help", "-h"} THEN 0 ELSE 2)

Unasked == [Exits(0) EXCEPT !.is = "none"]
Args(typed) == typed.head \o FlattenSeq(typed.options)
Answer(typed) == Command(Args(typed), typed.machine, typed.document)
OptionsInit == (\E i \in DOMAIN CommandLines : line \in CommandLines[i]) /\ outcome = Unasked
Type == outcome = Unasked /\ outcome' = Answer(line) /\ UNCHANGED line
Answered == outcome # Unasked /\ UNCHANGED optionVars
OptionsNext == Type \/ Answered
OptionsSpec == OptionsInit /\ [][OptionsNext]_optionVars

-----------------------------------------------------------------------------
IsWhole(option) == Len(option) = 2 \/ option = <<Word("--verbose")>>
Swapped(typed, i) ==
  [typed EXCEPT !.options = [@ EXCEPT ![i] = typed.options[i + 1], ![i + 1] = typed.options[i]]]
SameButOrder(one, other) ==
  /\ <<one.is, one.code, one.config, one.search>> = <<other.is, other.code, other.config, other.search>>
  /\ Range(one.given) = Range(other.given)

(* Two options of different keys may change places and the command is the  *)
(* same (cli.cpp: "any of the options in any order, each once"); so may    *)
(* two of the same key that is taken once, for both are then refused.  A   *)
(* mistake in the words is a usage error on every machine: nothing is      *)
(* looked up before the words are right.                                   *)
WordsDecide ==
  outcome # Unasked =>
    /\ \A i \in 1 .. Len(line.options) - 1 :
         (/\ \A j \in DOMAIN line.options : IsWhole(line.options[j])
          /\ ~(line.options[i][1] = Word("--candidate") /\ line.options[i + 1][1] = Word("--candidate")))
            => SameButOrder(outcome, Answer(Swapped(line, i)))
    /\ \A machine \in Machines : (outcome.code = 2) <=> Answer([line EXCEPT !.machine = machine]).code = 2

(* What a command goes on with is what it can do: a settle phase can       *)
(* settle, a load holds the readings its statistic needs, no length wraps  *)
(* in nanoseconds, the reference is one worker for each workload, every    *)
(* trial has the same length; and the configuration stress --test makes is *)
(* one a file could hold, its duration and its footprint apart.            *)
SearchCanBe(search) ==
  LET all == Append(search.candidates, search.reference) IN
  /\ search.candidates # <<>>
  /\ \A i \in DOMAIN all :
       /\ all[i].threads >= 1 /\ all[i].duration > 0 /\ all[i].duration <= MaxSigned
       /\ all[i].duration = all[1].duration /\ all[i].settle = all[1].settle
       /\ all[i].settle # <<>> => all[i].settle[1] <= all[i].settle[2] /\ all[i].settle[2] <= MaxSigned
ReadingsFit(given) ==
  NeedsTwoReadings(ObjectiveIn(given).statistic) =>
    2 * DurationIn(given, "--sample-interval", Defaults.interval) <= DurationIn(given, "--duration", Defaults.trial)
CommandCanBe ==
  /\ outcome.is = "search" =>
       /\ \A i \in DOMAIN outcome.search : SearchCanBe(outcome.search[i])
       /\ ReadingsFit(outcome.given)
  /\ outcome.is \in {"run", "schedule"} =>
       /\ outcome.config.workloads # <<>>
       /\ LET read_back == Validate(ToToml(outcome.config)) IN
          IF read_back.ok THEN read_back.config = outcome.config ELSE read_back.key \in {"run.duration", "workload.memory"}

(* config.hpp of the longest run: "The command line's `--duration` is held *)
(* to the same bound."                                                     *)
DurationIsHeld == outcome.is = "run" => outcome.config.duration <= LongestRun
=============================================================================
