-------------------------------- MODULE Argv --------------------------------
(***************************************************************************)
(* The command lines of the processes a run starts: the controller writes  *)
(* a worker's (argv_for) and a re-run's (rerun_argv_for), and the process  *)
(* reads it back (parse_args, parse_rerun_args).  A re-run's is made from  *)
(* the finding's provenance (RealRerunner::rerun).                         *)
(***************************************************************************)
EXTENDS Options

CONSTANTS Sent,        \* what a controller may write, in families: [is, args]
          CpuLists,    \* the items of the text of a list of CPUs
          Names,       \* the words that are a workload's name (is_valid_name)
          MaxInt,      \* the largest int
          MaxWorkers,  \* kMaxWorkers
          MaxLine      \* kMaxLineBytes is its power of two

VARIABLES asked, argv, got

argvVars == <<asked, argv, got>>

KeyAndValue(key, text_) == <<Word(key), text_>>
AtMost(t, most) == IF WholeNumber(t) \in 0 .. most THEN WholeNumber(t) ELSE None
CpusText(cpus) == Word(CHOOSE list \in DOMAIN CpuLists : CpuLists[list] = [i \in DOMAIN cpus |-> Number(cpus[i], "")])
CpusOf(t) ==
  IF t.suffix \notin DOMAIN CpuLists THEN <<None>>
  ELSE [i \in DOMAIN CpuLists[t.suffix] |-> AtMost(CpuLists[t.suffix][i], MaxThreads)]

-----------------------------------------------------------------------------
(* Writing                                                                 *)
Given(key, value) == IF value = None THEN <<>> ELSE KeyAndValue(key, Number(value, ""))
AddWorkload(w, with_duty) ==
  FlattenSeq(<<
    KeyAndValue("--workload", Word(w.workload)), KeyAndValue("--seed", Number(w.seed, "")),
    KeyAndValue("--footprint-bytes", Number(w.footprint, "")), KeyAndValue("--threads", Number(w.threads, "")),
    KeyAndValue("--decomposition", Number(w.decomposition, "")), KeyAndValue("--isa", Word(w.isa)),
    KeyAndValue("--lock", Word(w.lock)), KeyAndValue("--line-bytes", Number(w.line, "")),
    IF with_duty THEN Given("--oracle-period", w.oracle) \o Given("--integrity-period", w.integrity) ELSE <<>>,
    Given("--physical-package", w.package), Given("--physical-core", w.core), Given("--numa-node", w.node)>>)
ArgvFor(w) ==
  FlattenSeq(<<
    KeyAndValue("--slot", Number(w.slot, "")), KeyAndValue("--workers", Number(w.workers, "")),
    KeyAndValue("--heartbeat-fd", Number(w.heartbeat, "")), KeyAndValue("--record-fd", Number(w.records, "")),
    KeyAndValue("--control-fd", Number(w.control, "")), KeyAndValue("--supervisor-pid", Number(w.supervisor, "")),
    KeyAndValue("--duration-ms", Number(w.duration \div Nanos, "")),
    KeyAndValue("--interval-ms", Number(w.interval \div Nanos, "")),
    KeyAndValue("--stale-after-ms", Number(w.stale \div Nanos, "")),
    IF w.cpus = <<>> THEN <<>> ELSE KeyAndValue("--cpus", CpusText(w.cpus)),
    IF w.work = <<>> THEN <<>> ELSE AddWorkload(w.work[1], TRUE)>>)
RerunArgvFor(r) ==
  AddWorkload(r.unit, FALSE)
  \o KeyAndValue("--version", Number(r.version, "")) \o KeyAndValue("--iteration", Number(r.iteration, ""))
  \o KeyAndValue("--cpu", Number(r.cpu, ""))

-----------------------------------------------------------------------------
(* Reading                                                                 *)
Required == {"--slot", "--workers", "--heartbeat-fd", "--record-fd", "--control-fd", "--supervisor-pid",
             "--duration-ms", "--interval-ms", "--stale-after-ms"}
WorkloadRequired == {"--seed", "--footprint-bytes", "--threads", "--decomposition", "--isa", "--lock",
                     "--oracle-period", "--integrity-period", "--line-bytes"}
WorkloadOptional == {"--physical-package", "--physical-core", "--numa-node"}
WorkerOptional == {"--cpus", "--workload"} \cup WorkloadRequired \cup WorkloadOptional
RerunRequired == {"--workload", "--seed", "--footprint-bytes", "--threads", "--decomposition", "--isa", "--lock",
                  "--line-bytes", "--version", "--iteration", "--cpu"}
Collect(args, required, optional) ==
  LET given == [i \in 1 .. Len(args) \div 2 |-> [key |-> args[2 * i - 1].suffix, value |-> args[2 * i]]]
      keys == {given[i].key : i \in DOMAIN given} IN
  [refused |-> \/ ~(keys \subseteq required \cup optional) \/ Len(args) % 2 = 1
               \/ Cardinality(keys) < Len(given) \/ ~(required \subseteq keys),
   given |-> given]

(* What each value may be; None is none of them.                           *)
PowersOfTwo == {2 ^ n : n \in 3 .. MaxLine}
Value(given, key) == IF IsGiven(given, key) THEN WholeNumber(ValueOf(given, key)) ELSE None
Upto(given, key, most) == IF Value(given, key) \in 0 .. most THEN Value(given, key) ELSE None
WorkloadBad(given, with_duty) ==
  \/ ValueOf(given, "--workload") \notin {Word(name) : name \in Names}
  \/ Value(given, "--seed") = None \/ Value(given, "--footprint-bytes") < 1
  \/ Upto(given, "--threads", MaxWorkers) < 1 \/ Upto(given, "--decomposition", MaxThreads) = None
  \/ ~IsWordOf(ValueOf(given, "--isa"), IsaPaths) \/ ~IsWordOf(ValueOf(given, "--lock"), LockPolicies)
  \/ Value(given, "--line-bytes") \notin PowersOfTwo
  \/ with_duty /\ \E key \in {"--oracle-period", "--integrity-period"} : Upto(given, key, MaxThreads) = None
  \/ \E key \in WorkloadOptional : IsGiven(given, key) /\ Upto(given, key, MaxThreads) = None
WorkloadOf(given, with_duty) ==
  [workload |-> WordIn(given, "--workload", ""), seed |-> Value(given, "--seed"),
   footprint |-> Value(given, "--footprint-bytes"), threads |-> Value(given, "--threads"),
   decomposition |-> Value(given, "--decomposition"), isa |-> WordIn(given, "--isa", ""), lock |-> WordIn(given, "--lock", ""),
   line |-> Value(given, "--line-bytes"),
   oracle |-> IF with_duty THEN Value(given, "--oracle-period") ELSE 1,
   integrity |-> IF with_duty THEN Value(given, "--integrity-period") ELSE 1,
   package |-> Value(given, "--physical-package"), core |-> Value(given, "--physical-core"), node |-> Value(given, "--numa-node")]
EndpointsBad(given) ==
  \/ Upto(given, "--workers", MaxWorkers) < 1 \/ Upto(given, "--slot", Value(given, "--workers") - 1) = None
  \/ \E key \in {"--heartbeat-fd", "--record-fd", "--control-fd"} : Upto(given, key, MaxInt) = None
  \/ Upto(given, "--supervisor-pid", MaxInt) < 1
PacingBad(given) ==
  \/ \E key \in {"--duration-ms", "--interval-ms", "--stale-after-ms"} : Upto(given, key, MaxSigned \div Nanos) < 1
  \/ Value(given, "--stale-after-ms") < Value(given, "--interval-ms")
CpusBad(given) == IsGiven(given, "--cpus") /\ None \in Range(CpusOf(ValueOf(given, "--cpus")))
WorkBad(given) ==
  IF IsGiven(given, "--workload")
  THEN ~(\A key \in WorkloadRequired : IsGiven(given, key)) \/ WorkloadBad(given, TRUE)
  ELSE \E key \in WorkloadRequired \cup WorkloadOptional : IsGiven(given, key)
ArgumentsBad(given) == EndpointsBad(given) \/ PacingBad(given) \/ CpusBad(given) \/ WorkBad(given)

Heard(ok, worker, rerun) == [ok |-> ok, worker |-> worker, rerun |-> rerun]
Unheard == Heard(FALSE, <<>>, <<>>)
ParseWorkerArgs(args) ==
  LET collected == Collect(args, Required, WorkerOptional)
      given == collected.given IN
  IF collected.refused \/ ArgumentsBad(given) THEN Unheard
  ELSE Heard(TRUE,
    <<[slot |-> Value(given, "--slot"), workers |-> Value(given, "--workers"), heartbeat |-> Value(given, "--heartbeat-fd"),
       records |-> Value(given, "--record-fd"), control |-> Value(given, "--control-fd"),
       supervisor |-> Value(given, "--supervisor-pid"), duration |-> Value(given, "--duration-ms") * Nanos,
       interval |-> Value(given, "--interval-ms") * Nanos, stale |-> Value(given, "--stale-after-ms") * Nanos,
       cpus |-> IF IsGiven(given, "--cpus") THEN CpusOf(ValueOf(given, "--cpus")) ELSE <<>>,
       work |-> IF IsGiven(given, "--workload") THEN <<WorkloadOf(given, TRUE)>> ELSE <<>>]>>, <<>>)
ParseRerunArgs(args) ==
  LET collected == Collect(args, RerunRequired, {})
      given == collected.given IN
  IF \/ collected.refused \/ WorkloadBad(given, FALSE)
     \/ Upto(given, "--version", MaxThreads) = None \/ Value(given, "--iteration") = None \/ Upto(given, "--cpu", MaxThreads) = None
  THEN Unheard
  ELSE Heard(TRUE, <<>>,
    <<[unit |-> WorkloadOf(given, FALSE), version |-> Value(given, "--version"), iteration |-> Value(given, "--iteration"),
       cpu |-> Value(given, "--cpu")]>>)

-----------------------------------------------------------------------------
(* RealRerunner::rerun: the unit is what the provenance names.             *)
UnitIsNamed(finding) ==
  /\ finding.threads > 0
  /\ \A field \in {"version", "iteration", "seed", "decomposition", "footprint"} : finding[field] # None
  /\ finding.isa # "" /\ finding.workload # "" /\ finding.workload = finding.planned
ThreadsDivide(finding) ==
  [unit |-> [workload |-> finding.workload, seed |-> finding.seed, footprint |-> finding.footprint, threads |-> finding.threads,
             decomposition |-> finding.threads, isa |-> finding.isa, lock |-> finding.lock, line |-> finding.line,
             oracle |-> 1, integrity |-> 1, package |-> None, core |-> None, node |-> None],
   version |-> finding.version, iteration |-> finding.iteration, cpu |-> finding.cpu]
RerunArgsOf(finding) ==
  [unit |-> [workload |-> finding.workload, seed |-> finding.seed, footprint |-> finding.footprint, threads |-> finding.threads,
             decomposition |-> finding.decomposition, isa |-> finding.isa, lock |-> finding.lock, line |-> finding.line,
             oracle |-> 1, integrity |-> 1, package |-> None, core |-> None, node |-> None],
   version |-> finding.version, iteration |-> finding.iteration, cpu |-> finding.cpu]

ArgvInit == (\E i \in DOMAIN Sent : asked \in Sent[i]) /\ argv = <<>> /\ got = Unheard
StartWorker ==
  /\ asked.is = "worker" /\ argv = <<>>
  /\ argv' = ArgvFor(asked.args) /\ got' = ParseWorkerArgs(argv') /\ UNCHANGED asked
StartRerun ==
  /\ asked.is = "rerun" /\ argv = <<>> /\ UnitIsNamed(asked.args)
  /\ argv' = RerunArgvFor(RerunArgsOf(asked.args)) /\ got' = ParseRerunArgs(argv') /\ UNCHANGED asked
NotPerformed == asked.is = "rerun" /\ argv = <<>> /\ ~UnitIsNamed(asked.args) /\ UNCHANGED argvVars
Misused ==
  /\ asked.is = "words" /\ argv = <<>>
  /\ argv' = FlattenSeq(asked.args) /\ got' = ParseWorkerArgs(argv') /\ UNCHANGED asked
Started == argv # <<>> /\ UNCHANGED argvVars
ArgvNext == StartWorker \/ StartRerun \/ NotPerformed \/ Misused \/ Started
ArgvSpec == ArgvInit /\ [][ArgvNext]_argvVars

-----------------------------------------------------------------------------
(* What a worker can be told: what the plan and the pacing allow.          *)
Tellable(w) ==
  /\ w.duration >= Nanos /\ w.interval >= Nanos /\ w.stale >= w.interval
  /\ w.work # <<>> => w.work[1].threads \in 1 .. MaxWorkers /\ w.work[1].footprint >= 1 /\ w.work[1].line \in PowersOfTwo

(* The process reads what the controller has written: a worker its place,  *)
(* its descriptors, its pacing to the millisecond and its work (argv_for,  *)
(* parse_args); a re-run the unit its finding names, with every check on   *)
(* (RealRerunner::rerun).  And a command line that a worker accepts,       *)
(* whoever wrote it, says nothing that is not in what it reads.            *)
ProcessesAreTold ==
  /\ argv # <<>> /\ asked.is = "worker" /\ Tellable(asked.args) =>
       /\ got.ok
       /\ got.worker[1] = [asked.args EXCEPT !.duration = @ - (@ % Nanos), !.interval = @ - (@ % Nanos), !.stale = @ - (@ % Nanos)]
  /\ argv # <<>> /\ asked.is = "rerun" =>
       /\ got.ok
       /\ \A field \in {"seed", "footprint", "decomposition", "isa", "workload"} : got.rerun[1].unit[field] = asked.args[field]
       /\ \A field \in {"version", "iteration", "cpu"} : got.rerun[1][field] = asked.args[field]
       /\ got.rerun[1].unit.oracle = 1 /\ got.rerun[1].unit.integrity = 1
  /\ asked.is = "words" /\ got.ok =>
       LET written == ArgvFor(got.worker[1]) IN Len(written) = Len(argv) /\ Range(written) = Range(argv)
=============================================================================
