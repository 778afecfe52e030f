------------------------------ MODULE Document ------------------------------
(***************************************************************************)
(* The result of a run (main/outcome.cpp to_run_result, main/run_result.cpp*)
(* assemble_result), the tree of plain values it is turned into            *)
(* (controller/results/document.cpp), and the two formats that write the   *)
(* tree down (reporters/json, reporters/csv).  Two reports are carried     *)
(* through together, so that what tells them apart can be followed.        *)
(*                                                                         *)
(* A value of the result is its type and its digits; an optional part is a *)
(* sequence of none or one.  The layout of the formats is left out: a CSV  *)
(* table is its rows, a JSON object its members in their order.            *)
(***************************************************************************)
EXTENDS Integers, Sequences, FiniteSets, TLC, SequencesExt

CONSTANTS Reports,    \* families of pairs of reports; a sequence
          MaxU64,
          Texts,      \* the texts a JSON string is made of; sequences of bytes
          Cells       \* the pairs of cells of a CSV record; sequences of characters

VARIABLES input,
          result,     \* the two results; "none" for a run whose result failed
          tree,
          written

docVars == <<input, result, tree, written>>

None == <<"none", "">>
U(n) == <<"unsigned", ToString(n)>>

-----------------------------------------------------------------------------
(* What a run was (controller::RunReport) as the result's types hold it.   *)
AtMost(low, high) == IF low < high THEN low ELSE high
LogicalBytes(units, each) == AtMost(units * each, MaxU64)

(* The schema has no field for why a run ended: its workers' account does. *)
Termination(report, worker) ==
  worker.termination \o (IF report.ceiling THEN " ceiling" ELSE "") \o (IF report.signal THEN " signal" ELSE "")
WorkerOf(report, worker) ==
  [slot |-> worker.slot, fate |-> worker.fate, cpu |-> IF worker.work = <<>> THEN None ELSE worker.work[1].cpu,
   termination |-> <<"text", Termination(report, worker)>>]
WorkloadOf(worker) ==
  LET work == worker.work[1] IN
  [descriptor |-> work.descriptor, isa |-> work.isa, decomposition |-> work.decomposition, duty |-> work.duty,
   lock_policy |-> work.lock, tally |-> worker.tally, memory_lock |-> worker.memory,
   logical_bytes |-> LogicalBytes(worker.tally.units_computed, work.logical_bytes),
   findings |-> [i \in DOMAIN worker.findings |->
                   [record |-> worker.findings[i].record, isolation |-> worker.findings[i].isolation]]]
HasWork(worker) == worker.work # <<>>
ToRunResult(report) ==
  [workers |-> [i \in DOMAIN report.workers |-> WorkerOf(report, report.workers[i])],
   workloads |-> LET with == SelectSeq(report.workers, HasWork) IN [i \in DOMAIN with |-> WorkloadOf(with[i])]]

(* A configured workload no worker verified: nothing of it is scheduled.   *)
NoTally ==
  [units_computed |-> 0, oracle_checked |-> 0, oracle_blocks |-> 0, oracle_failed |-> 0,
   oracle_not_performed |-> 0, integrity_checked |-> 0, integrity_failed |-> 0]
IdleWorkload(name) ==
  [descriptor |-> [name |-> name, version |-> U(1), determinism |-> <<"text", "BitExact">>,
                   contract |-> <<"text", "exact">>, paths |-> {"scalar"}],
   isa |-> <<"text", "scalar">>, decomposition |-> U(0),
   duty |-> [oracle_period |-> U(0), integrity_period |-> U(0)],
   lock_policy |-> <<"text", "require">>, tally |-> NoTally, memory_lock |-> <<>>, logical_bytes |-> 0, findings |-> <<>>]
IsEnabled(workload) == workload.enabled
Idle(report) ==
  LET enabled == SelectSeq(report.configured, IsEnabled) IN [i \in DOMAIN enabled |-> IdleWorkload(enabled[i].name)]

(* The share of one CPU the sampling took, as a fraction of the run.       *)
Overhead(report) ==
  IF report.sampled /\ report.elapsed_ns > 0
  THEN <<"real", IF report.cost_ns >= report.elapsed_ns THEN "1"
                 ELSE ToString(report.cost_ns) \o "/" \o ToString(report.elapsed_ns)>>
  ELSE None

(* results::seal: the verdict the contents imply.                          *)
Named(result0, name) ==
  {m \in {result0.signature.metrics[i] : i \in DOMAIN result0.signature.metrics} : m.metric.name[2] = name}
Advanced(result0, name) == \E m \in Named(result0, name) : m.summary.type = "counter" /\ m.summary.value.delta # U(0)
Blind(result0, name) ==
  \E m \in Named(result0, name) :
    m.unavailable_samples # U(0) \/ (m.summary.type = "counter" /\ m.summary.value.resets # U(0))
Findings(result0) ==
  UNION {{w.findings[i] : i \in DOMAIN w.findings} : w \in {result0.workloads[j] : j \in DOMAIN result0.workloads}}
IsWrong(finding) == finding.record.kind # "VerificationNotPerformed"
Unchecked(workload) == workload.tally.oracle_blocks = 0 \/ workload.tally.integrity_checked = 0
IsClean(fate) == fate = <<"text", "completed">>
DeriveVerdict(result0) ==
  CASE (\E f \in Findings(result0) : IsWrong(f)) \/ Advanced(result0, "edac.uncorrected") -> "findings"
    [] \/ result0.workloads = <<>> \/ Findings(result0) # {}
       \/ \E i \in DOMAIN result0.workloads : Unchecked(result0.workloads[i])
       \/ \E i \in DOMAIN result0.workers : ~IsClean(result0.workers[i].fate)
       \/ \E name \in {"edac.corrected", "edac.uncorrected"} : Blind(result0, name) -> "incomplete"
    [] Advanced(result0, "edac.corrected") -> "corrected_errors"
    [] OTHER -> "clean"

NoSignature == [start_ns |-> 0, end_ns |-> 0, metrics |-> <<>>]
Whole(report) ==
  LET told == ToRunResult(report) IN
  [mode |-> report.mode, elapsed_ns |-> report.elapsed_ns, fingerprint |-> report.fingerprint,
   capabilities |-> report.capabilities, workers |-> told.workers,
   workloads |-> IF told.workloads = <<>> THEN Idle(report) ELSE told.workloads,
   signature |-> IF report.rounds > 0 THEN report.signature ELSE NoSignature,
   sample_interval_ns |-> report.interval_ns, overhead |-> Overhead(report)]
AssembleResult(report) ==
  IF report.rounds > 0 /\ report.unsummed THEN [verdict |-> "none"]
  ELSE LET whole == Whole(report) IN [verdict |-> DeriveVerdict(whole)] @@ whole

-----------------------------------------------------------------------------
(* results::Node.  A member is a key and a node; an item's key is "".      *)
NoWhy == [kind |-> "", words |-> "", path |-> "", detail |-> "", remediation |-> ""]
Node(kind, text) == [kind |-> kind, text |-> text, members |-> <<>>, why |-> NoWhy]
Null == Node("null", "")
Text(text) == Node("text", text)
Object(members) == [Node("object", "") EXCEPT !.members = members]
Array(nodes) == [Node("array", "") EXCEPT !.members = [i \in DOMAIN nodes |-> <<"", nodes[i]>>]]

(* Neither format has a number for these; a null would say "not recorded". *)
NonFinite == {"nan", "inf", "-inf"}
AsRead(v) == IF v = None THEN Null ELSE Node(v[1], v[2])
Value(v) ==
  CASE v = None -> Null
    [] v[1] = "real" /\ v[2] \in NonFinite -> Text(v[2])
    [] OTHER -> Node(v[1], v[2])
Members(values, keys) == [i \in DOMAIN keys |-> <<keys[i], Value(values[keys[i]])>>]
Plain(values, keys) == Object(Members(values, keys))
Counts(counts, keys) == Object([i \in DOMAIN keys |-> <<keys[i], Value(U(counts[keys[i]]))>>])

Words(kind) ==
  CASE kind = "absent" -> "not offered by this kernel"
    [] kind = "vanished" -> "gone since it was last read"
    [] kind = "denied" -> "not permitted"
    [] kind = "malformed" -> "not in the expected format"
    [] kind = "unreadable" -> "unreadable"
AbsenceOf(why) ==
  [Node("absence", "") EXCEPT !.why = [kind |-> why.kind, words |-> Words(why.kind), path |-> why.path,
                                       detail |-> why.detail, remediation |-> why.remediation]]

Nibble(bytes, i) == IF i % 2 = 1 THEN bytes[(i + 1) \div 2] \div 16 ELSE bytes[i \div 2] % 16
Hex(bytes) == Text(ToString([i \in 1 .. 2 * Len(bytes) |-> Nibble(bytes, i)]))

-----------------------------------------------------------------------------
(* The parts of a result, each as its tree.                                *)
MetricKeys == <<"name", "unit", "kind", "scope", "scope_index", "modulus", "provider">>
MetricNode(metric) == Plain(metric, MetricKeys)

BuildKeys == <<"loadforge_version", "git_commit", "compiler", "flags">>
MachineKeys ==
  <<"cpu_model", "microcode", "kernel", "smt_enabled", "power_source", "battery_state", "cpufreq_governor",
    "energy_performance_preference", "platform_profile", "turbo_enabled", "cooling_profile",
    "cgroup_memory_limit_bytes", "huge_page_policy", "temperature_at_start_c">>
FpKeys == <<"rounding", "flush_to_zero", "denormals_are_zero", "default_nan">>
FpNode(state) == IF state = <<>> THEN Null ELSE Plain(state[1], FpKeys)
IsAbsent(member) == member[2].kind = "null"
FingerprintNode(fingerprint) ==
  LET members == Members(fingerprint, BuildKeys \o MachineKeys)
                 \o <<<<"fp_environment", FpNode(fingerprint.fp_environment)>>,
                      <<"isa_path", Value(fingerprint.isa_path)>>>>
      absent == SelectSeq(members, IsAbsent)
  IN Object(Append(members, <<"absent_fields", Array([i \in DOMAIN absent |-> Text(absent[i][1])])>>))

StatusNode(status) ==
  Object(<<<<"metric", MetricNode(status.metric)>>,
           <<"availability", IF status.unavailable = <<>> THEN Text("present") ELSE AbsenceOf(status.unavailable[1])>>>>)
CapabilitiesNode(sources) ==
  Array([i \in DOMAIN sources |->
           Object(<<<<"source", Value(sources[i].source)>>,
                    <<"metrics", Array([j \in DOMAIN sources[i].metrics |-> StatusNode(sources[i].metrics[j])])>>>>)])

GaugeKeys == <<"samples", "min", "max", "mean", "stddev", "first", "last", "slope_per_second">>
CounterKeys == <<"samples", "delta", "rate_per_second", "resets">>
SummaryNode(summary) ==
  CASE summary.type = "gauge" -> Object(<<<<"type", Text("gauge")>>>> \o Members(summary.value, GaugeKeys))
    [] summary.type = "counter" -> Object(<<<<"type", Text("counter")>>>> \o Members(summary.value, CounterKeys))
    [] OTHER -> AbsenceOf(summary.why)
SummedNode(summed) ==
  Object(<<<<"metric", MetricNode(summed.metric)>>, <<"unavailable_samples", Value(summed.unavailable_samples)>>,
           <<"summary", SummaryNode(summed.summary)>>>>)
SignatureNode(signature) ==
  Object(<<<<"window", Counts(signature, <<"start_ns", "end_ns">>)>>,
           <<"metrics", Array([i \in DOMAIN signature.metrics |-> SummedNode(signature.metrics[i])])>>>>)
PlaceKeys ==
  <<"logical_cpu", "physical_package", "physical_core", "numa_node", "buffer_address", "buffer_offset", "iteration",
    "workload", "workload_version", "seed", "isa", "input_integrity">>
DutyKeys == <<"oracle_period", "integrity_period">>
ProvenanceNode(provenance) ==
  Object(Members(provenance, PlaceKeys)
         \o <<<<"duty", IF provenance.duty = <<>> THEN Null ELSE Plain(provenance.duty[1], DutyKeys)>>>>
         \o Members(provenance, <<"decomposition", "footprint_bytes">>))

WordBytes == 8
BitClass(bits, lineBytes) ==
  CASE bits.popcount = 1 -> "single bit"
    [] bits.first_offset \div WordBytes = bits.last_offset \div WordBytes -> "multiple bits in one word"
    [] bits.first_offset \div lineBytes = bits.last_offset \div lineBytes -> "within a cache line"
    [] OTHER -> "across cache lines"
OffsetKeys == <<"first_offset", "last_offset", "popcount", "window_offset">>
DifferenceNode(bits) ==
  Object(<<<<"domain", Value(bits.domain)>>>> \o Counts(bits, OffsetKeys).members
         \o <<<<"expected_hex", Hex(bits.expected)>>, <<"actual_hex", Hex(bits.actual)>>>>)
ExactMembers(record) ==
  Members(record, <<"side", "check">>)
  \o <<<<"line_bytes", Value(U(record.line_bytes))>>,
       <<"difference", IF record.difference = <<>> THEN Null ELSE DifferenceNode(record.difference[1])>>,
       <<"bit_class", IF record.difference = <<>> THEN Null ELSE Text(BitClass(record.difference[1], record.line_bytes))>>>>
(* A quotient of what is not a number is none, of an infinity one.         *)
Ratio(residual, tolerance) ==
  IF residual[2] \in NonFinite THEN residual ELSE <<"real", residual[2] \o "/" \o tolerance[2]>>
NumericalMembers(record) ==
  Members([ratio |-> Ratio(record.residual, record.tolerance)] @@ record,
          <<"check", "residual", "tolerance", "ratio", "condition_number", "element">>)
RecordNode(record) ==
  Object(<<<<"kind", Text(record.kind)>>, <<"provenance", ProvenanceNode(record.provenance)>>>>
         \o CASE record.kind = "ExactBitCorruption" -> ExactMembers(record)
              [] record.kind = "NumericalVerificationFailure" -> NumericalMembers(record)
              [] OTHER -> Members(record, <<"what", "why", "blocks_compared">>))

IsolationNode(report) ==
  Object(<<<<"steps", Array([i \in DOMAIN report.steps |->
                               Plain(report.steps[i], <<"rung", "cpu", "threads", "outcome">>)])>>,
           <<"answers", Plain(report.answers, <<"same_core", "other_core", "single_thread">>)>>>>
         \o Members(report, <<"finding", "confidence">>))
(* No run attaches the telemetry of the moment to a finding: the list of   *)
(* every finding is empty.                                                 *)
FindingNode(finding) ==
  Object(<<<<"record", RecordNode(finding.record)>>,
           <<"isolation", IF finding.isolation = <<>> THEN Null ELSE IsolationNode(finding.isolation[1])>>,
           <<"telemetry", Array(<<>>)>>>>)

PathOrder == <<"scalar", "avx2", "avx512", "neon">>
DescriptorNode(descriptor) ==
  LET Has(path) == path \in descriptor.paths
      paths == SelectSeq(PathOrder, Has)
  IN Object(Members(descriptor, <<"name", "version", "determinism", "contract">>)
            \o <<<<"paths", Array([i \in DOMAIN paths |-> Text(paths[i])])>>>>)
TallyKeys ==
  <<"units_computed", "oracle_checked", "oracle_blocks", "oracle_failed", "oracle_not_performed",
    "integrity_checked", "integrity_failed">>
LockNode(lock) ==
  IF lock = <<>> THEN Null
  ELSE Plain([lock[1] EXCEPT !.detail = IF @[2] = "" THEN None ELSE @], <<"outcome", "detail">>)
WorkloadNode(workload) ==
  Object(<<<<"descriptor", DescriptorNode(workload.descriptor)>>, <<"isa", Value(workload.isa)>>,
           <<"decomposition", Value(workload.decomposition)>>, <<"duty", Plain(workload.duty, DutyKeys)>>,
           <<"tally", Counts(workload.tally, TallyKeys)>>, <<"logical_bytes", Value(U(workload.logical_bytes))>>,
           <<"findings", Array([i \in DOMAIN workload.findings |-> FindingNode(workload.findings[i])])>>,
           <<"lock_policy", Value(workload.lock_policy)>>, <<"memory_lock", LockNode(workload.memory_lock)>>>>)
WorkerNode(worker) == Plain(worker, <<"slot", "fate", "cpu", "termination">>)

(* No run records how often its journal was flushed.                       *)
ObserversNode(result0) ==
  Object(<<<<"sample_interval_ns", Value(U(result0.sample_interval_ns))>>, <<"journal_flush_interval_ns", Null>>,
           <<"controller_overhead", Value(result0.overhead)>>>>)
VerdictNode(verdict) ==
  Object(<<<<"code", Text(verdict)>>,
           <<"words", Text(IF verdict = "corrected_errors" THEN "corrected errors" ELSE verdict)>>>>)
SchemaVersion == 3
ToDocument(result0) ==
  Object(<<<<"schema_version", Value(U(SchemaVersion))>>, <<"mode", Value(result0.mode)>>,
           <<"elapsed_ns", Value(U(result0.elapsed_ns))>>, <<"verdict", VerdictNode(result0.verdict)>>,
           <<"fingerprint", FingerprintNode(result0.fingerprint)>>,
           <<"capabilities", CapabilitiesNode(result0.capabilities)>>,
           <<"signature", SignatureNode(result0.signature)>>,
           <<"workloads", Array([i \in DOMAIN result0.workloads |-> WorkloadNode(result0.workloads[i])])>>,
           <<"workers", Array([i \in DOMAIN result0.workers |-> WorkerNode(result0.workers[i])])>>,
           <<"observers", ObserversNode(result0)>>>>)

-----------------------------------------------------------------------------
(* reporters/csv: one row for each value, its place in the tree before it. *)
Row(field, value, status, reason) ==
  [field |-> field, value |-> value, status |-> status, reason |-> reason, path |-> "", detail |-> "", remediation |-> ""]
AbsentRow(field, why) ==
  [field |-> field, value |-> "", status |-> why.kind, reason |-> why.words, path |-> why.path,
   detail |-> why.detail, remediation |-> why.remediation]
NotRecorded(field) == Row(field, "", "absent", "not recorded")
Item(field, i) == field \o <<"[", ToString(i - 1)>>

RECURSIVE Flatten(_, _)
Flatten(field, node) ==
  CASE node.kind = "null" -> <<NotRecorded(field)>>
    [] node.kind = "absence" -> <<AbsentRow(field, node.why)>>
    [] node.kind = "array" /\ node.members = <<>> -> <<Row(field, "", "empty", "no items")>>
    [] node.kind = "object" /\ node.members = <<>> -> <<Row(field, "", "empty", "no members")>>
    [] node.kind = "array" -> FlattenSeq([i \in DOMAIN node.members |-> Flatten(Item(field, i), node.members[i][2])])
    [] node.kind = "object" ->
         FlattenSeq([i \in DOMAIN node.members |-> Flatten(Append(field, node.members[i][1]), node.members[i][2])])
    [] OTHER -> <<Row(field, node.text, "present", "")>>
ToCsv(node) == [version |-> node.members[1][2].text, rows |-> Flatten(<<>>, node)]

(* reporters/json.  A member's name is a key and what is put behind it; an *)
(* absent member is null, and its reason the member that follows it.       *)
Json(is, text, members) == [is |-> is, text |-> text, members |-> members]
WhyKeys == <<"kind", "words", "path", "detail", "remediation">>
WriteAbsence(why) ==
  Json("object", "", [i \in DOMAIN WhyKeys |-> <<<<WhyKeys[i], "">>, Json("string", why[WhyKeys[i]], <<>>)>>])
Unsaid(key, why) == <<<<<<key, "">>, Json("null", "", <<>>)>>>>
Unavailable(key, why) ==
  <<<<<<key, "">>, Json("null", "", <<>>)>>, <<<<key, "_unavailable">>, WriteAbsence(why)>>>>

RECURSIVE WriteNode(_)
WriteNode(node) ==
  LET Member(member) ==
        IF member[2].kind = "absence" THEN Unavailable(member[1], member[2].why)
        ELSE <<<<<<member[1], "">>, WriteNode(member[2])>>>>
  IN CASE node.kind = "null" -> Json("null", "", <<>>)
       [] node.kind = "text" -> Json("string", node.text, <<>>)
       [] node.kind = "bool" -> Json("word", node.text, <<>>)
       [] node.kind = "absence" -> WriteAbsence(node.why)
       [] node.kind = "array" ->
            Json("array", "", [i \in DOMAIN node.members |-> <<<<"", "">>, WriteNode(node.members[i][2])>>])
       [] node.kind = "object" ->
            Json("object", "", FlattenSeq([i \in DOMAIN node.members |-> Member(node.members[i])]))
       [] OTHER -> Json("number", node.text, <<>>)

-----------------------------------------------------------------------------
(* A report becomes a result, the result a tree, the tree the two formats. *)
DocumentInit == (\E i \in DOMAIN Reports : input \in Reports[i]) /\ result = <<>> /\ tree = <<>> /\ written = <<>>
Assemble ==
  /\ result = <<>>
  /\ result' = [i \in {1, 2} |-> AssembleResult(input[i])]
  /\ UNCHANGED <<input, tree, written>>
Known(i) == result[i].verdict # "none"
Draw ==
  /\ result # <<>> /\ tree = <<>> /\ Known(1) /\ Known(2)
  /\ tree' = [i \in {1, 2} |-> ToDocument(result[i])]
  /\ UNCHANGED <<input, result, written>>
Write ==
  /\ tree # <<>> /\ written = <<>>
  /\ written' = [i \in {1, 2} |-> [csv |-> ToCsv(tree[i]), json |-> WriteNode(tree[i])]]
  /\ UNCHANGED <<input, result, tree>>
Ended == (written # <<>> \/ (result # <<>> /\ ~(Known(1) /\ Known(2)))) /\ UNCHANGED docVars
DocumentNext == Assemble \/ Draw \/ Write \/ Ended

-----------------------------------------------------------------------------
(* What a reader makes of the JSON: the rows a table of it would have.     *)
NameIn(members, name) == \E i \in DOMAIN members : members[i][1] = name
ReasonOf(members, key) ==
  LET at == CHOOSE i \in DOMAIN members : members[i][1] = <<key, "_unavailable">>
      why == members[at][2].members
  IN [k \in {why[i][1][1] : i \in DOMAIN why} |-> why[CHOOSE i \in DOMAIN why : why[i][1][1] = k][2].text]
RECURSIVE ReadJson(_, _)
ReadJson(field, json) ==
  LET Member(member) ==
        CASE member[1][2] # "" -> <<>>
          [] NameIn(json.members, <<member[1][1], "_unavailable">>) ->
               <<AbsentRow(Append(field, member[1][1]), ReasonOf(json.members, member[1][1]))>>
          [] OTHER -> ReadJson(Append(field, member[1][1]), member[2])
  IN CASE json.is = "null" -> <<NotRecorded(field)>>
       [] json.is = "array" /\ json.members = <<>> -> <<Row(field, "", "empty", "no items")>>
       [] json.is = "object" /\ json.members = <<>> -> <<Row(field, "", "empty", "no members")>>
       [] json.is = "array" -> FlattenSeq([i \in DOMAIN json.members |-> ReadJson(Item(field, i), json.members[i][2])])
       [] json.is = "object" -> FlattenSeq([i \in DOMAIN json.members |-> Member(json.members[i])])
       [] OTHER -> <<Row(field, json.text, "present", "")>>
RECURSIVE JsonIsValid(_)
JsonIsValid(json) ==
  /\ json.is = "number" => json.text \notin NonFinite
  /\ json.is = "object" => IsInjective([i \in DOMAIN json.members |-> json.members[i][1]])
  /\ \A i \in DOMAIN json.members : JsonIsValid(json.members[i][2])

(* The two formats say the same: what a reader makes of the JSON are the   *)
(* rows of the CSV, every reading that was not there with its reason, no   *)
(* place is taken twice, and no number is written that JSON has not.       *)
FormatsAgree ==
  \A i \in DOMAIN written :
    /\ ReadJson(<<>>, written[i].json) = written[i].csv.rows
    /\ IsInjective([j \in DOMAIN written[i].csv.rows |-> written[i].csv.rows[j].field])
    /\ JsonIsValid(written[i].json)

(* Two runs of which one thing that a run records was different are never  *)
(* written down alike, in either format: nothing is summarised away, and   *)
(* what is absent is not what is zero, empty or not a number.              *)
NothingIsLost == written # <<>> => written[1].csv # written[2].csv /\ written[1].json # written[2].json

(* The result calls a run clean only if workers verified, none of them     *)
(* found or missed a check, all of them completed, and no error counter    *)
(* moved or was not read; a run whose telemetry cannot be summed has no    *)
(* result.  The fields it calls absent are those that are.                 *)
Verified(report) ==
  /\ \E i \in DOMAIN report.workers : HasWork(report.workers[i])
  /\ \A i \in DOMAIN report.workers :
       LET worker == report.workers[i] IN
       /\ IsClean(worker.fate)
       /\ HasWork(worker) =>
            worker.findings = <<>> /\ worker.tally.oracle_blocks > 0 /\ worker.tally.integrity_checked > 0
Quiet(report) ==
  report.rounds > 0 => \A i \in DOMAIN report.signature.metrics :
    LET m == report.signature.metrics[i] IN
    m.metric.name[2] \in {"edac.corrected", "edac.uncorrected"} =>
      m.unavailable_samples = U(0) /\ (m.summary.type = "counter" => m.summary.value.delta = U(0))
AbsentNames(rows) ==
  {rows[j].value : j \in {k \in DOMAIN rows : Len(rows[k].field) > 2 /\ SubSeq(rows[k].field, 1, 2) = <<"fingerprint", "absent_fields">>}}
ResultIsTrue ==
  \A i \in DOMAIN result :
    /\ result[i].verdict = "clean" => Verified(input[i]) /\ Quiet(input[i])
    /\ (result[i].verdict = "none") = (input[i].rounds > 0 /\ input[i].unsummed)
    /\ written # <<>> =>
         LET rows == written[i].csv.rows IN
         AbsentNames(rows) \ {""} =
           {rows[j].field[2] : j \in {k \in DOMAIN rows : /\ Len(rows[k].field) = 2 /\ rows[k].field[1] = "fingerprint"
                                                         /\ rows[k].status = "absent"}}
DocumentIsTrue == FormatsAgree /\ NothingIsLost /\ ResultIsTrue

-----------------------------------------------------------------------------
(* utf8_sequence_length: for a range of lead bytes, how many bytes it is   *)
(* of and the range of the second; the others are 128 .. 191.              *)
Forms ==
  <<[lead |-> 194 .. 223, length |-> 2, second |-> 128 .. 191],
    [lead |-> {224},      length |-> 3, second |-> 160 .. 191],
    [lead |-> 225 .. 236, length |-> 3, second |-> 128 .. 191],
    [lead |-> {237},      length |-> 3, second |-> 128 .. 159],
    [lead |-> 238 .. 239, length |-> 3, second |-> 128 .. 191],
    [lead |-> {240},      length |-> 4, second |-> 144 .. 191],
    [lead |-> 241 .. 244, length |-> 4, second |-> 128 .. 191]>>
AnySecond(form, lead) == form.second
Second(form, lead) == IF lead = 244 THEN 128 .. 143 ELSE form.second
Utf8Length(text) ==
  LET forms == {Forms[i] : i \in {j \in DOMAIN Forms : text[1] \in Forms[j].lead}} IN
  IF text[1] < 128 THEN 1
  ELSE IF \E form \in forms :
            /\ Len(text) >= form.length /\ text[2] \in Second(form, text[1])
            /\ \A i \in 3 .. form.length : text[i] \in 128 .. 191
  THEN (CHOOSE form \in forms : TRUE).length
  ELSE 0

(* json_string: a quote, a backslash and the three short escapes; \u00 and *)
(* two digits; what is UTF-8 as it is; U+FFFD for a byte that is not.      *)
HexDigit(n) == IF n < 10 THEN 48 + n ELSE 87 + n
Short == (34 :> <<92, 34>>) @@ (92 :> <<92, 92>>) @@ (10 :> <<92, 110>>) @@ (13 :> <<92, 114>>) @@ (9 :> <<92, 116>>)
Replacement == <<92, 117, 102, 102, 102, 100>>
RECURSIVE Escaped(_)
Escaped(text) ==
  IF text = <<>> THEN <<>>
  ELSE LET byte == text[1]
           length == Utf8Length(text)
       IN CASE byte \in DOMAIN Short -> Short[byte] \o Escaped(Tail(text))
            [] byte < 32 \/ byte = 127 -> <<92, 117, 48, 48, HexDigit(byte \div 16), HexDigit(byte % 16)>> \o Escaped(Tail(text))
            [] length = 0 -> Replacement \o Escaped(Tail(text))
            [] OTHER -> SubSeq(text, 1, length) \o Escaped(SubSeq(text, length + 1, Len(text)))
JsonString(text) == <<34>> \o Escaped(text) \o <<34>>

(* csv_field: quoted if it holds one of these, its quotes doubled.         *)
Doubled(text) == FlattenSeq([i \in DOMAIN text |-> IF text[i] = "quote" THEN <<"quote", "quote">> ELSE <<text[i]>>])
CsvField(text) ==
  IF \A i \in DOMAIN text : text[i] \notin {"comma", "quote", "cr", "lf"} THEN text
  ELSE <<"quote">> \o Doubled(text) \o <<"quote">>
AppendRow(cells) == CsvField(cells[1]) \o <<"comma">> \o CsvField(cells[2]) \o <<"cr", "lf">>

(* One text is quoted for one of the formats.                              *)
TextsInit ==
  /\ \/ tree = "json" /\ input \in Texts
     \/ tree = "csv" /\ input \in Cells
  /\ result = <<>> /\ written = <<>>
Quote ==
  /\ written = <<>>
  /\ written' = IF tree = "json" THEN JsonString(input) ELSE AppendRow(input)
  /\ UNCHANGED <<input, result, tree>>
Quoted == written # <<>> /\ UNCHANGED docVars
TextsNext == Quote \/ Quoted

-----------------------------------------------------------------------------
(* Reference: the character the first n bytes are, by its number.          *)
Bits(text, n) ==
  CASE n = 1 -> text[1]
    [] n = 2 -> (text[1] - 192) * 64 + (text[2] - 128)
    [] n = 3 -> ((text[1] - 224) * 64 + (text[2] - 128)) * 64 + (text[3] - 128)
    [] n = 4 -> (((text[1] - 240) * 64 + (text[2] - 128)) * 64 + (text[3] - 128)) * 64 + (text[4] - 128)
Leads(n) == CASE n = 1 -> 0 .. 127 [] n = 2 -> 192 .. 223 [] n = 3 -> 224 .. 239 [] n = 4 -> 240 .. 247
Characters(n) ==
  CASE n = 1 -> 0 .. 127 [] n = 2 -> 128 .. 2047 [] n = 3 -> (2048 .. 65535) \ (55296 .. 57343) [] n = 4 -> 65536 .. 1114111
IsCharacter(text, n) ==
  /\ n <= Len(text) /\ text[1] \in Leads(n) /\ \A i \in 2 .. n : text[i] \in 128 .. 191
  /\ Bits(text, n) \in Characters(n)
RECURSIVE Read(_)
Read(text) ==
  IF text = <<>> THEN <<>>
  ELSE IF \E n \in 1 .. 4 : IsCharacter(text, n)
  THEN LET n == CHOOSE m \in 1 .. 4 : IsCharacter(text, m)
       IN <<Bits(text, n)>> \o Read(SubSeq(text, n + 1, Len(text)))
  ELSE <<65533>> \o Read(Tail(text))
(* Reference: the characters of what is between the quotes of a literal;   *)
(* -1 where it is not UTF-8.                                               *)
HexValue(digit) == IF digit < 58 THEN digit - 48 ELSE digit - 87
RECURSIVE ReadLiteral(_)
ReadLiteral(text) ==
  CASE text = <<>> -> <<>>
    [] text[1] = 92 /\ text[2] = 117 ->
         <<((HexValue(text[3]) * 16 + HexValue(text[4])) * 16 + HexValue(text[5])) * 16 + HexValue(text[6])>>
         \o ReadLiteral(SubSeq(text, 7, Len(text)))
    [] text[1] = 92 /\ text[2] # 117 ->
         <<CHOOSE byte \in DOMAIN Short : Short[byte] = SubSeq(text, 1, 2)>> \o ReadLiteral(SubSeq(text, 3, Len(text)))
    [] \A n \in 1 .. 4 : ~IsCharacter(text, n) -> <<-1>>
    [] OTHER -> LET n == CHOOSE m \in 1 .. 4 : IsCharacter(text, m)
                IN <<Bits(text, n)>> \o ReadLiteral(SubSeq(text, n + 1, Len(text)))
(* Reference: the cells of a record, by the rules of RFC 4180.             *)
RECURSIVE ReadCells(_, _, _, _)
ReadCells(text, quoted, cell, cells) ==
  CASE text = <<>> -> <<"torn">>
    [] quoted /\ text[1] = "quote" /\ Len(text) > 1 /\ text[2] = "quote" ->
         ReadCells(SubSeq(text, 3, Len(text)), TRUE, Append(cell, "quote"), cells)
    [] text[1] = "quote" -> ReadCells(Tail(text), ~quoted, cell, cells)
    [] quoted -> ReadCells(Tail(text), TRUE, Append(cell, text[1]), cells)
    [] text[1] = "comma" -> ReadCells(Tail(text), FALSE, <<>>, Append(cells, cell))
    [] text[1] \in {"cr", "lf"} -> Append(cells, cell)
    [] OTHER -> ReadCells(Tail(text), FALSE, Append(cell, text[1]), cells)

(* Whatever bytes a driver wrote, the string is one of valid UTF-8 with no *)
(* quote or control character in it, and is read as those bytes, every one *)
(* that is no part of a character as U+FFFD; and the cells of a record are *)
(* read as they were.                                                      *)
TextsAreExact ==
  written # <<>> =>
    /\ tree = "json" =>
         LET inside == SubSeq(written, 2, Len(written) - 1) IN
         /\ \A i \in DOMAIN inside : inside[i] >= 32 /\ inside[i] # 127
         /\ \A i \in DOMAIN inside : inside[i] = 34 => i > 1 /\ inside[i - 1] = 92
         /\ ReadLiteral(inside) = Read(input)
    /\ tree = "csv" => ReadCells(written, FALSE, <<>>, <<>>) = input
=============================================================================
