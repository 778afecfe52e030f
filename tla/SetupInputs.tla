---------------------------- MODULE SetupInputs ----------------------------
(***************************************************************************)
(* What a run may be asked for, in the bounds of the model: schedules and  *)
(* plans, configuration files, command lines; and what it may come to.  A  *)
(* family of inputs is one that works with one or two of its parts made    *)
(* odd in every way.                                                       *)
(***************************************************************************)
EXTENDS Integers, Sequences, TLC

(* Plans: mixed and cycling runs, and the workers of a configuration.      *)
NoBudget == [available |-> -1, limit |-> -1]
Budgets == {NoBudget, [available |-> 7, limit |-> -1], [available |-> 9, limit |-> 6]}
Mix == [kind |-> "mixed", workers |-> 2, duration |-> 5, interval |-> 1, footprint |-> 4, memory |-> -1,
        cpus |-> <<0, 1, 2>>, registry |-> <<"fft", "sort", "lz">>, accepts |-> [fft |-> 1, sort |-> 3, lz |-> 9],
        draws |-> [i \in 0 .. 7 |-> 0], halves |-> {}, budget |-> NoBudget, limit |-> -1]
Mixed ==
  {[Mix EXCEPT !.draws = [i \in 0 .. 7 |-> (i * d) % 3], !.halves = h, !.budget = m, !.cpus = cpus, !.workers = w,
               !.accepts.lz = least, !.limit = l] :
     d \in 0 .. 2, h \in SUBSET {<<0, 0>>, <<1, 1>>, <<2, 0>>, <<4, 1>>}, m \in Budgets,
     cpus \in {<<>>, <<0, 1>>, <<3, 4, 5>>}, w \in {1, 2, 3}, least \in {2, 9}, l \in {-1, 5}}
  \cup {[Mix EXCEPT !.duration = d, !.interval = i, !.footprint = f, !.workers = w, !.registry = r] :
     d \in {0, 1, 3, 7}, i \in {-1, 0, 1, 2}, f \in {0, 1, 4}, w \in {0, 2}, r \in {<<"lz">>, <<"sort", "fft">>}}
Cycling ==
  {[Mix EXCEPT !.kind = k, !.workers = w, !.duration = d, !.interval = i, !.memory = m, !.budget = all] :
     k \in {"load", "cores"}, w \in 0 .. 3, d \in {0, 1, 6, 7}, i \in {-1, 1, 2}, m \in {-1, 2}, all \in Budgets}
Memories == {[bytes |-> -1, percent |-> -1], [bytes |-> 3, percent |-> -1], [bytes |-> 0, percent |-> 50]}
Isas == {{"scalar"}, {"scalar", "avx2"}, {"scalar", "avx2", "avx512"}}
Entries == [known : {TRUE}, threads : {"all", "two"}, memory : Memories, paths : Isas, least : {1, 3}] \cup
           [known : {FALSE}, threads : {"two"}, memory : {[bytes |-> -1, percent |-> -1]}, paths : {{"scalar"}}, least : {1}]
First == {e \in Entries : e.paths = {"scalar", "avx2"} /\ e.least = 1 /\ e.memory.percent = -1}
Planned ==
  {[kind |-> "plan", entries |-> <<e, f>>, cpus |-> cpus, isa |-> i, supported |-> s, compiled |-> {"scalar", "avx2", "avx512"},
    line |-> 64, footprint |-> 2, budget |-> all] :
     e \in First, f \in Entries, cpus \in {<<>>, <<0>>, <<0, 1, 2>>, <<0, 1, 2, 3, 4>>}, i \in {"none", "avx2", "scalar"}, s \in Isas,
     all \in {NoBudget, [available |-> 4, limit |-> -1], [available |-> 9, limit |-> 2]}}
  \cup {[kind |-> "plan", entries |-> <<e>>, cpus |-> <<0, 1>>, isa |-> "none", supported |-> {"scalar"},
         compiled |-> {"scalar"}, line |-> 0, footprint |-> 2, budget |-> NoBudget] : e \in Entries}
-----------------------------------------------------------------------------
(* Texts and TOML nodes (Config).                                          *)
W(word) == [kind |-> "word", value |-> 0, suffix |-> word]
N(number, unit) == [kind |-> "number", value |-> number, suffix |-> unit]
Negative == [kind |-> "negative", value |-> 1, suffix |-> "s"]
Nothing == [kind |-> "empty", value |-> 0, suffix |-> ""]
TextNode(words) == [type |-> "string", number |-> 0, text |-> words]
OtherNode(type, number) == [type |-> type, number |-> number, text |-> Nothing]
NoNode == OtherNode("absent", 0)
WholeNode(number) == OtherNode("integer", number)
Flag(number) == OtherNode("boolean", number)

OneRun == [type |-> "table", extra |-> FALSE, mode |-> TextNode(W("stress")), duration |-> TextNode(N(2, "s"))]
OneLimits == [type |-> "table", extra |-> FALSE, celsius |-> WholeNode(2), memory |-> TextNode(N(3, "KiB"))]
OneWorkload == [type |-> "table", extra |-> FALSE, name |-> TextNode(W("sort")), threads |-> WholeNode(1),
                enabled |-> Flag(1), memory |-> NoNode]
OneDocument == [extra |-> FALSE, schema |-> WholeNode(1), run |-> OneRun, limits |-> OneLimits,
                workload |-> [type |-> "array", items |-> <<OneWorkload>>]]
OddTimes == {TextNode(N(n, u)) : n \in {0, 1, 3, 15, 16, 64, 300, 513}, u \in {"", "ms", "s", "m", "h", "d"}}
            \cup {NoNode, WholeNode(3), TextNode(Negative), TextNode(Nothing), TextNode(W("x"))}
OddSizes == {TextNode(N(n, u)) : n \in {0, 1, 3, 33, 100, 101, 513}, u \in {"", "%", "B", "KiB", "TiB", "kB"}}
            \cup {NoNode, WholeNode(3), TextNode(Negative)}
OddRuns ==
  [type : {"table"}, extra : BOOLEAN, mode : {OneRun.mode, TextNode(W("idle")), NoNode, WholeNode(1)}, duration : OddTimes]
  \cup {[OneRun EXCEPT !.type = type] : type \in {"absent", "string"}}
OddLimits ==
  [type : {"table"}, extra : BOOLEAN, celsius : {NoNode, Flag(1)} \cup {WholeNode(n) : n \in {0, 1, 4, 5}}, memory : OddSizes]
  \cup {[OneLimits EXCEPT !.type = "absent", !.celsius = NoNode, !.memory = NoNode], [OneLimits EXCEPT !.type = "string"]}
OddWorkloads ==
  [type : {"table"}, extra : BOOLEAN, name : {OneWorkload.name, NoNode, WholeNode(1), TextNode(Nothing)},
   threads : {NoNode, Flag(1), TextNode(W("all")), TextNode(W("x"))} \cup {WholeNode(n) : n \in {0, 1, 3, 4}},
   enabled : {NoNode, Flag(0), Flag(1), WholeNode(1)},
   memory : {NoNode, TextNode(N(0, "B")), TextNode(N(3, "MiB")), TextNode(N(50, "%")), WholeNode(1)}]
  \cup {[OneWorkload EXCEPT !.type = "integer"]}
Documents ==
  <<{[OneDocument EXCEPT !.run = r, !.limits.extra = e] : r \in OddRuns, e \in BOOLEAN},
    {[OneDocument EXCEPT !.limits = l, !.workload.items = w] : l \in OddLimits, w \in {<<>>, <<OneWorkload>>}},
    {[OneDocument EXCEPT !.workload.items = <<w>>] : w \in OddWorkloads},
    {[OneDocument EXCEPT !.workload.items = <<OneWorkload, w>>] : w \in OddWorkloads},
    {[OneDocument EXCEPT !.extra = e, !.schema = v, !.workload.type = t] :
       e \in BOOLEAN, v \in {NoNode, WholeNode(1), WholeNode(2), TextNode(Nothing)}, t \in {"absent", "table", "array"}}>>
Files ==
  <<[is : {"missing", "directory", "malformed"}, size : 0 .. 4, document : {OneDocument}],
    [is : {"whole"}, size : 1 .. 5, document : {OneDocument}]>>
  \o [i \in DOMAIN Documents |-> [is : {"whole"}, size : {4}, document : Documents[i]]]

-----------------------------------------------------------------------------
(* Command lines (Options).                                                *)
Objectives ==
  LET objective(parts, named, index, statistic, direction) ==
        [parts |-> parts, named |-> named, metric |-> "t", index |-> index, statistic |-> statistic, direction |-> direction]
  IN [o1 |-> objective(3, 1, Nothing, "mean", "higher"), o2 |-> objective(3, 2, N(1, ""), "rate", "lower"),
      o3 |-> objective(3, 2, N(4, ""), "mean", "lower"), o4 |-> objective(2, 1, Nothing, "mean", "")]
Candidates ==
  LET candidate(parts, workloads, threads, cpus) ==
        [parts |-> parts, id |-> "id", workloads |-> workloads, threads |-> N(threads, ""), cpus |-> cpus]
  IN [c1 |-> candidate(3, <<"sort", "fft">>, 3, <<>>), c2 |-> candidate(4, <<"sort">>, 1, <<0>>),
      c3 |-> candidate(4, <<"sort">>, 1, <<>>), c4 |-> candidate(3, <<"sort">>, 4, <<>>), c5 |-> candidate(3, <<"">>, 1, <<>>)]
Lists == ("json" :> <<"json">>) @@ ("json,csv" :> <<"json", "csv">>) @@ ("csv,csv" :> <<"csv", "csv">>) @@ ("xml" :> <<"xml">>)
OneMachine == [resolves |-> TRUE, described |-> TRUE, found |-> <<0, 1, 2>>, permitted |-> {-1}]
Machines == {[OneMachine EXCEPT !.resolves = r, !.described = d, !.permitted = p] :
               r \in BOOLEAN, d \in BOOLEAN, p \in {{-1}, {1}, {}}}

Option(key, values) == {<<W(key), v>> : v \in values}
TestOptions == UNION {
  Option("--duration", {N(2, "s"), N(0, "s"), N(63, "s"), N(64, "s"), W("x")}), Option("--workers", {N(1, ""), N(0, ""), N(2, "s")}),
  Option("--footprint", {N(3, "KiB"), N(50, "%"), N(0, "B"), Nothing}), Option("--isa", {W("avx2"), W("sse")}),
  Option("--lock", {W("try"), W("x")}), Option("--seed", {N(3, ""), Negative}),
  Option("--output", {W("json"), W("json,csv"), W("csv,csv"), W("xml"), N(1, "")}), Option("--output-dir", {W("d")}),
  Option("--journal", {W("j")}), Option("--sample-interval", {N(n, "ms") : n \in {0, 1, 15, 16}}),
  Option("--max-temperature", {N(n, "") : n \in {0, 1, 4, 5}}), Option("--rotation", {N(1, "s"), N(0, "s")}),
  Option("--dwell", {N(1, "s")}), Option("--cycle", {W("load"), W("all")}), Option("--workload", {W("fft"), W("x")}),
  {<<W("--config")>>, <<W("--duration")>>}}
ExploreOptions == UNION {
  Option("--objective", {W("o1"), W("o2"), W("o3"), W("o4")}), Option("--candidate", {W("c1"), W("c2"), W("c3"), W("c4"), W("c5")}),
  Option("--reference", {W("c2"), W("x")}), Option("--duration", {N(1, "s"), N(5, "ms"), N(15, "ms"), N(0, "s")}),
  Option("--settle", {W("m")}), Option("--settle-slope", {N(1, ""), Negative}), Option("--settle-window", {N(1, "s"), N(9, "ms")}),
  Option("--settle-max", {N(3, "ms"), N(15, "ms"), N(16, "ms")}), Option("--replicates", {N(1, ""), N(0, "")}),
  Option("--final-replicates", {N(2, "")}), Option("--interleave", {N(0, "")}), Option("--reference-replicates", {N(2, "")}),
  Option("--elimination", {N(3, ""), N(4, "")}), Option("--seed", {N(3, "")}), Option("--footprint", {N(3, "B"), N(50, "%")}),
  Option("--isa", {W("neon")}), Option("--lock", {W("none")}), Option("--sample-interval", {N(1, "ms"), N(7, "ms")}),
  Option("--max-temperature", {N(4, ""), N(5, "")}), {<<W("--verbose")>>, <<W("--seed")>>}}
StressOptions == UNION {
  Option("--config", {W("f")}), Option("--output", {W("json"), W("xml")}), Option("--output-dir", {W("d")}),
  Option("--sample-interval", {N(1, "ms"), N(0, "ms")}), Option("--journal", {W("j")}), {<<W("--config")>>, <<W("--test"), W("x")>>}}
SelftestOptions == UNION {
  Option("--isa", {W("avx2"), W("x")}), Option("--footprint", {N(3, "B"), N(2, "B"), N(50, "%"), W("x")}),
  Option("--seed", {N(1, ""), W("x")}), {<<W("--verbose")>>, <<W("--isa")>>, <<W("--config")>>}}
UpToTwo(options) == {<<>>} \cup {<<one>> : one \in options} \cup {<<one, two>> : one \in options, two \in options}

Line(head, options, machine, document) == [head |-> head, options |-> options, machine |-> machine, document |-> document]
Plain(head, options) == Line(head, options, OneMachine, OneDocument)
Tests == {<<W("stress"), W("--test"), W(name)>> : name \in {"sort", "mixed", "cycling", "x"}}
Search == <<<<W("--objective"), W("o1")>>, <<W("--candidate"), W("c1")>>>>
Others == {<<>>, <<W("x")>>, <<W("--help")>>, <<W("--help"), W("x")>>, <<W("--worker")>>, <<W("--rerun"), W("x")>>,
           <<W("--check-config")>>, <<W("--check-config"), W("f")>>, <<W("journal")>>, <<W("journal"), W("f")>>,
           <<W("stress"), W("--test")>>}
CommandLines ==
  <<{Plain(test, o) : test \in Tests, o \in UpToTwo(TestOptions)},
    {Line(test, <<>>, m, OneDocument) : test \in Tests, m \in Machines},
    {Line(<<W("stress")>>, o, OneMachine, d) :
       o \in UpToTwo(StressOptions), d \in {OneDocument, [OneDocument EXCEPT !.run.mode = TextNode(W("explore"))]}},
    {Plain(<<W("explore")>>, Search \o o) : o \in UpToTwo(ExploreOptions)},
    {Plain(<<W("explore")>>, o) : o \in UpToTwo(ExploreOptions)},
    {Line(<<W("explore")>>, Search, m, OneDocument) : m \in Machines},
    {Plain(<<W("explore")>>, <<Search[2], <<W("--objective"), W("o2")>>, d, i>>) :
       d \in Option("--duration", {N(5, "ms"), N(6, "ms")}), i \in Option("--sample-interval", {N(2, "ms"), N(3, "ms")})},
    {Plain(<<W("selftest")>>, o) : o \in UpToTwo(SelftestOptions)},
    {Line(other, <<>>, OneMachine, d) : other \in Others, d \in {OneDocument, [OneDocument EXCEPT !.extra = TRUE]}}>>
-----------------------------------------------------------------------------
(* What the processes of a run are told (Argv).                            *)
CpuLists == ("0" :> <<N(0, "")>>) @@ ("2,0" :> <<N(2, ""), N(0, "")>>) @@ ("1,4" :> <<N(1, ""), N(4, "")>>) @@ ("1," :> <<N(1, ""), Nothing>>)
OneWork == [workload |-> "sort", seed |-> 511, footprint |-> 3, threads |-> 2, decomposition |-> 3, isa |-> "avx2", lock |-> "try", line |-> 8,
            oracle |-> 3, integrity |-> 0, package |-> 0, core |-> 1, node |-> -1]
OneWorker == [slot |-> 0, workers |-> 2, heartbeat |-> 3, records |-> 4, control |-> 5, supervisor |-> 1,
              duration |-> 8, interval |-> 4, stale |-> 12, cpus |-> <<2, 0>>, work |-> <<OneWork>>]
OneFinding == [workload |-> "sort", planned |-> "sort", seed |-> 5, footprint |-> 3, threads |-> 1, decomposition |-> 2, isa |-> "scalar",
               lock |-> "none", line |-> 16, version |-> 1, iteration |-> 500, cpu |-> 3]
Ids == {-1, 0, 3}
WordsSent ==
  LET pair(key, value) == <<W(key), value>> IN
  <<pair("--slot", N(1, "")), pair("--workers", N(2, "")), pair("--heartbeat-fd", N(3, "")), pair("--record-fd", N(4, "")),
    pair("--control-fd", N(5, "")), pair("--supervisor-pid", N(1, "")), pair("--duration-ms", N(63, "")), pair("--interval-ms", N(2, "")),
    pair("--stale-after-ms", N(2, "")), pair("--cpus", W("2,0")), pair("--workload", W("sort")), pair("--seed", N(511, "")),
    pair("--footprint-bytes", N(1, "")), pair("--threads", N(2, "")), pair("--decomposition", N(0, "")), pair("--isa", W("neon")),
    pair("--lock", W("require")), pair("--line-bytes", N(8, "")), pair("--oracle-period", N(0, "")), pair("--integrity-period", N(3, "")),
    pair("--numa-node", N(3, ""))>>
OddWords == {N(n, "") : n \in {0, 1, 2, 3, 4, 5, 6, 8, 12, 16, 32, 63, 64, 511, 512}} \cup {N(1, "s"), Negative, Nothing, W("1,4"), W("1,"), W("x"), W("Sort")}
Without(words, gone) == [i \in DOMAIN words |-> IF i \in gone THEN <<>> ELSE words[i]]
Sent ==
  <<{[is |-> "worker", args |-> [OneWorker EXCEPT !.duration = d, !.interval = i, !.stale = s]] : d \in {1, 4, 7, 252}, i \in {4, 5}, s \in {4, 5, 9}},
    {[is |-> "worker", args |-> [OneWorker EXCEPT !.slot = s, !.cpus = cpus, !.work = w]] :
       s \in {0, 1}, cpus \in {<<>>, <<0>>, <<2, 0>>},
       w \in {<<>>} \cup {<<[OneWork EXCEPT !.package = p, !.core = k, !.node = n]>> : p \in Ids, k \in Ids, n \in Ids}},
    {[is |-> "worker", args |-> [OneWorker EXCEPT !.work[1].threads = t, !.work[1].footprint = f, !.work[1].line = l, !.work[1].oracle = o]] :
       t \in 1 .. 3, f \in {0, 1, 511}, l \in {4, 8, 12, 16, 32}, o \in {0, 3}},
    {[is |-> "rerun", args |-> f] : f \in
       {[OneFinding EXCEPT !.seed = s, !.decomposition = d, !.isa = i, !.threads = t] : s \in {-1, 511}, d \in {-1, 3}, i \in {"", "avx2"}, t \in 0 .. 2}
       \cup {[OneFinding EXCEPT !.version = v, !.iteration = k, !.footprint = f, !.workload = w, !.lock = l] :
              v \in {-1, 0, 3}, k \in {-1, 511}, f \in {-1, 1}, w \in {"", "sort", "fft"}, l \in {"require", "try"}}},
    {[is |-> "words", args |-> [WordsSent EXCEPT ![i] = <<@[1], v>>]] : i \in DOMAIN WordsSent, v \in OddWords},
    {[is |-> "words", args |-> Append(WordsSent, extra)] :
       extra \in {WordsSent[i] : i \in DOMAIN WordsSent} \cup {<<W("--cpu"), N(1, "")>>, <<W("--slot")>>, <<W("--physical-core")>>}},
    {[is |-> "words", args |-> Without(WordsSent, {i, j})] : i \in DOMAIN WordsSent, j \in DOMAIN WordsSent},
    {[is |-> "words", args |-> Without(WordsSent, (11 .. 21) \ keep)] : keep \in {{}, {11}, {12}, {21}}}>>
-----------------------------------------------------------------------------
(* What is written and read back (Codec): bytes of three bits.             *)
Unknown == [logical_cpu |-> <<>>, physical_core |-> <<>>, numa_node |-> <<>>, buffer_address |-> <<>>, buffer_offset |-> <<>>,
            iteration |-> <<>>, workload |-> <<>>, workload_version |-> <<>>, seed |-> <<>>, isa |-> <<>>, input_integrity |-> <<>>,
            duty |-> <<>>, physical_package |-> <<>>, decomposition |-> <<>>, footprint_bytes |-> <<>>]
Known == [logical_cpu |-> <<3>>, physical_core |-> <<9>>, numa_node |-> <<1>>, buffer_address |-> <<511>>, buffer_offset |-> <<8>>,
          iteration |-> <<70>>, workload |-> <<<<1, 2>>>>, workload_version |-> <<2>>, seed |-> <<0>>, isa |-> <<1>>,
          input_integrity |-> <<3>>, duty |-> <<<<1, 4>>>>, physical_package |-> <<10>>, decomposition |-> <<63>>, footprint_bytes |-> <<64>>]
OneDifference == [domain |-> 0, first_offset |-> 3, last_offset |-> 4, popcount |-> 2, window_offset |-> 2, expected |-> <<0, 1, 2>>,
                  actual |-> <<0, 2, 3>>]
Exact(provenance, side, check, line, difference) ==
  [is |-> "record", value |-> [kind |-> 1, fields |-> provenance @@
     [side |-> side, check |-> check, line_bytes |-> line, difference |-> difference]]]
Numerical(provenance, check, residual, tolerance, condition, element) ==
  [is |-> "record", value |-> [kind |-> 2, fields |-> provenance @@
     [check |-> check, residual |-> residual, tolerance |-> tolerance, condition_number |-> condition, element |-> element]]]
Skipped(provenance, what, why) ==
  [is |-> "record", value |-> [kind |-> 3, fields |-> provenance @@ [what |-> what, why |-> why, blocks_compared |-> 5]]]
Texts == {<<>>, <<1>>, <<0, 2, 1>>, <<0, 2, 1, 7>>}
Command(kind, fields) == [is |-> "message", value |-> [kind |-> kind, fields |-> [sequence |-> 9] @@ fields]]
OneEntry == [elapsed_ns |-> 70, phase |-> <<2>>, workload |-> <<>>, optionals |-> <<<<>>, <<6>>>>, workers_alive |-> 2, workers_stale |-> 0]
JournalEntries == {OneEntry, [OneEntry EXCEPT !.elapsed_ns = 255, !.phase = <<1, 1>>, !.workload = <<2, 1>>, !.optionals = <<<<0>>, <<511>>>>],
            [OneEntry EXCEPT !.elapsed_ns = 0, !.phase = <<>>, !.workload = <<1>>, !.optionals = <<<<9>>, <<>>>>, !.workers_stale = 63],
            [OneEntry EXCEPT !.workload = <<1, 2, 1>>]}
Items ==
  <<{Exact(p, s, t, l, d) : p \in {Unknown, Known}, s \in {0, 2}, t \in {<<>>, <<0, 2, 1>>, <<0, 2, 1, 7>>}, l \in {1, 4, 6}, d \in {<<>>, <<OneDifference>>}},
    {Exact(Unknown, 1, <<1>>, 4, <<d>>) : d \in
       {[OneDifference EXCEPT !.domain = x, !.popcount = n, !.first_offset = f, !.last_offset = l] :
          x \in {1, 2}, n \in {0, 1}, f \in {2, 3, 4}, l \in {3, 4, 5}}
       \cup {[OneDifference EXCEPT !.window_offset = w, !.expected = e, !.actual = a] :
               w \in {2, 3}, e \in {<<>>, <<0, 1>>, <<0, 1, 2, 3>>, <<0, 1, 2, 3, 4>>}, a \in {<<>>, <<0, 2>>, <<0, 2, 2, 3>>, <<0, 3, 2, 3, 4>>}}},
    {Numerical(Unknown, t, r, o, n, e) : t \in {<<>>, <<0, 2, 1, 7>>}, r \in {0, 3, 4, 5, 6}, o \in {1, 2, 3, 5, 6}, n \in {<<>>, <<6>>}, e \in {<<>>, <<7>>}},
    {Skipped(Known, t, y) : t \in Texts, y \in Texts},
    {Skipped([Known EXCEPT !.workload = <<w>>, !.isa = i, !.input_integrity = g], <<1>>, <<>>) :
       w \in Texts, i \in {<<>>, <<0>>, <<3>>}, g \in {<<>>, <<4>>}},
    {Command(k, <<>>) : k \in 1 .. 3},
    {Command(4, [busy_permille |-> b, period_ns |-> n]) : b \in {0, 1, 10, 11}, n \in {0, 1, 255, 256}},
    {Command(5, [cpus |-> q]) : q \in {<<>>, <<0>>, <<15>>, <<16>>, <<1, 8>>, <<8, 8>>, <<8, 1>>}},
    {Command(6, [name |-> t, run_seed |-> 511, footprint |-> f, pieces |-> 3, oracle_period |-> 1, integrity_period |-> 0]) : t \in Texts, f \in {0, 64}},
    {[is |-> "ack", value |-> [kind |-> 7, fields |-> [sequence |-> 9, status |-> s, detail |-> t]]] : s \in 0 .. 2, t \in Texts},
    {[is |-> "memory", value |-> [policy |-> k, outcome |-> o, detail |-> t]] : k \in 0 .. 2, o \in 0 .. 2, t \in Texts},
    {[is |-> "tally", value |-> t] : t \in {[i \in 1 .. 7 |-> 0], [i \in 1 .. 7 |-> i * 64 + 5]}},
    {[is |-> "journal", value |-> [entries |-> e, closed |-> k]] :
       e \in {<<>>} \cup {<<x>> : x \in JournalEntries} \cup {<<x, y>> : x \in JournalEntries, y \in JournalEntries}, k \in BOOLEAN},
    {[is |-> "compare", value |-> [expected |-> [i \in 1 .. n |-> 1], actual |-> x, domain |-> 0,
        subject |-> [provenance |-> Unknown, side |-> 0, check |-> <<1>>, line_bytes |-> 4]]] : n \in {0, 2, 6},
        x \in UNION {[1 .. m -> {0, 1, 2}] : m \in {0, 1, 2, 6}}}>>
-----------------------------------------------------------------------------
(* Reports of two runs that differ in one thing (Document): two values for *)
(* one part of a report that is otherwise whole.                           *)
TextOf(text) == <<"text", text>>
Number(text) == <<"unsigned", text>>
Real(text) == <<"real", text>>
Untold == <<"none", "">>
Two(values) == UNION {{<<values[i], values[j]>> : i \in 1 .. (j - 1)} : j \in DOMAIN values}
Both(parts, keys, values) == {<<[parts EXCEPT ![k] = v[1]], [parts EXCEPT ![k] = v[2]]>> : k \in keys, v \in Two(values)}
Optional == <<Untold, TextOf("a"), TextOf("")>>
Reals == <<Real("1"), Real("2"), Real("nan"), Real("-inf")>>

Built == {"loadforge_version", "compiler", "flags"}
Told == {"git_commit", "cpu_model", "microcode", "kernel", "smt_enabled", "power_source", "battery_state", "cpufreq_governor",
         "energy_performance_preference", "platform_profile", "turbo_enabled", "cooling_profile",
         "cgroup_memory_limit_bytes", "huge_page_policy", "temperature_at_start_c", "isa_path"}
FpSet == [rounding |-> TextOf("nearest"), flush_to_zero |-> <<"bool", "false">>, denormals_are_zero |-> Untold,
          default_nan |-> <<"bool", "false">>]
Print0 == [k \in Built \cup Told \cup {"fp_environment"} |-> IF k = "fp_environment" THEN <<FpSet>> ELSE TextOf("a")]
Prints ==
  Both(Print0, Built, <<TextOf("a"), TextOf("b")>>) \cup Both(Print0, Told, Optional)
  \cup Both(Print0, {"fp_environment"}, <<<<>>, <<FpSet>>, <<[FpSet EXCEPT !.default_nan = Untold]>>>>)

Missing(kind) == [kind |-> kind, path |-> "/sys", detail |-> "EACCES", remediation |-> ""]
Gone == <<Missing("absent"), Missing("vanished"), Missing("denied"), Missing("malformed"), Missing("unreadable"),
          [Missing("absent") EXCEPT !.path = "/proc"], [Missing("absent") EXCEPT !.detail = ""],
          [Missing("absent") EXCEPT !.remediation = "run as root"]>>
Metric0 == [name |-> TextOf("thermal.core"), unit |-> TextOf("celsius"), kind |-> TextOf("gauge"), scope |-> TextOf("core"),
            scope_index |-> Number("0"), modulus |-> Untold, provider |-> TextOf("hwmon")]
Edac == [Metric0 EXCEPT !.name = TextOf("edac.corrected"), !.kind = TextOf("counter")]
Summed(type, value) == [type |-> type, why |-> Missing("absent"), value |-> value]
GaugeOf == [k \in {"samples", "min", "max", "mean", "stddev", "first", "last", "slope_per_second"} |-> Real("1")]
CountOf == [samples |-> Number("2"), delta |-> Number("0"), rate_per_second |-> Real("0"), resets |-> Number("0")]
Sums ==
  {<<Summed("gauge", g[1]), Summed("gauge", g[2])>> : g \in Both(GaugeOf, {"min", "mean", "last"}, Reals)
                                                          \cup Both(GaugeOf, {"stddev", "slope_per_second"}, <<Untold, Real("0"), Real("nan")>>)}
  \cup {<<[Summed("unavailable", <<>>) EXCEPT !.why = g[1]], [Summed("unavailable", <<>>) EXCEPT !.why = g[2]]>> : g \in Two(Gone)}
  \cup {<<Summed("gauge", GaugeOf), Summed("unavailable", <<>>)>>}
Counted ==
  {<<Summed("counter", g[1]), Summed("counter", g[2])>> :
     g \in Both(CountOf, {"samples", "delta", "resets"}, <<Number("0"), Number("1")>>)
           \cup Both(CountOf, {"rate_per_second"}, <<Untold, Real("0")>>)}
Sign0 == [start_ns |-> 1, end_ns |-> 7,
          metrics |-> <<[metric |-> Metric0, unavailable_samples |-> Number("0"), summary |-> Summed("gauge", GaugeOf)],
                        [metric |-> Edac, unavailable_samples |-> Number("0"), summary |-> Summed("counter", CountOf)]>>]
Uncorrected == [Sign0 EXCEPT !.metrics[2].metric.name = TextOf("edac.uncorrected")]
Signatures ==
  {<<[Sign0 EXCEPT !.metrics[1].summary = g[1]], [Sign0 EXCEPT !.metrics[1].summary = g[2]]>> : g \in Sums}
  \cup {<<[sign EXCEPT !.metrics[2].summary = g[1]], [sign EXCEPT !.metrics[2].summary = g[2]]>> : g \in Counted, sign \in {Sign0, Uncorrected}}
  \cup {<<[Sign0 EXCEPT !.metrics[1].metric = g[1]], [Sign0 EXCEPT !.metrics[1].metric = g[2]]>> : g \in Both(Metric0, DOMAIN Metric0, <<TextOf("a"), TextOf("b")>>)}
  \cup Two(<<Sign0, [Sign0 EXCEPT !.metrics[2].unavailable_samples = Number("1")], [Sign0 EXCEPT !.end_ns = 6],
             [Sign0 EXCEPT !.metrics = Tail(@)], [Sign0 EXCEPT !.metrics = <<>>]>>)
Able(statuses) == <<[source |-> TextOf("hwmon"), metrics |-> statuses]>>
Capabilities ==
  Two(<<<<>>, Able(<<>>), Able(<<[metric |-> Metric0, unavailable |-> <<>>]>>),
        Able(<<[metric |-> Metric0, unavailable |-> <<Gone[1]>>]>>), Able(<<[metric |-> Metric0, unavailable |-> <<Gone[3]>>]>>)>>)
Places == {"logical_cpu", "physical_package", "physical_core", "numa_node", "buffer_address", "buffer_offset", "iteration",
           "workload", "workload_version", "seed", "isa", "input_integrity", "decomposition", "footprint_bytes"}
Duty == [oracle_period |-> Number("1"), integrity_period |-> Number("1")]
From == [k \in Places \cup {"duty"} |-> IF k = "duty" THEN <<Duty>> ELSE TextOf("a")]
Froms == Both(From, Places, <<Untold, TextOf("0")>>) \cup Both(From, {"duty"}, <<<<>>, <<Duty>>>>)
BitsOf == [domain |-> TextOf("stored bytes"), first_offset |-> 0, last_offset |-> 9, popcount |-> 2, window_offset |-> 0,
           expected |-> <<0, 31>>, actual |-> <<1, 31>>]
Flips == Two(<<<<>>, <<BitsOf>>, <<[BitsOf EXCEPT !.domain = TextOf("derived bytes")]>>, <<[BitsOf EXCEPT !.last_offset = 64]>>,
               <<[BitsOf EXCEPT !.last_offset = 7]>>, <<[BitsOf EXCEPT !.popcount = 1, !.last_offset = 0]>>,
               <<[BitsOf EXCEPT !.actual = <<241, 31>>]>>, <<[BitsOf EXCEPT !.expected = <<0>>, !.actual = <<1>>]>>>>)
Exact0 == [kind |-> "ExactBitCorruption", provenance |-> From, side |-> TextOf("input"), check |-> TextOf("bracket"),
           line_bytes |-> 64, difference |-> <<BitsOf>>]
Bounded0 == [kind |-> "NumericalVerificationFailure", provenance |-> From, check |-> TextOf("residual"), residual |-> Real("3"),
             tolerance |-> Real("1"), condition_number |-> Untold, element |-> Untold]
Unmade0 == [kind |-> "VerificationNotPerformed", provenance |-> From, what |-> TextOf("oracle"), why |-> TextOf("no memory"),
            blocks_compared |-> Number("0")]
ErrorRecords ==
  {<<[Exact0 EXCEPT !.provenance = g[1]], [Exact0 EXCEPT !.provenance = g[2]]>> : g \in Froms}
  \cup {<<[Exact0 EXCEPT !.difference = g[1]], [Exact0 EXCEPT !.difference = g[2]]>> : g \in Flips}
  \cup Both(Exact0, {"side", "check"}, <<TextOf("a"), TextOf("b")>>)
  \cup Both(Bounded0, {"residual"}, <<Real("3"), Real("4"), Real("nan"), Real("inf")>>)
  \cup Both(Bounded0, {"condition_number", "element"}, <<Untold, Real("1")>>)
  \cup Both(Unmade0, {"what", "why", "blocks_compared"}, <<TextOf("a"), TextOf("b")>>)
  \cup Two(<<Exact0, Bounded0, Unmade0>>)
Rung0 == [rung |-> TextOf("same core"), cpu |-> Number("0"), threads |-> Number("1"), outcome |-> TextOf("wrong")]
Isolated0 == [steps |-> <<Rung0>>, finding |-> TextOf("core"), confidence |-> TextOf("high"),
              answers |-> [k \in {"same_core", "other_core", "single_thread"} |-> TextOf("yes")]]
Isolated ==
  Two(<<<<>>, <<Isolated0>>, <<[Isolated0 EXCEPT !.steps = <<>>]>>, <<[Isolated0 EXCEPT !.steps[1].cpu = Number("1")]>>,
        <<[Isolated0 EXCEPT !.answers.other_core = TextOf("no")]>>, <<[Isolated0 EXCEPT !.finding = TextOf("unknown")]>>,
        <<[Isolated0 EXCEPT !.confidence = TextOf("low")]>>>>)

Work0 == [cpu |-> Number("0"), isa |-> TextOf("scalar"), decomposition |-> Number("1"), duty |-> Duty, lock |-> TextOf("try"),
          logical_bytes |-> 3,
          descriptor |-> [name |-> TextOf("fft"), version |-> Number("1"), determinism |-> TextOf("BitExact"),
                          contract |-> TextOf("exact"), paths |-> {"scalar", "avx2"}]]
Works ==
  Both(Work0, {"isa", "decomposition", "lock"}, <<TextOf("a"), TextOf("b")>>) \cup Both(Work0, {"logical_bytes"}, <<0, 3, 5>>)
  \cup Two(<<Work0, [Work0 EXCEPT !.descriptor.paths = {"scalar"}], [Work0 EXCEPT !.descriptor.paths = {"scalar", "neon"}],
             [Work0 EXCEPT !.descriptor.version = Number("2")], [Work0 EXCEPT !.duty.oracle_period = Number("0")]>>)
Tally0 == [k \in {"units_computed", "oracle_checked", "oracle_blocks", "oracle_failed", "oracle_not_performed",
                  "integrity_checked", "integrity_failed"} |-> 2]
Locked(outcome, detail) == <<[outcome |-> TextOf(outcome), detail |-> TextOf(detail)]>>
Worker0 == [slot |-> Number("0"), fate |-> TextOf("completed"), termination |-> "exited 0", work |-> <<Work0>>, tally |-> Tally0,
            memory |-> Locked("locked", ""), findings |-> <<>>]
Found(record, isolation) == <<[record |-> record, isolation |-> isolation]>>
WorkersOf ==
  {<<[Worker0 EXCEPT !.work = <<g[1]>>], [Worker0 EXCEPT !.work = <<g[2]>>]>> : g \in Works}
  \cup {<<[Worker0 EXCEPT !.tally = g[1]], [Worker0 EXCEPT !.tally = g[2]]>> : g \in Both(Tally0, DOMAIN Tally0, <<0, 1>>)}
  \cup {<<[Worker0 EXCEPT !.findings = Found(g[1], <<>>)], [Worker0 EXCEPT !.findings = Found(g[2], <<>>)]>> : g \in ErrorRecords}
  \cup {<<[Worker0 EXCEPT !.findings = Found(Exact0, g[1])], [Worker0 EXCEPT !.findings = Found(Exact0, g[2])]>> : g \in Isolated}
  \cup Both(Worker0, {"memory"}, <<<<>>, Locked("locked", ""), Locked("refused", ""), Locked("refused", "EPERM")>>)
  \cup Both(Worker0, {"findings"}, <<<<>>, Found(Unmade0, <<>>), Found(Unmade0, <<>>) \o Found(Unmade0, <<>>)>>)
  \cup Both(Worker0, {"fate"}, <<TextOf("completed"), TextOf("hung")>>) \cup Both(Worker0, {"work"}, <<<<>>, <<Work0>>>>)
Ran == [mode |-> TextOf("stress"), elapsed_ns |-> 8, workers |-> <<Worker0, [Worker0 EXCEPT !.slot = Number("1")]>>,
        ceiling |-> FALSE, signal |-> FALSE, configured |-> <<[name |-> TextOf("fft"), enabled |-> TRUE], [name |-> TextOf("sort"), enabled |-> FALSE]>>,
        sampled |-> TRUE, rounds |-> 2, cost_ns |-> 2, interval_ns |-> 3, unsummed |-> FALSE, signature |-> Sign0,
        fingerprint |-> Print0, capabilities |-> Able(<<>>)]
Unworked == [Ran EXCEPT !.workers = <<[Worker0 EXCEPT !.work = <<>>]>>]
RunsOf(key, parts) == {<<[Ran EXCEPT ![key] = g[1]], [Ran EXCEPT ![key] = g[2]]>> : g \in parts}
TwoReports ==
  <<RunsOf("fingerprint", Prints), RunsOf("signature", Signatures), RunsOf("capabilities", Capabilities),
    {<<[Ran EXCEPT !.workers[1] = g[1]], [Ran EXCEPT !.workers[1] = g[2]]>> : g \in WorkersOf},
    Both(Ran, {"ceiling", "signal"}, <<FALSE, TRUE>>) \cup Both(Ran, {"elapsed_ns"}, <<0, 1, 2, 8>>)
    \cup Both(Ran, {"cost_ns"}, <<0, 2, 8>>) \cup Both(Ran, {"rounds"}, <<0, 2>>) \cup Both(Ran, {"sampled"}, <<FALSE, TRUE>>)
    \cup Both(Ran, {"unsummed"}, <<FALSE, TRUE>>) \cup Both(Ran, {"interval_ns"}, <<0, 3>>),
    Both(Unworked, {"configured"}, <<<<>>, Ran.configured, <<[name |-> TextOf("sort"), enabled |-> TRUE]>>>>)>>

(* Bytes about the borders of what UTF-8 allows, and cells of a record.    *)
Borders == {9, 31, 34, 65, 92, 127, 128, 143, 144, 159, 160, 191, 193, 194, 223, 224, 237, 239, 240, 244, 245}
Follows == {65, 128, 143, 144, 159, 160, 191, 194}
ByteTexts ==
  {<<>>} \cup {<<x>> : x \in Borders} \cup {<<x, y>> : x \in Borders, y \in Borders}
  \cup {<<x, y, z>> : x \in {34, 194, 224, 225, 237, 238, 240, 244}, y \in Follows, z \in Follows}
  \cup {<<x, y, z, 191>> : x \in {224, 240, 241, 244, 245}, y \in Follows, z \in {65, 128, 191}}
Characters0 == {"comma", "quote", "cr", "lf", "a"}
Cell0 == {<<>>} \cup {<<x>> : x \in Characters0} \cup {<<x, y>> : x \in Characters0, y \in Characters0}
CellPairs == Cell0 \X Cell0
-----------------------------------------------------------------------------
(* Machines a fingerprint is read from (Fingerprint).                      *)
FileOf(text) == [errno |-> "none", text |-> text, lines |-> <<>>]
NoFile(errno) == [errno |-> errno, text |-> <<>>, lines |-> <<>>]
CpuLines(lines) == [errno |-> "none", text |-> <<>>, lines |-> lines]
ModelLine == <<"model name", "tab", ":", " ", "Xeon", " ", "E5", " ">>
CodeLine == <<"microcode", "tab", ":", " ", "0x1">>
Words0 == {"osrelease", "BAT0", "governor", "preference", "profile", "policy"}
Flags0 == {"smt/active", "AC", "no_turbo"}
Others0 == {"ACAD", "ADP0", "ADP1", "AC0", "BAT1", "boost"}
Laptop ==
  [path \in Words0 \cup Flags0 \cup Others0 \cup {"cpuinfo", "hugepage", "temp"} |->
     CASE path = "cpuinfo" -> CpuLines(<<ModelLine, CodeLine, ModelLine>>)
       [] path = "hugepage" -> FileOf(<<"always", " ", "[", "madvise", "]">>)
       [] path = "temp" -> FileOf(<<"45000">>)
       [] path \in Words0 -> FileOf(<<"a">>)
       [] path \in Flags0 -> FileOf(<<"1">>)
       [] OTHER -> NoFile("ENOENT")]
Refusals == {NoFile("ENOENT"), NoFile("ENODEV"), NoFile("EACCES"), NoFile("EIO"), FileOf(<<>>), FileOf(<<"0">>), FileOf(<<"1">>), FileOf(<<"b">>)}
Lacking(paths) == [path \in DOMAIN Laptop |-> IF path \in paths THEN NoFile("ENOENT") ELSE Laptop[path]]
Mains == {"AC", "ACAD", "ADP0", "ADP1", "AC0"}
OddMachines ==
  {[Laptop EXCEPT ![path] = file] : path \in DOMAIN Laptop \ {"cpuinfo"}, file \in Refusals}
  \cup {[Lacking(Mains) EXCEPT ![path] = file, ![other] = last] :
         path \in Mains, other \in {"ADP0", "AC0"}, file \in Refusals, last \in {NoFile("EIO"), FileOf(<<"0">>), FileOf(<<"b">>)}}
  \cup {[Laptop EXCEPT !["no_turbo"] = file, !["boost"] = last] : file \in Refusals, last \in Refusals}
  \cup {[Laptop EXCEPT !["BAT0"] = file, !["BAT1"] = last] : file \in Refusals, last \in Refusals}
  \cup {[Laptop EXCEPT !["cpuinfo"] = file] :
         file \in {NoFile("ENOENT"), NoFile("EACCES"), CpuLines(<<>>), CpuLines(<<CodeLine>>), CpuLines(<<<<"model name">>, ModelLine>>),
                   CpuLines(<<<<"model name", "tab", "x", ":">>, CodeLine>>), CpuLines(<<<<"model name", ":", " ">>, ModelLine>>)}}
  \cup {[Laptop EXCEPT !["hugepage"] = FileOf(text)] :
         text \in {<<"[", "]">>, <<"]", "a", "[">>, <<"[", "a", "]", "[", "b", "]">>, <<"[", "a">>, <<"a">>, <<"[", "a", "]">>}}
  \cup {[Laptop EXCEPT !["temp"] = FileOf(text)] : text \in {<<"-", "45000">>, <<"+", "45000">>, <<"45000", " ">>, <<"-">>}}
LaptopEvents ==
  {[path |-> "AC", file |-> FileOf(<<"0">>)], [path |-> "AC", file |-> NoFile("ENOENT")], [path |-> "ACAD", file |-> FileOf(<<"1">>)],
   [path |-> "temp", file |-> FileOf(<<"95500">>)], [path |-> "cpuinfo", file |-> NoFile("EIO")],
   [path |-> "no_turbo", file |-> NoFile("EACCES")], [path |-> "boost", file |-> FileOf(<<"0">>)]}
=============================================================================
