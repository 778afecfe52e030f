---------------------------- MODULE MCTelemetry -----------------------------
(***************************************************************************)
(* The rounds of a short run of two sensors, and what is made of one       *)
(* counter's series afterwards; and how the machine is read before it: the *)
(* memory budget, the topology and what each source of telemetry finds.    *)
(* None of them acts on another, so one of them, `part`, is explored at a  *)
(* time; the three readings of the machine share their variables.          *)
(***************************************************************************)
EXTENDS Sampling, SequencesExt

VARIABLES part, clock, modulus, counter, truth, points, phases, wasReset,
          machine, memo, reader, tally, statuses, out

seriesVars == <<clock, modulus, counter, truth, points, phases, wasReset>>
machineVars == <<machine, memo, reader, tally, statuses, out>>
Series == INSTANCE Signature WITH now <- clock, marks <- phases,
            Moduli <- {0, 3}, Gaps <- {1, 2}, Events <- {0, 1, 2}, MaxPoints <- 4, MaxMarks <- 2, MaxTime <- 5

TwoSensors == 1 .. 2
TwoSteps == [i \in 1 .. 2 |-> 2]

-----------------------------------------------------------------------------
(* The budget: a process two cgroups deep, of either version or none; the  *)
(* lines and mounts the kernel may print for it; every pair of limits; one *)
(* file that fails; one limit that is changed during the reading.          *)
Line(id, controllers, path) == [ok |-> TRUE, id |-> id, controllers |-> controllers, path |-> path]
Dir == <<"d">>
Leaf == <<"d", "x">>
BadLine == [ok |-> FALSE, id |-> 1, controllers |-> {}, path |-> <<>>]
Cpu == Line(1, {"cpu"}, <<>>)
Tier == Line(3, {"memory_tiering"}, <<>>)
LinesOf(version, p) ==
  CASE version = 1 -> {<<Line(0, {}, <<>>), Tier, Line(2, {"memory"}, p)>>, <<Line(2, {"memory"}, p), Line(0, {}, Dir)>>}
    [] version = 2 -> {<<Line(0, {}, p)>>, <<Cpu, Line(0, {}, p)>>}
    [] version = 0 -> {<<>>, <<Cpu>>, <<BadLine>>, <<Line(0, {}, p), Line(0, {}, p)>>, <<Line(0, {"memory"}, p)>>}
Mount(fstype, controllers, root) == [ok |-> TRUE, fstype |-> fstype, controllers |-> controllers, root |-> root]
Other == Mount("proc", {"memory"}, <<>>)
V1(root) == Mount("cgroup", {"memory"}, root)
V1Cpu == Mount("cgroup", {"cpu"}, <<>>)
V2(root) == Mount("cgroup2", {}, root)
BadMount == [Other EXCEPT !.ok = FALSE]
MountFiles == {<<>>, <<V2(<<>>)>>, <<V1Cpu, V1(<<>>)>>, <<V1(Dir), V2(Dir)>>, <<V2(<<"d", "y">>), V2(Dir)>>,
               <<V1(<<"e">>), V1(Leaf), V2(Leaf)>>, <<Other, V2(Dir), V2(<<>>), BadMount>>, <<Other, V1(<<>>), V2(<<>>)>>}
Number(n) == [text |-> "number", bytes |-> n]
LimitFiles == {[errno |-> "ENOENT"], [errno |-> "EACCES"], [text |-> "max", bytes |-> 0], [text |-> "bad", bytes |-> 0], Number(1), Number(2)}
NoFault == [file |-> "none", errno |-> "none"]
Bound(version, p, mounts) ==
  LET shows == SelectSeq(mounts, LAMBDA m : IF version = 2 THEN m.fstype = "cgroup2" /\ IsPrefix(m.root, p) ELSE FALSE) IN
  [version |-> version, path |-> p, root |-> IF shows = <<>> THEN <<>> ELSE shows[1].root]
LimitsOf == {(<<>> :> [errno |-> "ENOENT"]) @@ (Dir :> d) @@ (Leaf :> x) : d \in LimitFiles, x \in LimitFiles}
Static ==
  UNION {UNION {{[meminfo |-> "line", lines |-> lines, mounts |-> mounts, limits |-> limits, stat |-> stat, fault |-> NoFault,
      changes |-> 0, watched |-> FALSE, truth |-> Bound(v, p, mounts)] :
        lines \in LinesOf(v, p), mounts \in MountFiles, limits \in LimitsOf,
        stat \in IF v = 1 THEN {"once", "twice", "no line", "bad"} ELSE {"once"}} : p \in {Dir, Leaf}} : v \in 0 .. 2}
Plain(v) == [meminfo |-> "line", lines |-> <<Cpu, IF v = 1 THEN Line(2, {"memory"}, Leaf) ELSE Line(0, {}, Leaf)>>, mounts |-> <<V1(<<>>), V2(<<>>)>>,
    limits |-> (<<>> :> [errno |-> "ENOENT"]) @@ (Dir :> Number(2)) @@ (Leaf :> Number(1)), stat |-> "once",
    fault |-> NoFault, changes |-> 0, watched |-> FALSE, truth |-> Bound(v, Leaf, <<V2(<<>>)>>)]
Faulty == {[Plain(v) EXCEPT !.fault = [file |-> file, errno |-> errno]] : v \in {1, 2},
            file \in {"meminfo", "cgroup", "mountinfo", "probe", "stat"}, errno \in {"ENOENT", "EACCES", "EIO"}}
          \cup {[Plain(2) EXCEPT !.meminfo = a] : a \in {"bad", "no line"}}
          \cup {[Plain(v) EXCEPT !.limits[p] = [errno |-> "EIO"]] : v \in {1, 2}, p \in {Dir, Leaf}}
Moving == {[Plain(v) EXCEPT !.changes = 1, !.watched = w] : v \in {1, 2}, w \in BOOLEAN}

-----------------------------------------------------------------------------
(* The topology: three CPUs on two packages or two cores, no, one or two   *)
(* nodes; every file may lie once; CPUs come and go where none lies.       *)
ListFile(e, n, l) == [errno |-> e, number |-> n, list |-> l]
Cache(level, type, cpus, bytes) == [level |-> level, type |-> type, cpus |-> cpus, size |-> bytes]
Cores == {(0 :> <<0, 0>>) @@ (1 :> <<0, 1>>) @@ (2 :> <<0, 0>>), (0 :> <<0, 0>>) @@ (1 :> <<1, 0>>) @@ (2 :> <<1, 1>>)}
Mates(core, c) == {d \in 0 .. 2 : core[d] = core[c]}
CachesOf(core) == [c \in 0 .. 2 |-> <<Cache(1, 1, Mates(core, c), 2), Cache(1, 2, Mates(core, c), 2), Cache(2, 3, 0 .. 2, 5)>>]
Layouts == {<<>>, (0 :> 0 .. 2), (0 :> {0, 2}) @@ (1 :> {1}), (0 :> {0, 1}) @@ (1 :> {1, 2})}
Honest == [path |-> <<>>, file |-> ListFile("none", 0, <<>>)]
Lists == {<<>>, <<<<0, 0>>>>, <<<<0, 1>>>>, <<<<0, 0>>, <<2, 2>>>>, <<<<1, 0>>>>, <<<<1, 1>>, <<0, 0>>>>, <<<<0, 1>>, <<1, 2>>>>, <<<<0, 9>>>>, <<<<1, 2>>>>}
Lies == {Honest}
  \cup {[path |-> <<p, c>>, file |-> ListFile("none", 0, l)] : p \in {"siblings", "shared", "cpulist"}, c \in {0, 2}, l \in Lists}
  \cup {[path |-> <<p, 0>>, file |-> ListFile("none", 0, l)] : p \in {"online", "nodes"}, l \in Lists}
  \cup {[path |-> <<p, c>>, file |-> ListFile("none", n, <<>>)] : p \in {"package", "core", "level", "size", "distance", "type", "meminfo"}, c \in {0, 1}, n \in {-1, 0, 1, 2, 9}}
  \cup {[path |-> <<p, c>>, file |-> ListFile(e, 0, <<>>)] : e \in {"EACCES", "ENOENT"}, c \in {0, 2},
        p \in {"siblings", "shared", "cpulist", "package", "core", "level", "size", "distance", "type", "meminfo", "online", "nodes"}}
Computers == {[core |-> core, caches |-> CachesOf(core), nodes |-> nodes, lie |-> lie, plugs |-> FALSE] :
               core \in Cores, nodes \in Layouts, lie \in Lies}
  \cup {[core |-> core, caches |-> CachesOf(core), nodes |-> nodes, lie |-> Honest, plugs |-> TRUE] : core \in Cores, nodes \in {<<>>, (0 :> {0, 2}) @@ (1 :> {1})}}

-----------------------------------------------------------------------------
(* The sources: each with the files it may find, two of which change.      *)
Garbage == -999
TextFile(e, t, n, s) == [errno |-> e, text |-> t, number |-> n, share |-> s]
Ok == TextFile("none", "", 5, 1)
Named(t) == TextFile("none", t, 5, 1)
Denied == TextFile("EACCES", "", Garbage, 0)
Garbled == TextFile("none", "", Garbage, 0)
Nought == TextFile("none", "", 0, 0)
NoFile == TextFile("ENOENT", "", Garbage, 0)
FileStates == {Ok, NoFile, Denied, Nought, Garbled}
Hwmon(what) ==
  {(<<"name", 0>> :> n0) @@ (<<"name", 1>> :> n1) @@ (<<what, 0, 1>> :> a) @@ (<<what, 0, 2>> :> b) @@ (<<what, 1, 1>> :> c)
   @@ (<<"label", 0, 1>> :> l1) @@ (<<"label", 0, 2>> :> l2) @@ (<<"label", 1, 1>> :> Named("Tdie")) @@ (<<"zone", 1>> :> b):
   n0 \in {Named("coretemp"), Denied, NoFile}, n1 \in {Named("k10temp"), NoFile}, a \in {Ok, Garbled}, b \in {Ok, Denied, NoFile}, c \in {Ok, NoFile},
   l1 \in {Named("Package id 0")}, l2 \in {Named("Core 0"), Named("Package id 0")}}
WorldsOf ==
  [thermal |-> Hwmon("temp"),
   fan |-> {w \in Hwmon("fan") : w[<<"label", 0, 2>>] = Named("Core 0")},
   frequency |-> {(<<"online">> :> o) @@ (<<"freq", 0>> :> f) @@ (<<"freq", 1>> :> g) @@ (<<"stat">> :> s) :
                  o \in {TextFile("none", "", 2, 1), Nought, Denied}, f \in {Ok, NoFile}, g \in {Ok, TextFile("none", "", 11, 1)}, s \in {Ok, Garbled}},
   memory |-> {(<<"meminfo">> :> m) @@ (<<"line", "MemTotal">> :> f) @@ (<<"line", "MemAvailable">> :> g) :
               m \in {Ok, Denied}, f \in {Ok, Garbled}, g \in {Ok, NoFile}},
   edac |-> {(<<"ce", 0>> :> a) @@ (<<"ue", 0>> :> b) @@ (<<"ce", 1>> :> c) @@ (<<"ue", 1>> :> Ok) :
             a \in {Ok, NoFile, Denied}, b \in {Ok, NoFile}, c \in {Ok, NoFile}},
   counters |-> {(<<"perf", "cycles">> :> a) @@ (<<"perf", "instructions">> :> b) @@ (<<"perf", "context_switches">> :> c) :
                 a \in {Ok, NoFile, TextFile("control", "", 5, 1)}, b \in {Ok, Denied}, c \in {Ok, TextFile("EBUSY", "", 5, 1)}},
   power |-> {(<<"zone name", 0>> :> n) @@ (<<"zone name", 1>> :> m) @@ (<<"range", 0>> :> r) @@ (<<"range", 1>> :> TextFile("none", "", 7, 1))
              @@ (<<"energy", 0>> :> e) @@ (<<"energy", 1>> :> Ok) @@ (<<"pmu">> :> p) @@ (<<"power", 0>> :> q) @@ (<<"power", 1>> :> Ok) :
              n \in {NoFile, Denied, Named("package")}, m \in {Named("package"), Named("psys"), NoFile}, r \in {TextFile("none", "", 7, 1), Nought, Ok}, e \in {Ok, Denied},
              p \in {Nought, TextFile("none", "", 2, 1), Denied, NoFile, Garbled}, q \in {Ok, TextFile("control", "", 5, 1), Denied}}]

Budget == INSTANCE Budget WITH before <- memo, record <- tally,
            Machines <- Static \cup Faulty \cup Moving, Unlimited <- 9, MaxKills <- 2
Snapshot == INSTANCE Topology WITH online <- memo, changes <- tally,
              Machines <- Computers, MaxId <- 5, MaxCacheIndex <- 3, MaxLevel <- 4, MaxChanges <- 2
Source == INSTANCE Sources WITH kind <- memo, world <- machine, changes <- tally, source <- reader,
            Worlds <- WorldsOf, Files <- FileStates, MaxChanges <- 2

-----------------------------------------------------------------------------
NoMachine == machine = <<>> /\ memo = <<>> /\ reader = <<>> /\ tally = 0
TelemetryInit ==
  /\ part \in {"rounds", "series", "budget", "topology", "source"} /\ Init /\ Series!Init
  /\ part # "series" => modulus = 0 /\ counter = 0
  /\ part # "rounds" => \A s \in Sensors : point[s].reading = "warm"
  /\ statuses = <<>> /\ out = <<>>
  /\ \/ part \in {"rounds", "series"} /\ NoMachine
     \/ part = "budget" /\ Budget!Init
     \/ part = "topology" /\ Snapshot!Init
     \/ part = "source" /\ Source!Init
TelemetryNext ==
  \/ part = "rounds" /\ Next /\ UNCHANGED <<part, seriesVars, machineVars>>
  \/ part = "series" /\ Series!Next /\ UNCHANGED <<part, vars, machineVars>>
  \/ part = "budget" /\ Budget!Next /\ UNCHANGED <<part, vars, seriesVars, statuses, out>>
  \/ part = "topology" /\ Snapshot!Next /\ UNCHANGED <<part, vars, seriesVars, statuses, out>>
  \/ part = "source" /\ Source!Next /\ UNCHANGED <<part, vars, seriesVars>>
TelemetrySpec == TelemetryInit /\ [][TelemetryNext]_<<part, vars, seriesVars, machineVars>>

-----------------------------------------------------------------------------
(* The variables keep their types, the timeline its capacity, and readings *)
(* and marks their order.                                                  *)
TypesOK ==
  /\ TypeOK /\ Series!TypeOK
  /\ part = "budget" => Budget!TypeOK
  /\ part = "topology" => Snapshot!TypeOK
  /\ part = "source" => Source!TypeOK

(* The run's count is what happened, or said to be unknown.                *)
CountIsTrue == Series!CountIsTrue

(* A trial's load window counts the whole of the load, and the phases'     *)
(* between them the whole of the run.                                      *)
WindowsAreWhole == Series!WindowsAreWhole

(* The budget that is read is the limit that binds the process, or a       *)
(* failure, never an invented "no limit"; and a count of OOM kills is the  *)
(* kernel's (read_memory_budget, CgroupOomKillRecord::kills).              *)
BudgetBinds == part = "budget" => Budget!BudgetBinds /\ Budget!CountIsKept

(* A snapshot of the topology is one consistent machine, and of honest     *)
(* files the true one; and a source answers each round with one reading    *)
(* for each metric it said is present, in order (topology/, sources/).     *)
MachineIsRead ==
  /\ part = "topology" => Snapshot!SnapshotIsOneMachine /\ Snapshot!SnapshotIsTrue
  /\ part = "source" => Source!SourceKeepsContract
=============================================================================
