------------------------------ MODULE Topology ------------------------------
(***************************************************************************)
(* The snapshot of the machine a run is attributed against (topology/):    *)
(* the CPUs and their cores, the caches and the NUMA nodes, read directory *)
(* by directory from sysfs while CPUs may go offline and come back.        *)
(*                                                                         *)
(* `machine` is the hardware, and what one file says instead of the truth; *)
(* what a file says depends on the CPUs that are online when it is read.   *)
(* The files of one directory are read in one step: a CPU that leaves      *)
(* between two of them makes the second absent, which ends the discovery   *)
(* as its absence from the first does.                                     *)
(***************************************************************************)
EXTENDS Integers, Sequences, FiniteSets, SequencesExt

CONSTANTS Machines,       \* the machines explored
          MaxId,          \* CpuList::kMaxCpuId
          MaxCacheIndex,  \* kMaxCacheIndex
          MaxLevel,       \* kMaxCacheLevel
          MaxChanges      \* bound: CPUs that go offline or come back

VARIABLES machine, online, changes, reader

vars == <<machine, online, changes, reader>>

-----------------------------------------------------------------------------
(* A list is its elements, a number or a range; the kernel's are ascending *)
(* and apart.  `{first .. last}` of each is what the parser keeps.         *)
Starts(set) == {a \in set : a - 1 \notin set}
EndOf(a, set) == CHOOSE b \in set : a <= b /\ a .. b \subseteq set /\ b + 1 \notin set
Printed(set) == [i \in 1 .. Cardinality(Starts(set)) |->
                   LET a == SetToSortSeq(Starts(set), <)[i] IN <<a, EndOf(a, set)>>]

Apart(list, i) == i = 1 \/ list[i - 1][2] < list[i][1]
IsCpuList(list) == \A i \in DOMAIN list : list[i][1] <= list[i][2] /\ list[i][2] <= MaxId /\ Apart(list, i)
CpuList(list) == UNION {list[i][1] .. list[i][2] : i \in DOMAIN list}

-----------------------------------------------------------------------------
(* The kernel's files.  A file is its error, its number and its list.      *)
File(number, list) == [errno |-> "none", number |-> number, list |-> list]
Absent == [errno |-> "ENOENT", number |-> 0, list |-> <<>>]
Says(path, file) == IF machine.lie.path = path THEN machine.lie.file ELSE file

OfCpu(name, cpu, file) == IF cpu \in online THEN Says(<<name, cpu>>, file) ELSE Absent
SameCore(cpu) == {d \in online : machine.core[d] = machine.core[cpu]}
CacheOf(cpu, index) == machine.caches[cpu][index + 1]
HasIndex(cpu, index) == cpu \in online /\ index < Len(machine.caches[cpu])

-----------------------------------------------------------------------------
Nothing == [cpus |-> <<>>, readings |-> <<>>, caches |-> <<>>, nodes |-> <<>>, exposed |-> FALSE]
Init ==
  /\ machine \in Machines /\ online = DOMAIN machine.core /\ changes = 0
  /\ reader = [at |-> "online", left |-> <<>>, index |-> 0, rows |-> 0, failure |-> "none", found |-> Nothing]

(* classify: a file read through a new source is absent, never vanished.   *)
Kind(file) == CASE file.errno = "ENOENT" -> "absent" [] file.errno = "EACCES" -> "denied"
ListFailure(file) == IF file.errno # "none" THEN Kind(file) ELSE "malformed"
NoList(file) == file.errno # "none" \/ ~IsCpuList(file.list)
Fail(failure) == reader' = [reader EXCEPT !.at = "done", !.failure = failure]
Still == UNCHANGED <<machine, online, changes>>
Ids(list) == FlattenSeq([i \in DOMAIN list |-> [k \in 1 .. list[i][2] - list[i][1] + 1 |-> list[i][1] + k - 1]])

(* CpuTopology::discover                                                   *)
ReadOnline ==
  /\ reader.at = "online" /\ Still
  /\ LET file == Says(<<"online", 0>>, File(0, Printed(online))) IN
     \/ NoList(file) /\ Fail(ListFailure(file))
     \/ ~NoList(file) /\ CpuList(file.list) = {} /\ Fail("contradiction")
     \/ /\ ~NoList(file) /\ CpuList(file.list) # {}
        /\ reader' = [reader EXCEPT !.at = "cpu", !.left = Ids(file.list)]

(* read_id: -1 is the kernel saying that it does not know.                 *)
NoId(file) == file.errno # "none" \/ file.number < 0 \/ file.number > MaxId
IdFailure(file) == IF file.errno # "none" THEN Kind(file) ELSE "contradiction"

ReadCpu ==
  /\ reader.at = "cpu" /\ reader.left # <<>> /\ Still
  /\ LET cpu == Head(reader.left)
         package == OfCpu("package", cpu, File(machine.core[cpu][1], <<>>))
         core == OfCpu("core", cpu, File(machine.core[cpu][2], <<>>))
         siblings == OfCpu("siblings", cpu, File(0, Printed(SameCore(cpu)))) IN
     \/ NoId(package) /\ Fail(IdFailure(package))
     \/ ~NoId(package) /\ NoId(core) /\ Fail(IdFailure(core))
     \/ ~NoId(package) /\ ~NoId(core) /\ NoList(siblings) /\ Fail(ListFailure(siblings))
     \/ /\ ~NoId(package) /\ ~NoId(core) /\ ~NoList(siblings)
        /\ IF cpu \notin CpuList(siblings.list) THEN Fail("contradiction")
           ELSE reader' = [reader EXCEPT !.left = Tail(@),
                  !.found.cpus = Append(@, [id |-> cpu, core |-> <<package.number, core.number>>,
                                            siblings |-> CpuList(siblings.list)])]

(* The second pass: each pair of siblings.                                 *)
Cpus == Range(reader.found.cpus)
Known == {cpu.id : cpu \in Cpus}
SameSiblings(cpu, other) == other.siblings = cpu.siblings
Agree(cpu, id) == \E other \in Cpus : other.id = id /\ SameSiblings(cpu, other) /\ other.core = cpu.core
CheckCpus ==
  /\ reader.at = "cpu" /\ reader.left = <<>> /\ Still
  /\ IF \A cpu \in Cpus : \A id \in cpu.siblings : Agree(cpu, id)
     THEN reader' = [reader EXCEPT !.at = "cache", !.left = [i \in DOMAIN reader.found.cpus |-> reader.found.cpus[i].id]]
     ELSE Fail("contradiction")

(* read_index: the first absent level ends a CPU's list; nothing else      *)
(* does.  A size, line or id the kernel hides is no failure; `size` stands *)
(* for the three.                                                          *)
Optional(file) == file.errno = "ENOENT" \/ (file.errno = "none" /\ file.number \in 0 .. MaxId)
Level(cpu, index) ==
  IF HasIndex(cpu, index) THEN Says(<<"level", cpu>>, File(CacheOf(cpu, index).level, <<>>)) ELSE Absent
Shared(cpu, index) == Says(<<"shared", cpu>>, File(0, Printed(CacheOf(cpu, index).cpus \cap online)))
Type(cpu, index) == Says(<<"type", cpu>>, File(CacheOf(cpu, index).type, <<>>))
Size(cpu, index) == Says(<<"size", cpu>>, File(CacheOf(cpu, index).size, <<>>))
NoType(file) == file.errno # "none" \/ file.number \notin 1 .. 3   \* Data, Instruction, Unified
NextCpu == reader' = [reader EXCEPT !.left = Tail(@), !.index = 0]

EndOfList(file) == file.errno = "ENOENT"
ReadIndex ==
  /\ reader.at = "cache" /\ reader.left # <<>> /\ reader.index < MaxCacheIndex /\ Still
  /\ LET cpu == Head(reader.left)
         level == Level(cpu, reader.index)
         type == Type(cpu, reader.index)
         shared == Shared(cpu, reader.index)
         size == Size(cpu, reader.index) IN
     \/ EndOfList(level) /\ NextCpu
     \/ ~EndOfList(level) /\ level.errno # "none" /\ Fail(Kind(level))
     \/ level.errno = "none" /\ level.number \notin 1 .. MaxLevel /\ Fail("contradiction")
     \/ /\ level.errno = "none" /\ level.number \in 1 .. MaxLevel
        /\ \/ NoType(type) /\ Fail(IdFailure(type))
           \/ ~NoType(type) /\ NoList(shared) /\ Fail(ListFailure(shared))
           \/ ~NoType(type) /\ ~NoList(shared) /\ cpu \notin CpuList(shared.list) /\ Fail("contradiction")
           \/ /\ ~NoType(type) /\ ~NoList(shared) /\ cpu \in CpuList(shared.list)
              /\ IF ~Optional(size) \/ (size.errno = "none" /\ size.number = 0)
                 THEN Fail(IdFailure(size))
                 ELSE reader' = [reader EXCEPT !.index = @ + 1,
                        !.found.readings = Append(@, [cpu |-> cpu, cache |->
                          [level |-> level.number, type |-> type.number,
                           shared |-> CpuList(shared.list),
                           size |-> IF size.errno = "none" THEN size.number ELSE -1]])]

IndexesEnd == /\ reader.at = "cache" /\ reader.left # <<>> /\ reader.index = MaxCacheIndex
              /\ NextCpu /\ Still

Readings == Range(reader.found.readings)
ServedOnline == \A r \in Readings : r.cache.shared \subseteq Known
Nest == \A inner, outer \in Readings :
  outer.cpu = inner.cpu /\ outer.cache.level > inner.cache.level => inner.cache.shared \subseteq outer.cache.shared
Listed == \A r \in Readings : \A sharer \in r.cache.shared :
  \E other \in Readings : other.cpu = sharer /\ other.cache.level = r.cache.level
SharersAgree == \A r \in Readings : \A sharer \in r.cache.shared :
  \E other \in Readings : other.cpu = sharer /\ other.cache = r.cache

(* ordered_before: the level, the lowest CPU, the type.                    *)
Lowest(cache) == CHOOSE cpu \in cache.shared : \A d \in cache.shared : cpu <= d
OrderedBefore(a, b) ==
  \/ a.level < b.level
  \/ a.level = b.level /\ Lowest(a) < Lowest(b)
  \/ a.level = b.level /\ Lowest(a) = Lowest(b) /\ a.type < b.type
FirstOfItsKind(i) == \A j \in 1 .. i - 1 :
  LET a == reader.found.readings[j].cache
      b == reader.found.readings[i].cache IN
  a.level # b.level \/ a.type # b.type \/ a.shared # b.shared
Kept == SelectSeq([i \in DOMAIN reader.found.readings |-> i], FirstOfItsKind)
Deduplicated == SortSeq([k \in DOMAIN Kept |-> reader.found.readings[Kept[k]].cache], OrderedBefore)

CheckCaches ==
  /\ reader.at = "cache" /\ reader.left = <<>> /\ Still
  /\ IF ServedOnline /\ Nest /\ SharersAgree
     THEN reader' = [reader EXCEPT !.at = "nodes", !.found.caches = Deduplicated]
     ELSE Fail("contradiction")

(* NumaTopology::discover: absent is an answer, no layout is published.    *)
NodesOnline == IF machine.nodes = <<>> THEN Absent
               ELSE Says(<<"nodes", 0>>, File(0, Printed(DOMAIN machine.nodes)))
ReadNodes ==
  /\ reader.at = "nodes" /\ Still
  /\ \/ NodesOnline.errno = "ENOENT" /\ reader' = [reader EXCEPT !.at = "done"]
     \/ NodesOnline.errno # "ENOENT" /\ NoList(NodesOnline) /\ Fail(ListFailure(NodesOnline))
     \/ ~NoList(NodesOnline) /\ CpuList(NodesOnline.list) = {} /\ Fail("contradiction")
     \/ /\ ~NoList(NodesOnline) /\ CpuList(NodesOnline.list) # {}
        /\ reader' = [reader EXCEPT !.at = "node", !.left = Ids(NodesOnline.list),
                        !.rows = Cardinality(CpuList(NodesOnline.list)), !.found.exposed = TRUE]

(* One MemTotal of its own node, and a distance to each online node.       *)
OfNode(name, node, file) == IF node \in DOMAIN machine.nodes THEN Says(<<name, node>>, file) ELSE Absent
ReadNode ==
  /\ reader.at = "node" /\ reader.left # <<>> /\ Still
  /\ LET node == Head(reader.left)
         cpus == OfNode("cpulist", node, File(0, Printed(machine.nodes[node] \cap online)))
         memory == OfNode("meminfo", node, File(1, <<>>))
         distances == OfNode("distance", node, File(Cardinality(DOMAIN machine.nodes), <<>>)) IN
     \/ NoList(cpus) /\ Fail(ListFailure(cpus))
     \/ ~NoList(cpus) /\ NoId(memory) /\ Fail(IdFailure(memory))
     \/ ~NoList(cpus) /\ ~NoId(memory) /\ distances.errno # "none" /\ Fail(Kind(distances))
     \/ /\ ~NoList(cpus) /\ ~NoId(memory) /\ distances.errno = "none" /\ distances.number # reader.rows
        /\ Fail("contradiction")
     \/ /\ ~NoList(cpus) /\ ~NoId(memory) /\ distances.errno = "none" /\ distances.number = reader.rows
        /\ reader' = [reader EXCEPT !.left = Tail(@),
                        !.found.nodes = Append(@, [id |-> node, cpus |-> CpuList(cpus.list)])]

Nodes == Range(reader.found.nodes)
Owners(cpu) == {n \in Nodes : cpu \in n.cpus}
AtMostOne(cpu) == Cardinality(Owners(cpu)) <= 1
OneOwner(cpu) == Cardinality(Owners(cpu)) = 1
CheckPartition ==
  /\ reader.at = "node" /\ reader.left = <<>> /\ Still
  /\ IF (\A n \in Nodes : n.cpus \subseteq Known) /\ (\A cpu \in Known : OneOwner(cpu))
     THEN reader' = [reader EXCEPT !.at = "done"]
     ELSE Fail("contradiction")

(* The machine goes on.  CPU 0 stays.                                      *)
Hotplug(cpu) ==
  /\ machine.plugs /\ changes < MaxChanges /\ cpu # 0 /\ reader.at # "done"
  /\ online' = IF cpu \in online THEN online \ {cpu} ELSE online \cup {cpu}
  /\ changes' = changes + 1
  /\ UNCHANGED <<machine, reader>>

Done == reader.at = "done" /\ UNCHANGED vars

Next ==
  \/ ReadOnline \/ ReadCpu \/ CheckCpus \/ ReadIndex \/ IndexesEnd \/ CheckCaches
  \/ ReadNodes \/ ReadNode \/ CheckPartition \/ Done
  \/ \E cpu \in DOMAIN machine.core : Hotplug(cpu)

Spec == Init /\ [][Next]_vars

-----------------------------------------------------------------------------
Taken == reader.at = "done" /\ reader.failure = "none"

(* Whatever the files say and the CPUs do meanwhile, a snapshot that is    *)
(* taken is one machine: the cores divide the CPUs, caches of one kind do  *)
(* not overlap and the inner lie within the outer, and the nodes, if the   *)
(* kernel has any, divide the CPUs (CpuTopology, CacheHierarchy and        *)
(* NumaTopology::discover).                                                *)
SnapshotIsOneMachine ==
  Taken =>
    /\ \A a, b \in Cpus : a.siblings = b.siblings \/ a.siblings \cap b.siblings = {}
    /\ \A a, b \in Cpus : a.id \in b.siblings => a.core = b.core
    /\ \A a \in Range(reader.found.caches) : a.shared \subseteq Known
    /\ \A a, b \in Range(reader.found.caches) :
         a.shared \cap b.shared # {} /\ a.level < b.level => a.shared \subseteq b.shared
    /\ reader.found.exposed => \A cpu \in Known : Cardinality(Owners(cpu)) = 1

(* A snapshot of a machine whose files are true says what the hardware is: *)
(* its cores are the cores, its caches are caches with all their CPUs, and *)
(* where the kernel has nodes, one CPU that leaves or comes back during    *)
(* the reading does not leave a CPU without the caches it has.             *)
SnapshotIsTrue ==
  Taken /\ machine.lie.path = <<>> =>
    /\ \A a \in Cpus : a.core = machine.core[a.id] /\ a.siblings = {d \in Known : machine.core[d] = machine.core[a.id]}
    /\ \A c \in Range(reader.found.caches) :
         \E cpu \in Known : \E real \in Range(machine.caches[cpu]) : real.level = c.level /\ c.shared \subseteq real.cpus
    /\ changes = 0 \/ (changes = 1 /\ reader.found.exposed) =>
         \A a \in Cpus : Cardinality({r \in Readings : r.cpu = a.id}) = Len(machine.caches[a.id])

(* The reader keeps to its bounds.                                         *)
TypeOK ==
  /\ reader.index \in 0 .. MaxCacheIndex /\ Len(reader.left) <= Cardinality(DOMAIN machine.core)
  /\ reader.failure \in {"none", "absent", "denied", "malformed", "contradiction"}
=============================================================================
