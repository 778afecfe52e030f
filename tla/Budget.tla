------------------------------- MODULE Budget -------------------------------
(***************************************************************************)
(* How much memory a run may use (resources/memory_budget.cpp and          *)
(* cgroup.cpp): MemAvailable, and the limit that binds the process's       *)
(* memory cgroup.  The files are read one after another, and the limit of  *)
(* a cgroup may be changed meanwhile.  After it, the count of OOM kills    *)
(* kept for that cgroup (cgroup_oom_record.cpp), read again and again.     *)
(*                                                                         *)
(* A path is the sequence of its components, a limit a small number, and a *)
(* text the kernel does not write is "bad".                                *)
(***************************************************************************)
EXTENDS Integers, Sequences, SequencesExt, FiniteSetsExt

CONSTANTS Machines,   \* the machines explored
          Unlimited,  \* kV1UnlimitedFloor
          MaxKills    \* bound: OOM kills

VARIABLES machine,    \* what the kernel's files say
          before,     \* what the limits were when the reading began
          reader,     \* read_memory_budget
          record      \* CgroupOomKillRecord, and the kernel's count

vars == <<machine, before, reader, record>>

None == -1            \* std::nullopt
Fails(errno) == [errno |-> errno]
Holds(text, bytes) == [text |-> text, bytes |-> bytes]
IsRead(file) == "text" \in DOMAIN file

(* topology::classify: only a source that was read before can vanish.      *)
Forgetful(errno, seen) ==
  CASE errno = "ENOENT" -> "absent" [] errno = "EACCES" -> "denied" [] errno = "EIO" -> "unreadable"
Classify(errno, seen) ==
  CASE errno = "ENOENT" -> IF seen THEN "vanished" ELSE "absent"
    [] errno = "EACCES" -> "denied"
    [] errno = "EIO" -> "unreadable"

-----------------------------------------------------------------------------
(* /proc/self/cgroup: a line is the hierarchy's id, its controllers and    *)
(* the path.  A hierarchy that names "memory" wins over the unified one.   *)
NamesMemory(line) == "memory" \in line.controllers

Memory(lines) == SelectSeq(lines, LAMBDA line : line.id # 0 /\ NamesMemory(line))
Unified(lines) == SelectSeq(lines, LAMBDA line : line.id = 0)
Misprinted(line) == ~line.ok \/ (line.id = 0 /\ line.controllers # {})

ParseMembership(lines) ==
  IF (\E i \in DOMAIN lines : Misprinted(lines[i]))
     \/ Len(Memory(lines)) > 1 \/ Len(Unified(lines)) > 1
  THEN [is |-> "malformed"]
  ELSE IF Memory(lines) # <<>> THEN [is |-> "member", version |-> 1, path |-> Memory(lines)[1].path]
  ELSE IF Unified(lines) # <<>> THEN [is |-> "member", version |-> 2, path |-> Unified(lines)[1].path]
  ELSE [is |-> "none"]

(* /proc/self/mountinfo: the first mount of the hierarchy whose root is    *)
(* the cgroup or, by whole components, above it.                           *)
IsMountEntry(mount) == mount.ok
IsHierarchyMount(mount, version) ==
  IF version = 2 THEN mount.fstype = "cgroup2" ELSE mount.fstype = "cgroup" /\ NamesMemory(mount)
ByText(root, path) == root = <<>> \/ (path # <<>> /\ Head(root) = Head(path))
Below(root, path) == IsPrefix(root, path)

Mounts(lines, member) ==
  SelectSeq(lines, LAMBDA mount : IsHierarchyMount(mount, member.version) /\ Below(mount.root, member.path))
FindMount(lines, member) ==
  IF \E i \in DOMAIN lines : ~IsMountEntry(lines[i]) THEN [is |-> "malformed"]
  ELSE IF Mounts(lines, member) = <<>> THEN [is |-> "contradiction"]
  ELSE [is |-> "found", root |-> Mounts(lines, member)[1].root]

(* The cgroup's directory and each one above it up to the mount's root, as *)
(* the cgroups they stand for.                                             *)
LeafOnly(root, path) == <<path>>
DirectoriesUpward(root, path) ==
  [i \in 1 .. Len(path) - Len(root) + 1 |-> SubSeq(path, 1, Len(path) - i + 1)]

(* One limit as the kernel prints it.                                      *)
ParseMemoryLimit(file, version) ==
  IF file.text = "max" /\ version = 2 THEN [ok |-> TRUE, limit |-> None]
  ELSE IF file.text # "number" THEN [ok |-> FALSE]
  ELSE [ok |-> TRUE, limit |-> IF version = 1 /\ file.bytes >= Unlimited THEN None ELSE file.bytes]

Lower(soFar, here) ==
  IF here = None THEN soFar ELSE IF soFar = None THEN here ELSE Min({soFar, here})

-----------------------------------------------------------------------------
(* The reading.  A failure ends it, with its kind.                         *)
Begin == [at |-> "meminfo", member |-> [is |-> "none"], left |-> <<>>, limit |-> None, failure |-> "none"]
NoRecord == [located |-> FALSE, seen |-> FALSE, kills |-> 0, file |-> "kept", asked |-> "nothing",
             answer |-> [is |-> "none"]]

Init ==
  /\ machine \in Machines /\ before = machine.limits
  /\ reader = Begin /\ record = NoRecord

Ends(failure) == reader' = [reader EXCEPT !.at = "done", !.failure = failure]
Goes(at) == reader' = [reader EXCEPT !.at = at]
Fault(file) == machine.fault.file = file
Failure(seen) == Classify(machine.fault.errno, seen)
Still == UNCHANGED <<machine, before, record>>

ReadMeminfo ==
  /\ reader.at = "meminfo"
  /\ \/ Fault("meminfo") /\ Ends(Failure(FALSE))
     \/ ~Fault("meminfo") /\ machine.meminfo = "bad" /\ Ends("malformed")
     \/ ~Fault("meminfo") /\ machine.meminfo = "no line" /\ Ends("absent")
     \/ ~Fault("meminfo") /\ machine.meminfo = "line" /\ Goes("cgroup")
  /\ Still

(* Absent is an answer here: a kernel without cgroups.                     *)
ReadMembership ==
  /\ reader.at = "cgroup"
  /\ LET member == ParseMembership(machine.lines) IN
     \/ Fault("cgroup") /\ Failure(FALSE) = "absent" /\ Goes("done")
     \/ Fault("cgroup") /\ Failure(FALSE) # "absent" /\ Ends(Failure(FALSE))
     \/ ~Fault("cgroup") /\ member.is = "malformed" /\ Ends("malformed")
     \/ ~Fault("cgroup") /\ member.is = "none" /\ Goes("done")
     \/ /\ ~Fault("cgroup") /\ member.is = "member"
        /\ reader' = [reader EXCEPT !.at = "mountinfo", !.member = member]
  /\ Still

ReadMounts ==
  /\ reader.at = "mountinfo"
  /\ LET found == FindMount(machine.mounts, reader.member) IN
     \/ Fault("mountinfo") /\ Ends(Failure(FALSE))
     \/ ~Fault("mountinfo") /\ found.is # "found" /\ Ends(found.is)
     \/ /\ ~Fault("mountinfo") /\ found.is = "found"
        /\ reader' = [reader EXCEPT !.at = "probe", !.left = DirectoriesUpward(found.root, reader.member.path)]
  /\ Still

(* The directory the two files agree on must be there.                     *)
Probe ==
  /\ reader.at = "probe"
  /\ \/ Fault("probe") /\ Failure(FALSE) = "absent" /\ Ends("contradiction")
     \/ Fault("probe") /\ Failure(FALSE) # "absent" /\ Ends(Failure(FALSE))
     \/ ~Fault("probe") /\ Goes(IF reader.member.version = 1 THEN "stat" ELSE "max")
  /\ Still

(* v1: the kernel's own minimum over the cgroup and all above it.          *)
Numbers(limits) ==
  {limits[p].bytes : p \in {q \in DOMAIN limits : IsRead(limits[q]) /\ limits[q].text = "number"}}
Above(limits, path) == [p \in {q \in DOMAIN limits : IsPrefix(q, path)} |-> limits[p]]
Hierarchical == Min(Numbers(Above(machine.limits, reader.member.path)) \cup {Unlimited})
ReadStat ==
  /\ reader.at = "stat"
  /\ LET parsed == ParseMemoryLimit(Holds(IF machine.stat = "bad" THEN "bad" ELSE "number", Hierarchical), 1) IN
     \/ Fault("stat") /\ Ends(Failure(FALSE))
     \/ ~Fault("stat") /\ machine.stat \in {"no line", "twice"} /\ Ends("malformed")
     \/ ~Fault("stat") /\ machine.stat = "bad" /\ ~parsed.ok /\ Ends("malformed")
     \/ /\ ~Fault("stat") /\ machine.stat = "once"
        /\ reader' = [reader EXCEPT !.at = "done", !.limit = parsed.limit]
  /\ Still

(* v2: the lowest memory.max of all the directories.  None is no limit.    *)
AnyIsNoLimit(file) == ~IsRead(file)
IsNoLimit(file) == ~IsRead(file) /\ Classify(file.errno, FALSE) = "absent"
ReadMax ==
  /\ reader.at = "max"
  /\ \/ reader.left = <<>> /\ Goes("done")
     \/ /\ reader.left # <<>>
        /\ LET file == machine.limits[Head(reader.left)] IN
           \/ IsNoLimit(file) /\ reader' = [reader EXCEPT !.left = Tail(@)]
           \/ ~IsRead(file) /\ ~IsNoLimit(file) /\ Ends(Classify(file.errno, FALSE))
           \/ IsRead(file) /\ ~ParseMemoryLimit(file, 2).ok /\ Ends("malformed")
           \/ /\ IsRead(file) /\ ParseMemoryLimit(file, 2).ok
              /\ reader' = [reader EXCEPT !.left = Tail(@),
                              !.limit = Lower(@, ParseMemoryLimit(file, 2).limit)]
  /\ Still

(* An administrator sets the limit of one cgroup.                          *)
SetLimit(path, limit) ==
  /\ machine.changes > 0 /\ reader.at # "done"
  /\ IsRead(machine.limits[path]) /\ machine.limits[path].bytes # limit
  /\ machine' = [machine EXCEPT !.changes = @ - 1, !.limits[path] = Holds("number", limit)]
  /\ UNCHANGED <<before, reader, record>>

-----------------------------------------------------------------------------
(* The OOM-kill count: located when the reading of the budget is over, as  *)
(* the command does; read on every call through one source.                *)
Locate ==
  /\ reader.at = "done" /\ ~record.located /\ machine.watched
  /\ reader.failure = "none" /\ reader.member.is = "member"
  /\ record' = [record EXCEPT !.located = TRUE]
  /\ UNCHANGED <<machine, before, reader>>

Kill ==
  /\ record.located /\ record.kills < MaxKills
  /\ record' = [record EXCEPT !.kills = @ + 1]
  /\ UNCHANGED <<machine, before, reader>>

Becomes(file) ==
  /\ record.located /\ record.file # file
  /\ record' = [record EXCEPT !.file = file]
  /\ UNCHANGED <<machine, before, reader>>

CountOf(file) ==
  CASE file = "kept" -> [is |-> "count", value |-> record.kills]
    [] file = "no line" -> [is |-> "absent"]
    [] file \in {"twice", "bad"} -> [is |-> "malformed"]
ReadCount ==
  /\ record.located
  /\ IF record.file \in {"ENOENT", "EACCES", "EIO"}
     THEN record' = [record EXCEPT !.asked = record.file, !.answer = [is |-> Classify(record.file, record.seen)]]
     ELSE record' = [record EXCEPT !.asked = record.file, !.seen = TRUE, !.answer = CountOf(record.file)]
  /\ UNCHANGED <<machine, before, reader>>

CountFiles == {"kept", "no line", "twice", "bad", "ENOENT", "EACCES"}
Done == reader.at = "done" /\ ~record.located /\ UNCHANGED vars

Next ==
  \/ ReadMeminfo \/ ReadMembership \/ ReadMounts \/ Probe \/ ReadStat \/ ReadMax
  \/ \E path \in DOMAIN machine.limits, limit \in {1, 2} : SetLimit(path, limit)
  \/ Locate \/ Kill \/ ReadCount \/ Done
  \/ \E file \in CountFiles : Becomes(file)

Spec == Init /\ [][Next]_vars

-----------------------------------------------------------------------------
(* The limits that bind the process, as far as its mount shows them: the   *)
(* kernel's truth, without the reader's walk.                              *)
Shown == IF machine.truth.version = 1 THEN <<>> ELSE machine.truth.root
Binding(limits) ==
  LET above == Above(limits, machine.truth.path)
      set == Numbers([p \in {q \in DOMAIN above : IsPrefix(Shown, q)} |-> above[p]]) IN
  IF set = {} THEN None ELSE Min(set)
Hidden == \E p \in DOMAIN machine.limits :
  /\ IsPrefix(Shown, p) /\ IsPrefix(p, machine.truth.path)
  /\ machine.limits[p] \in {Fails("EACCES"), Fails("EIO"), Holds("bad", 0)}

(* A budget that was read is the limit that bound the process at some time *)
(* of the reading; one that could not be read is a failure with its kind,  *)
(* and never "no limit", except that a kernel without /proc/self/cgroup    *)
(* has none (read_memory_budget, locate_memory_cgroup).                    *)
BudgetBinds ==
  reader.at = "done" /\ reader.failure = "none" =>
    \/ machine.truth.version = 0 /\ reader.limit = None
    \/ Fault("cgroup") /\ machine.fault.errno = "ENOENT" /\ reader.limit = None
    \/ /\ machine.truth.version = 1 => machine.stat = "once"
       /\ machine.truth.version = 2 => ~Hidden
       /\ reader.limit \in {Binding(before), Binding(machine.limits)}

(* A count of kills that is given was the kernel's; what cannot be read is *)
(* no count; and a file that is gone has vanished if it was read before,   *)
(* and else was never there (CgroupOomKillRecord::kills, Source).          *)
CountIsKept ==
  /\ record.answer.is = "count" <=> record.asked = "kept"
  /\ record.answer.is = "count" => record.answer.value <= record.kills
  /\ record.asked = "ENOENT" => record.answer.is = IF record.seen THEN "vanished" ELSE "absent"

(* The parts of the reader and of the record keep their types.             *)
TypeOK ==
  /\ reader.limit \in Nat \cup {None}
  /\ reader.failure \in {"none", "absent", "denied", "unreadable", "malformed", "contradiction"}
  /\ record.kills \in 0 .. MaxKills
=============================================================================
