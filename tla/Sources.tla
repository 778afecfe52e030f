------------------------------ MODULE Sources -------------------------------
(***************************************************************************)
(* The telemetry sources (telemetry/sources): what each finds on a machine *)
(* when it is probed, and what it answers in every round after that, while *)
(* files go away, turn unreadable and come back.  One source runs at a     *)
(* time; `kind` says which.                                                *)
(*                                                                         *)
(* The world maps a path, a name and the numbers in it, to a file: an      *)
(* error, a text, a number (Bad if the text is no number), and the share   *)
(* of the time a perf event was on its counter.                            *)
(***************************************************************************)
EXTENDS Integers, Sequences, FiniteSets, SequencesExt

CONSTANTS Worlds,     \* the worlds of each kind of source
          Files,      \* what a file may become
          MaxChanges  \* bound: changes to files

VARIABLES kind,       \* the source
          world,
          changes,
          source,     \* what the source holds: channels, descriptors, flags
          statuses,   \* the answer to the probe
          out         \* the answer to the last round

vars == <<kind, world, changes, source, statuses, out>>

Bad == -999
Absent == [errno |-> "ENOENT", text |-> "", number |-> Bad, share |-> 0]
At(path) == IF path \in DOMAIN world THEN world[path] ELSE Absent

(* topology::classify; a channel's own source has been read once.          *)
Classify(errno, seen) ==
  CASE errno = "ENOENT" -> IF seen THEN "vanished" ELSE "absent"
    [] errno = "EACCES" -> "denied"
    [] OTHER -> "unreadable"

(* Channel::value, and each source's read_count: a number in its range.    *)
Value(path, seen, low, high) ==
  LET file == At(path) IN
  IF file.errno # "none" THEN Classify(file.errno, seen)
  ELSE IF file.number \notin low .. high THEN "malformed"
  ELSE "value"

-----------------------------------------------------------------------------
(* A probe fills statuses and channels, one metric after the other.        *)
Empty == [statuses |-> <<>>, channels |-> <<>>, open |-> {}, share |-> FALSE, why |-> "none"]
Refuse(acc, series, path, why) ==
  [acc EXCEPT !.statuses = Append(@, [series |-> series, path |-> path, is |-> why])]
Serve(acc, series, path, low, high) ==
  [acc EXCEPT !.statuses = Append(@, [series |-> series, path |-> path, is |-> "present"]),
              !.channels = Append(@, [path |-> path, low |-> low, high |-> high])]
Record(acc, series, path, low, high) ==
  LET found == Value(path, FALSE, low, high) IN
  IF found = "value" THEN Serve(acc, series, path, low, high) ELSE Refuse(acc, series, path, found)
IfNone(acc, series, path) ==
  IF acc.statuses = <<>> THEN Refuse(acc, series, path, "absent") ELSE acc

(* find_hwmon_chips: a chip whose name cannot be read is kept, unnamed.    *)
Inputs == <<<<0, 1>>, <<0, 2>>, <<1, 1>>>>
HasChip(chip) == At(<<"name", chip>>).errno # "ENOENT"
ChipName(chip) == IF At(<<"name", chip>>).errno = "none" THEN At(<<"name", chip>>).text ELSE ""
SeriesIndex(chip, input) == chip * 256 + input
Skipped(chip, path, low, high) == ~HasChip(chip) \/ Value(path, FALSE, low, high) = "absent"

(* ThermalSource: what the driver calls the input, if no other has it.     *)
MinTemperature == -3
MaxTemperature == 10
Unidentified(at) == <<"thermal.sensor", "device", SeriesIndex(at[1], at[2])>>
Identify(at) ==
  LET label == At(<<"label", at[1], at[2]>>).text IN
  CASE ChipName(at[1]) = "coretemp" /\ label = "Package id 0" -> <<"thermal.package", "package", 0>>
    [] ChipName(at[1]) = "coretemp" /\ label = "Core 0" -> <<"thermal.core", "core", 0>>
    [] ChipName(at[1]) = "k10temp" /\ label = "Tdie" -> <<"thermal.package", "package", 0>>
    [] OTHER -> Unidentified(at)
NotAsked(acc, series) == FALSE
IsTaken(acc, series) == \E i \in DOMAIN acc.statuses : acc.statuses[i].series = series
ThermalInput(acc, at) ==
  LET path == <<"temp", at[1], at[2]>> IN
  IF Skipped(at[1], path, MinTemperature, MaxTemperature) THEN acc
  ELSE Record(acc, IF IsTaken(acc, Identify(at)) THEN Unidentified(at) ELSE Identify(at), path,
              MinTemperature, MaxTemperature)
Zone(acc, zone) ==
  LET path == <<"zone", zone>> IN
  IF Value(path, FALSE, MinTemperature, MaxTemperature) = "absent" THEN acc
  ELSE Record(acc, <<"thermal.zone", "device", zone>>, path, MinTemperature, MaxTemperature)
Thermal == IfNone(FoldLeft(Zone, FoldLeft(ThermalInput, Empty, Inputs), <<0, 1>>),
                  <<"thermal.package", "package", 0>>, <<"hwmon">>)

(* FanSource                                                               *)
MaxRpm == 10
FanInput(acc, at) ==
  LET path == <<"fan", at[1], at[2]>> IN
  IF Skipped(at[1], path, 0, MaxRpm) THEN acc
  ELSE Record(acc, <<"fan.speed", "device", SeriesIndex(at[1], at[2])>>, path, 0, MaxRpm)
Fan == IfNone(FoldLeft(FanInput, Empty, Inputs), <<"fan.speed", "device", 0>>, <<"hwmon">>)

(* FrequencySource: the online CPUs' clocks, and two counters of one line. *)
MaxKilohertz == 10
Frequency ==
  LET online == At(<<"online">>)
      cpus == CASE online.errno # "none" -> Refuse(Empty, <<"frequency.cpu", "cpu", 0>>, <<"online">>, Classify(online.errno, FALSE))
                [] online.errno = "none" /\ online.number \notin 1 .. 2 ->
                     Refuse(Empty, <<"frequency.cpu", "cpu", 0>>, <<"online">>, "malformed")
                [] OTHER -> FoldLeft(LAMBDA acc, cpu : Record(acc, <<"frequency.cpu", "cpu", cpu>>, <<"freq", cpu>>, 0, MaxKilohertz),
                                     Empty, [i \in 1 .. online.number |-> i - 1])
  IN FoldLeft(LAMBDA acc, name : Record(acc, <<name, "machine", 0>>, <<"stat">>, 0, 999), cpus,
              <<"frequency.busy_ticks", "frequency.total_ticks">>)

(* MemorySource: a line of a file.  What a missing line means depends on   *)
(* whether it has been seen.                                               *)
Fields == <<"MemTotal", "MemAvailable">>
FieldValue(field, missing, seen) ==
  LET file == At(<<"meminfo">>)
      line == At(<<"line", field>>) IN
  IF file.errno # "none" THEN Classify(file.errno, seen)
  ELSE IF line.errno = "ENOENT" THEN missing
  ELSE IF line.number < 0 THEN "malformed"
  ELSE "value"
Memory == FoldLeft(LAMBDA acc, field :
    LET found == FieldValue(field, "absent", FALSE)
        series == <<"memory", "machine", field>> IN
    IF found = "value" THEN Serve(acc, series, <<"line", field>>, 0, 999)
    ELSE Refuse(acc, series, <<"line", field>>, found), Empty, Fields)

(* EdacSource: the first controller without a ce_count ends the list.      *)
EdacRange == 9
Controllers == <<0, 1>>
Listed(index) == \A i \in 0 .. index : Value(<<"ce", i>>, FALSE, 0, EdacRange - 1) # "absent"
Controller(acc, index) ==
  IF ~Listed(index) THEN acc
  ELSE Record(Record(acc, <<"edac.corrected", "controller", index>>, <<"ce", index>>, 0, EdacRange - 1),
              <<"edac.uncorrected", "controller", index>>, <<"ue", index>>, 0, EdacRange - 1)
Edac ==
  LET found == FoldLeft(Controller, Empty, Controllers) IN
  IF found.statuses # <<>> THEN found
  ELSE Refuse(Refuse(Empty, <<"edac.corrected", "machine", 0>>, <<"mc">>, "absent"),
              <<"edac.uncorrected", "machine", 0>>, <<"mc">>, "absent")

(* A perf event: opened, reset, enabled; closed again if that fails.       *)
ClassifyPerfOpen(errno) ==
  CASE errno \in {"ENOENT", "EINVAL"} -> "absent" [] errno = "EACCES" -> "denied" [] OTHER -> "unreadable"
Opened(path) == IF At(path).errno \in {"none", "control"} THEN "open" ELSE ClassifyPerfOpen(At(path).errno)
Perf(acc, series, path) ==
  IF Opened(path) # "open" THEN Refuse(acc, series, path, Opened(path))
  ELSE IF At(path).errno = "control" THEN Refuse(acc, series, path, "unreadable")
  ELSE [Serve(acc, series, path, 0, 999) EXCEPT !.open = @ \cup {path}]

(* CountersSource: two hardware events, a software one, and the share of   *)
(* the time that the hardware ones were counted.                           *)
Events == <<"cycles", "instructions", "context_switches">>
IsHardware(event) == event # "context_switches"
Event(acc, event) ==
  LET path == <<"perf", event>>
      next == Perf(acc, <<"counters", "machine", event>>, path) IN
  IF ~IsHardware(event) THEN next
  ELSE IF path \in next.open THEN [next EXCEPT !.share = TRUE]
  ELSE IF next.why = "none" THEN [next EXCEPT !.why = Last(next.statuses).is]
  ELSE next
Counters ==
  LET found == FoldLeft(Event, Empty, Events)
      series == <<"counters", "machine", "share">> IN
  IF found.share
  THEN [found EXCEPT !.statuses = Append(@, [series |-> series, path |-> <<"share">>, is |-> "present"])]
  ELSE Refuse(found, series, <<"share">>, found.why)

(* PowerSource: powercap's zones, and the power PMU for what they refuse.  *)
(* Its description is read first; a number of CPUs, none of them an error. *)
Pmu == CASE At(<<"pmu">>).errno # "none" -> Classify(At(<<"pmu">>).errno, FALSE)
         [] At(<<"pmu">>).number = Bad -> "malformed"
         [] At(<<"pmu">>).number = 0 -> "absent"
         [] OTHER -> "value"
PmuCpus == IF Pmu = "value" THEN At(<<"pmu">>).number ELSE 0
RangeOf(zone) == At(<<"range", zone>>)
TryPowercap(zone) ==
  CASE At(<<"zone name", zone>>).errno # "none" -> Classify(At(<<"zone name", zone>>).errno, FALSE)
    [] OTHER -> IF Value(<<"range", zone>>, FALSE, 0, 999) # "value" THEN Value(<<"range", zone>>, FALSE, 0, 999)
                ELSE IF RangeOf(zone).number = 0 THEN "malformed"
                ELSE Value(<<"energy", zone>>, FALSE, 0, RangeOf(zone).number - 1)
Actionability(why) == CASE why = "denied" -> 5 [] why = "malformed" -> 4 [] why = "unreadable" -> 3 [] OTHER -> 1
Combined(first, second) == IF Actionability(second) > Actionability(first) THEN second ELSE first
Package(acc, zone, package) ==
  LET series == <<"power.package", "package", package>>
      powercap == TryPowercap(zone)
      path == <<"power", package>> IN
  CASE powercap = "value" -> Serve(acc, series, <<"energy", zone>>, 0, RangeOf(zone).number - 1)
    [] powercap # "value" /\ package < PmuCpus /\ At(path).errno = "none" -> Perf(acc, series, path)
    [] powercap # "value" /\ package < PmuCpus /\ At(path).errno # "none" ->
         LET perf == Perf(Empty, series, path).statuses[1].is IN
         Refuse(acc, series, <<"energy", zone>>, Combined(powercap, perf))
    [] OTHER -> Refuse(acc, series, <<"energy", zone>>,
                       IF Pmu \in {"value", "absent"} THEN powercap ELSE Combined(powercap, Pmu))
ZoneEnds(zone) == \E z \in 0 .. zone : At(<<"zone name", z>>).errno = "ENOENT"
IsPackage(zone) == At(<<"zone name", zone>>).errno # "none" \/ At(<<"zone name", zone>>).text = "package"
Before(zone) == Cardinality({z \in 0 .. zone - 1 : IsPackage(z)})
PowercapZone(acc, zone) == IF ZoneEnds(zone) \/ ~IsPackage(zone) THEN acc ELSE Package(acc, zone, Before(zone))
PmuOnly ==
  LET found == FoldLeft(LAMBDA acc, cpu : Perf(acc, <<"power.package", "package", cpu>>, <<"power", cpu>>),
                        Empty, [i \in 1 .. PmuCpus |-> i - 1]) IN
  IF found.statuses = <<>> THEN Refuse(found, <<"power.package", "package", 0>>, <<"pmu">>, Pmu) ELSE found
Power ==
  LET zones == FoldLeft(PowercapZone, Empty, <<0, 1>>) IN IF zones.statuses = <<>> THEN PmuOnly ELSE zones

-----------------------------------------------------------------------------
Init ==
  /\ kind \in DOMAIN Worlds /\ world \in Worlds[kind]
  /\ changes = 0 /\ source = [probed |-> FALSE, channels |-> <<>>, open |-> {}, share |-> FALSE]
  /\ statuses = <<>> /\ out = <<>>

Found ==
  CASE kind = "thermal" -> Thermal [] kind = "fan" -> Fan [] kind = "frequency" -> Frequency
    [] kind = "memory" -> Memory [] kind = "edac" -> Edac [] kind = "counters" -> Counters
    [] kind = "power" -> Power

Probe ==
  /\ ~source.probed
  /\ statuses' = Found.statuses
  /\ source' = [probed |-> TRUE, channels |-> Found.channels, open |-> Found.open, share |-> Found.share]
  /\ UNCHANGED <<kind, world, changes, out>>

(* One reading of a channel.  A perf event that was enabled and never on a *)
(* counter has counted nothing.                                            *)
IsPerf(channel) == channel.path[1] \in {"perf", "power"}
Uncounted(channel) == IsPerf(channel) /\ At(channel.path).errno = "none" /\ At(channel.path).share = 0
Fresh(channel) == Value(channel.path, FALSE, channel.low, channel.high)
Reread(channel) == Value(channel.path, TRUE, channel.low, channel.high)
ReadCount(channel) == IF At(channel.path).errno = "none" THEN "value" ELSE Classify(At(channel.path).errno, TRUE)
Reading(channel) ==
  LET found == CASE kind = "memory" -> FieldValue(channel.path[2], "vanished", TRUE)
                 [] kind = "counters" /\ Uncounted(channel) -> "unreadable"
                 [] IsPerf(channel) /\ ~(kind = "counters" /\ Uncounted(channel)) -> ReadCount(channel)
                 [] OTHER -> Reread(channel) IN
  [is |-> found, path |-> channel.path, value |-> IF found = "value" THEN At(channel.path).number ELSE Bad]
HardwareRead == \E i \in DOMAIN source.channels :
  source.channels[i].path[1] = "perf" /\ IsHardware(source.channels[i].path[2]) /\ Reading(source.channels[i]).is = "value"
Share == IF ~source.share THEN <<>>
         ELSE <<[is |-> IF HardwareRead THEN "value" ELSE "unreadable", path |-> <<"share">>, value |-> 0]>>

Sample ==
  /\ source.probed
  /\ out' = [i \in DOMAIN source.channels |-> Reading(source.channels[i])] \o Share
  /\ UNCHANGED <<kind, world, changes, source, statuses>>

(* The destructor closes what it holds.                                    *)
Held == {source.channels[i].path : i \in {j \in DOMAIN source.channels : IsPerf(source.channels[j])}}

Changes(path, file) ==
  /\ source.probed /\ changes < MaxChanges /\ world[path] # file
  /\ changes' = changes + 1
  /\ world' = [world EXCEPT ![path] = file]
  /\ UNCHANGED <<kind, source, statuses, out>>

Next == Probe \/ Sample \/ \E path \in DOMAIN world, file \in Files : Changes(path, file)

Spec == Init /\ [][Next]_vars

-----------------------------------------------------------------------------
Present == SelectSeq(statuses, LAMBDA s : s.is = "present")

(* What a source promises the sampler, which pairs readings with metrics   *)
(* by position (telemetry/source.hpp): a probe answers something, no       *)
(* series twice; every round has one reading for each metric that was      *)
(* present, in order, of that metric's own file; one that was there is     *)
(* never absent, only vanished; and the descriptors that are open are the  *)
(* ones the channels hold.                                                 *)
SourceKeepsContract ==
  /\ source.probed => statuses # <<>>
  /\ \A i, j \in DOMAIN statuses : i # j => statuses[i].series # statuses[j].series
  /\ out # <<>> => Len(out) = Len(Present)
  /\ \A i \in DOMAIN out : out[i].path = Present[i].path /\ out[i].is # "absent"
  /\ source.open = Held

(* The variables keep their types.                                         *)
TypeOK ==
  /\ changes \in 0 .. MaxChanges
  /\ \A i \in DOMAIN statuses :
       statuses[i].is \in {"present", "absent", "denied", "malformed", "unreadable"}
=============================================================================
