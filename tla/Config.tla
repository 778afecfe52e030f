------------------------------- MODULE Config -------------------------------
(***************************************************************************)
(* The configuration of a run: the file is read (load), its TOML tree is   *)
(* checked key by key into a Config (Validator), and a Config is written   *)
(* back as TOML (to_toml).  With it the values that are text: a number, a  *)
(* size, a length of time (core/).                                         *)
(*                                                                         *)
(* A text is its sign, its number and what follows; the integers have the  *)
(* widths of the constants; and a unit is a small power, so that a number  *)
(* can overflow in each.                                                   *)
(***************************************************************************)
EXTENDS Integers, Sequences, FiniteSets, SequencesExt

CONSTANTS Files,        \* what may be at the path, in families: [is, size, document]
          MaxUnsigned,  \* the largest std::uint64_t
          MaxSigned,    \* the largest std::int64_t
          MaxThreads,   \* the largest std::uint32_t
          Kibi,         \* 1024
          Sixty,        \* 60
          Thousand,     \* 1000
          Nanos,        \* nanoseconds in a millisecond
          MaxCelsius,   \* kMaxTemperatureLimitC
          Chunk         \* what one fread takes

VARIABLES file, text, read, again

configVars == <<file, text, read, again>>

None == -1

-----------------------------------------------------------------------------
(* core/: text that is a number and a unit.                                *)
Written(kind, value, suffix) == [kind |-> kind, value |-> value, suffix |-> suffix]
Number(value, suffix) == Written("number", value, suffix)
Word(word) == Written("word", 0, word)
Empty == Written("empty", 0, "")

SplitNumber(t) ==
  CASE t.kind = "empty" -> [error |-> "Empty", value |-> 0]
    [] t.kind = "negative" -> [error |-> "NegativeValue", value |-> 0]
    [] t.kind = "word" -> [error |-> "InvalidNumber", value |-> 0]
    [] t.kind = "number" -> IF t.value > MaxUnsigned THEN [error |-> "OutOfRange", value |-> 0]
                            ELSE [error |-> "", value |-> t.value]

SizeUnits == <<[suffix |-> "B", scale |-> 1], [suffix |-> "KiB", scale |-> Kibi], [suffix |-> "MiB", scale |-> Kibi ^ 2],
               [suffix |-> "GiB", scale |-> Kibi ^ 3], [suffix |-> "TiB", scale |-> Kibi ^ 4]>>
TimeUnits == <<[suffix |-> "ms", scale |-> 1], [suffix |-> "s", scale |-> Thousand],
               [suffix |-> "m", scale |-> Sixty * Thousand], [suffix |-> "h", scale |-> Sixty * Sixty * Thousand]>>
UnitOf(units, suffix) == SelectSeq(units, LAMBDA unit : unit.suffix = suffix)
Wrapped(value, most) == value % (most + 1)
Unchecked(units, count, suffix, most) ==
  IF UnitOf(units, suffix) = <<>> THEN [error |-> "UnknownUnit", value |-> 0]
  ELSE [error |-> "", value |-> Wrapped(count * UnitOf(units, suffix)[1].scale, most)]
Scaled(units, count, suffix, most) ==
  IF UnitOf(units, suffix) = <<>> THEN [error |-> "UnknownUnit", value |-> 0]
  ELSE LET scale == UnitOf(units, suffix)[1].scale IN
       IF count > most \div scale THEN [error |-> "OutOfRange", value |-> 0]
       ELSE [error |-> "", value |-> Wrapped(count * scale, most)]

Bytes(count) == [error |-> "", bytes |-> count, percent |-> None]
NoSize(error) == [error |-> error, bytes |-> None, percent |-> None]
ParseByteSize(t) ==
  LET split == SplitNumber(t) IN
  IF split.error # "" THEN NoSize(split.error)
  ELSE IF t.suffix = "" THEN Bytes(split.value)
  ELSE IF t.suffix = "%" THEN
    IF split.value \notin 1 .. 100 THEN NoSize("OutOfRange") ELSE [error |-> "", bytes |-> None, percent |-> split.value]
  ELSE LET scaled == Scaled(SizeUnits, split.value, t.suffix, MaxUnsigned) IN
       IF scaled.error # "" THEN NoSize(scaled.error) ELSE Bytes(scaled.value)
ParseDuration(t) ==
  LET split == SplitNumber(t) IN
  IF split.error # "" THEN split
  ELSE IF t.suffix = "" THEN [error |-> "MissingUnit", value |-> 0]
  ELSE Scaled(TimeUnits, split.value, t.suffix, MaxSigned)

(* Written in the largest unit that divides it.                            *)
InUnits(units, count) ==
  LET exact == SelectSeq(units, LAMBDA unit : count # 0 /\ count % unit.scale = 0)
      unit == IF exact = <<>> THEN units[1] ELSE Last(exact)
  IN Number(count \div unit.scale, unit.suffix)
SizeText(size) == IF size.percent # None THEN Number(size.percent, "%") ELSE InUnits(SizeUnits, size.bytes)
DurationText(duration) == InUnits(TimeUnits, duration)

-----------------------------------------------------------------------------
(* A TOML node is its type and its value; a table has its keys' nodes.     *)
Node(type, number, words) == [type |-> type, number |-> number, text |-> words]
Absent == Node("absent", 0, Empty)
Integer(number) == Node("integer", number, Empty)
Boolean(flag) == Node("boolean", IF flag THEN 1 ELSE 0, Empty)
String(words) == Node("string", 0, words)

SchemaVersion == 1
LongestRun == (MaxSigned \div Nanos) \div 4
Modes == {"benchmark", "stress", "explore"}

(* A check of the walk: what it refuses, and the key it names.             *)
Refuse(bad, key, why) == [bad |-> bad, key |-> key, why |-> why]
RequiredString(node, key) ==
  <<Refuse(node.type = "absent", key, "missing"), Refuse(node.type # "string", key, "type")>>
OptionalByteSize(node, key) ==
  IF node.type = "absent" THEN <<>>
  ELSE <<Refuse(node.type # "string", key, "type"),
         Refuse(ParseByteSize(node.text).error # "", key, ParseByteSize(node.text).error),
         Refuse(ParseByteSize(node.text).bytes = 0, key, "zero")>>

RootChecks(d) ==
  <<Refuse(d.extra, "extra", "unknown"),
    Refuse(d.schema.type = "absent", "schema_version", "missing"),
    Refuse(d.schema.type # "integer", "schema_version", "type"),
    Refuse(d.schema.number # SchemaVersion, "schema_version", "version")>>
RunChecks(run) ==
  <<Refuse(run.type = "absent", "run", "missing"), Refuse(run.type # "table", "run", "type"),
    Refuse(run.extra, "run.extra", "unknown")>>
  \o RequiredString(run.mode, "run.mode")
  \o <<Refuse(run.mode.text \notin {Word(mode) : mode \in Modes}, "run.mode", "mode")>>
  \o RequiredString(run.duration, "run.duration")
  \o <<Refuse(ParseDuration(run.duration.text).error # "", "run.duration", ParseDuration(run.duration.text).error),
       Refuse(ParseDuration(run.duration.text).value <= 0, "run.duration", "zero"),
       Refuse(ParseDuration(run.duration.text).value > LongestRun, "run.duration", "longest")>>
LimitChecks(limits) ==
  IF limits.type = "absent" THEN <<>>
  ELSE <<Refuse(limits.type # "table", "limits", "type"), Refuse(limits.extra, "limits.extra", "unknown")>>
       \o (IF limits.celsius.type = "absent" THEN <<>>
           ELSE <<Refuse(limits.celsius.type # "integer", "limits.max_temperature_c", "type"),
                  Refuse(limits.celsius.number \notin 1 .. MaxCelsius, "limits.max_temperature_c", "range")>>)
       \o OptionalByteSize(limits.memory, "limits.memory")
ThreadsChecks(node) ==
  <<Refuse(node.type = "absent", "workload.threads", "missing"),
    Refuse(node.type = "string" /\ node.text # Word("all"), "workload.threads", "word"),
    Refuse(node.type \notin {"string", "integer"}, "workload.threads", "type"),
    Refuse(node.type = "integer" /\ node.number \notin 1 .. MaxThreads, "workload.threads", "range")>>
WorkloadChecks(w) ==
  <<Refuse(w.type # "table", "workload", "type"), Refuse(w.extra, "workload.extra", "unknown")>>
  \o RequiredString(w.name, "workload.name") \o <<Refuse(w.name.text = Empty, "workload.name", "empty")>>
  \o ThreadsChecks(w.threads)
  \o (IF w.enabled.type = "absent" THEN <<>> ELSE <<Refuse(w.enabled.type # "boolean", "workload.enabled", "type")>>)
  \o OptionalByteSize(w.memory, "workload.memory")
ArrayChecks(workload) ==
  <<Refuse(workload.type = "absent", "workload", "missing"), Refuse(workload.type # "array", "workload", "type"),
    Refuse(workload.items = <<>>, "workload", "none")>>
  \o FlattenSeq([i \in DOMAIN workload.items |-> WorkloadChecks(workload.items[i])])
Checks(d) == RootChecks(d) \o RunChecks(d.run) \o LimitChecks(d.limits) \o ArrayChecks(d.workload)

SizeOf(node) == IF node.type = "absent" THEN NoSize("") ELSE ParseByteSize(node.text)
ConfigOf(d) ==
  [mode |-> d.run.mode.text.suffix, duration |-> ParseDuration(d.run.duration.text).value,
   celsius |-> IF d.limits.celsius.type = "absent" THEN None ELSE d.limits.celsius.number,
   memory |-> SizeOf(d.limits.memory),
   workloads |-> [i \in DOMAIN d.workload.items |->
     LET w == d.workload.items[i] IN
     [name |-> w.name.text.suffix, threads |-> IF w.threads.type = "string" THEN 0 ELSE w.threads.number,
      enabled |-> w.enabled.type = "absent" \/ w.enabled.number = 1, memory |-> SizeOf(w.memory)]]]
NoConfig == [mode |-> "", duration |-> 0, celsius |-> None, memory |-> NoSize(""), workloads |-> <<>>]
Refusal(key, why) == [ok |-> FALSE, key |-> key, why |-> why, config |-> NoConfig]
Validate(d) ==
  LET met == SelectSeq(Checks(d), LAMBDA check : check.bad) IN
  IF met # <<>> THEN Refusal(met[1].key, met[1].why)
  ELSE [ok |-> TRUE, key |-> "", why |-> "", config |-> ConfigOf(d)]

SizeNode(size) == IF size = NoSize("") THEN Absent ELSE String(SizeText(size))
ToToml(config) ==
  [extra |-> FALSE, schema |-> Integer(SchemaVersion),
   run |-> [type |-> "table", extra |-> FALSE, mode |-> String(Word(config.mode)), duration |-> String(DurationText(config.duration))],
   limits |-> [type |-> "table", extra |-> FALSE, memory |-> SizeNode(config.memory),
               celsius |-> IF config.celsius = None THEN Absent ELSE Integer(config.celsius)],
   workload |-> [type |-> "array", items |-> [i \in DOMAIN config.workloads |->
     LET w == config.workloads[i] IN
     [type |-> "table", extra |-> FALSE, name |-> String(Word(w.name)), enabled |-> Boolean(w.enabled), memory |-> SizeNode(w.memory),
      threads |-> IF w.threads = 0 THEN String(Word("all")) ELSE Integer(w.threads)]]]]

-----------------------------------------------------------------------------
(* load: the file is read a chunk at a time, to the first short one.       *)
Unread == [ok |-> FALSE, key |-> "", why |-> "unread", config |-> NoConfig]
ConfigInit == (\E i \in DOMAIN Files : file \in Files[i]) /\ text = 0 /\ read = Unread /\ again = Unread

Open ==
  /\ read = Unread /\ text = 0 /\ file.is = "missing"
  /\ read' = Refusal("", "cannot open") /\ UNCHANGED <<file, text, again>>
Got == IF file.is = "directory" THEN 0 ELSE IF file.size - text < Chunk THEN file.size - text ELSE Chunk
LastGot == Got < Chunk
ReadChunk ==
  /\ read = Unread /\ file.is # "missing" /\ text' = text + Got
  /\ read' = IF ~LastGot THEN read
             ELSE IF file.is = "directory" THEN Refusal("", "cannot read")
             ELSE IF file.is = "malformed" \/ text' < file.size THEN Refusal("", "TOML syntax")
             ELSE Validate(file.document)
  /\ UNCHANGED <<file, again>>
WriteBack == /\ read.ok /\ again = Unread
             /\ again' = Validate(ToToml(read.config)) /\ UNCHANGED <<file, text, read>>
Settled == read # Unread /\ (read.ok => again # Unread)
Rest == Settled /\ UNCHANGED configVars
ConfigNext == Open \/ ReadChunk \/ WriteBack \/ Rest
ConfigSpec == ConfigInit /\ [][ConfigNext]_configVars

-----------------------------------------------------------------------------
(* The walk's outcome keeps its shape.                                     *)
ConfigTypeOK == read.ok \in BOOLEAN /\ again.ok \in BOOLEAN /\ text \in 0 .. file.size

TrueValue(units, t) == t.value * UnitOf(units, t.suffix)[1].scale
SizeIsTrue(node, size) ==
  /\ node.type = "absent" <=> size = NoSize("")
  /\ size.bytes # None => size.bytes = IF node.text.suffix = "" THEN node.text.value ELSE TrueValue(SizeUnits, node.text)
  /\ size.percent # None => size.percent = node.text.value

(* A configuration that is accepted says what the file says: no size and   *)
(* no length of time has wrapped, sums of a few of its lengths in          *)
(* nanoseconds do not either, and written as TOML it is read back as it is *)
(* (parse, parse_byte_size, parse_duration, to_toml).  A whole, readable   *)
(* file is refused only for a key that is there or is missing.             *)
ConfigIsTrue ==
  /\ read.ok =>
       /\ text = file.size
       /\ read.config.duration = TrueValue(TimeUnits, file.document.run.duration.text)
       /\ read.config.duration > 0 /\ 4 * read.config.duration * Nanos <= MaxSigned
       /\ SizeIsTrue(file.document.limits.memory, read.config.memory)
       /\ \A i \in DOMAIN read.config.workloads :
            SizeIsTrue(file.document.workload.items[i].memory, read.config.workloads[i].memory)
  /\ again # Unread => again = read
  /\ read # Unread /\ ~read.ok /\ file.is = "whole" => read.key # ""
=============================================================================
