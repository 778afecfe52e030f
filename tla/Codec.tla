------------------------------- MODULE Codec -------------------------------
(***************************************************************************)
(* The bytes of what is sent and kept: error records (record/codec.cpp),   *)
(* commands and acknowledgements (control.cpp), tallies and memory locks   *)
(* (frames.cpp), the journal (journal/format.cpp); and the comparison that *)
(* makes an exact record (compare.cpp).                                    *)
(*                                                                         *)
(* A byte has few values and an integer few bytes.  A double is its bits,  *)
(* of which the order, the infinities and the NaNs matter.                 *)
(***************************************************************************)
EXTENDS Integers, Sequences, FiniteSets, FiniteSetsExt, SequencesExt, TLC

CONSTANTS Items,      \* what is written, in families: [is, value]
          ByteBits,   \* 8
          WordBytes, MaxText, MaxWindow, MaxLabel, MaxPayload, IsaPaths,
          Optionals,  \* kOptionalFields
          MaxCpu      \* the CPUs a mask names

VARIABLES item, wire, hurt, taken

codecVars == <<item, wire, hurt, taken>>

Base == 2 ^ ByteBits
U8 == 1
U16 == 2
U32 == 2
U64 == 3

LittleEndian(value, width) == [i \in 1 .. width |-> (value \div Base ^ (i - 1)) % Base]
Largest(width) == Base ^ width - 1
IsSigned(value) == value > Largest(U64) \div 2

(* A double by its bits.                                                   *)
Zero == 2
Infinity == 5
IsNaN(double) == double > Infinity
IsFinite(double) == double \in 1 .. Infinity - 1

-----------------------------------------------------------------------------
(* The fields, and the order they are written and read in.                 *)
F(type, width, optional) == [type |-> type, width |-> width, optional |-> optional]
One(width) == F("number", width, FALSE)
Maybe(width) == F("number", width, TRUE)
Text == F("text", U64, FALSE)
ProvenanceFields ==
  [logical_cpu |-> Maybe(U32), physical_core |-> Maybe(U32), numa_node |-> Maybe(U32), buffer_address |-> Maybe(U64),
   buffer_offset |-> Maybe(U64), iteration |-> Maybe(U64), workload |-> F("text", U64, TRUE), workload_version |-> Maybe(U32),
   seed |-> Maybe(U64), isa |-> Maybe(U8), input_integrity |-> Maybe(U8), duty |-> F("pair", U32, TRUE),
   physical_package |-> Maybe(U32), decomposition |-> Maybe(U32), footprint_bytes |-> Maybe(U64)]
ExactFields == [side |-> One(U8), check |-> Text, line_bytes |-> One(U32), difference |-> F("difference", U8, TRUE)]
DifferenceFields ==
  [domain |-> One(U8), first_offset |-> One(U64), last_offset |-> One(U64), popcount |-> One(U64), window_offset |-> One(U64),
   expected |-> F("window", U64, FALSE), actual |-> F("window", U64, FALSE)]
NumericalFields == [residual |-> One(U64), tolerance |-> One(U64), condition_number |-> Maybe(U64), element |-> Maybe(U64)]
NotPerformedFields == [what |-> Text, why |-> Text, blocks_compared |-> One(U64)]
CommandFields ==
  [sequence |-> One(U32), busy_permille |-> One(U16), period_ns |-> One(U64), cpus |-> F("list", U32, FALSE),
   name |-> F("long", U32, FALSE), run_seed |-> One(U64), footprint |-> One(U64), pieces |-> One(U32), oracle_period |-> One(U32),
   integrity_period |-> One(U32)]
AckFields == [status |-> One(U8), detail |-> F("long", U32, FALSE)]
Field ==
  ProvenanceFields @@ ExactFields @@ DifferenceFields @@ NumericalFields @@ NotPerformedFields @@ CommandFields @@ AckFields

PutProvenance ==
  <<"logical_cpu", "physical_core", "numa_node", "buffer_address", "buffer_offset", "iteration", "workload", "workload_version",
    "seed", "isa", "input_integrity", "duty", "physical_package", "decomposition", "footprint_bytes">>
PutKind(kind) ==
  CASE kind = 1 -> <<"side", "check", "line_bytes", "difference">>
    [] kind = 2 -> <<"check", "residual", "tolerance", "condition_number", "element">>
    [] kind = 3 -> <<"what", "why", "blocks_compared">>
PutDifference == <<"domain", "first_offset", "last_offset", "popcount", "window_offset", "expected", "actual">>
AsBefore == <<"logical_cpu", "physical_package", "physical_core", "numa_node", "buffer_address", "buffer_offset", "iteration",
              "workload", "workload_version", "seed", "isa", "input_integrity", "duty", "decomposition", "footprint_bytes">>
GetProvenance ==
  <<"logical_cpu", "physical_core", "numa_node", "buffer_address", "buffer_offset", "iteration", "workload", "workload_version",
    "seed", "isa", "input_integrity", "duty", "physical_package", "decomposition", "footprint_bytes">>
GetExact == <<"side", "check", "line_bytes", "difference">>
GetDifference == <<"domain", "first_offset", "last_offset", "popcount", "window_offset", "expected", "actual">>
GetNumerical == <<"check", "residual", "tolerance", "condition_number", "element">>
GetNotPerformed == <<"what", "why", "blocks_compared">>
GetKind(kind) == CASE kind = 1 -> GetExact [] kind = 2 -> GetNumerical [] kind = 3 -> GetNotPerformed
PutCommand(kind) ==
  <<"sequence">> \o
  (CASE kind = 4 -> <<"busy_permille", "period_ns">>
     [] kind = 5 -> <<"cpus">>
     [] kind = 6 -> <<"name", "run_seed", "footprint", "pieces", "oracle_period", "integrity_period">>
     [] OTHER -> <<>>)
GetCommand(kind) ==
  <<"sequence">> \o
  (CASE kind \in {1, 2, 3} -> <<>>
     [] kind = 4 -> <<"busy_permille", "period_ns">>
     [] kind = 5 -> <<"cpus">>
     [] OTHER -> <<"name", "run_seed", "footprint", "pieces", "oracle_period", "integrity_period">>)
Acknowledged == <<"sequence", "status", "detail">>

-----------------------------------------------------------------------------
(* Writing                                                                 *)
PutBody(field, value) ==
  CASE field.type = "number" -> LittleEndian(value, field.width)
    [] field.type \in {"text", "window", "long"} -> LittleEndian(Len(value), field.width) \o value
    [] field.type \in {"pair", "list"} ->
         (IF field.type = "list" THEN LittleEndian(Len(value), field.width) ELSE <<>>)
         \o FlattenSeq([i \in DOMAIN value |-> LittleEndian(value[i], field.width)])
Put(field, value) ==
  IF ~field.optional THEN PutBody(field, value)
  ELSE IF value = <<>> THEN <<0>> ELSE <<1>> \o PutBody(field, value[1])
PutField(fields, name) ==
  IF name # "difference" THEN Put(Field[name], fields[name])
  ELSE IF fields.difference = <<>> THEN <<0>>
  ELSE <<1>> \o FlattenSeq([i \in DOMAIN PutDifference |-> Put(Field[PutDifference[i]], fields.difference[1][PutDifference[i]])])
PutAll(fields, names) == FlattenSeq([i \in DOMAIN names |-> PutField(fields, names[i])])

RecordVersion == 2
ControlVersion == 1
AckKind == 7
EncodeRecord(r) == <<RecordVersion, r.kind>> \o PutAll(r.fields, PutProvenance \o PutKind(r.kind))
EncodeMessage(m) == <<ControlVersion, m.kind>> \o PutAll(m.fields, PutCommand(m.kind))
EncodeAck(a) == <<ControlVersion, AckKind>> \o PutAll(a.fields, Acknowledged)

MemoryVersion == 1
TallyVersion == 1
Counters == 7
EncodeMemory(lock) ==
  <<MemoryVersion, lock.policy, lock.outcome>> \o SubSeq(lock.detail, 1, Min({Len(lock.detail), MaxText}))
EncodeTally(tally) == <<TallyVersion>> \o FlattenSeq([i \in 1 .. Counters |-> LittleEndian(tally[i], U64)])

-----------------------------------------------------------------------------
(* Reading: each field is read, or the first that cannot be is the answer. *)
Step(at, fault, value) == [at |-> at, fault |-> fault, value |-> value]
Limit(type) == CASE type = "text" -> MaxText [] type = "window" -> MaxWindow [] OTHER -> Largest(U64)
Has(bytes, at, count) == at + count <= Len(bytes)
NumberAt(bytes, at, width) ==
  bytes[at + 1] + (IF width > 1 THEN Base * bytes[at + 2] ELSE 0) + (IF width > 2 THEN Base * Base * bytes[at + 3] ELSE 0)
GetCounted(bytes, at, from, count, limit, unit) ==
  IF count > limit THEN Step(at, "invalid", <<>>)
  ELSE IF ~Has(bytes, from, count * unit) THEN Step(from, "truncated", <<>>)
  ELSE Step(from + count * unit, "", [i \in 1 .. count |-> NumberAt(bytes, from + (i - 1) * unit, unit)])
GetBytes(bytes, at, field, unit) ==
  IF ~Has(bytes, at, field.width) THEN Step(at, "truncated", <<>>)
  ELSE GetCounted(bytes, at, at + field.width, NumberAt(bytes, at, field.width), Limit(field.type), unit)
GetBody(bytes, at, field) ==
  CASE field.type \in {"text", "window", "long", "list"} -> GetBytes(bytes, at, field, IF field.type = "list" THEN field.width ELSE U8)
    [] field.type = "pair" ->
         IF ~Has(bytes, at, 2 * field.width) THEN Step(at, "truncated", <<>>)
         ELSE Step(at + 2 * field.width, "",
                <<NumberAt(bytes, at, field.width), NumberAt(bytes, at + field.width, field.width)>>)
    [] OTHER ->
         IF ~Has(bytes, at, field.width) THEN Step(at, "truncated", 0)
         ELSE Step(at + field.width, "", NumberAt(bytes, at, field.width))
AnyFlag(flag) == TRUE
IsFlag(flag) == flag \in {0, 1}
Presence(bytes, at) ==
  IF ~Has(bytes, at, U8) THEN Step(at, "truncated", FALSE)
  ELSE IF ~IsFlag(bytes[at + 1]) THEN Step(at, "invalid", FALSE)
  ELSE Step(at + 1, "", bytes[at + 1] # 0)

RECURSIVE GetAll(_, _, _, _)
Present(got) == Step(got.at, got.fault, <<got.value>>)
GetOptional(bytes, name, flag) ==
  IF flag.fault # "" \/ ~flag.value THEN Step(flag.at, flag.fault, <<>>)
  ELSE Present(IF name = "difference" THEN GetAll(bytes, GetDifference, flag.at, <<>>) ELSE GetBody(bytes, flag.at, Field[name]))
GetRest(bytes, names, field, got) ==
  IF field.fault # "" THEN Step(field.at, field.fault, got)
  ELSE GetAll(bytes, Tail(names), field.at, (Head(names) :> field.value) @@ got)
GetAll(bytes, names, at, got) ==
  IF names = <<>> THEN Step(at, "", got)
  ELSE GetRest(bytes, names,
         IF Field[Head(names)].optional THEN GetOptional(bytes, Head(names), Presence(bytes, at))
         ELSE GetBody(bytes, at, Field[Head(names)]), got)

-----------------------------------------------------------------------------
(* The rules of a record: as the decoder looks for one that is broken, and *)
(* as record.hpp's is_valid asks.                                          *)
Presents(optional, values) == \A i \in DOMAIN optional : optional[i] \in values
InWindow(d, offset) == offset >= d.window_offset /\ offset - d.window_offset < Len(d.expected)
DiffersAt(d, offset) ==
  InWindow(d, offset) /\ d.expected[offset - d.window_offset + 1] # d.actual[offset - d.window_offset + 1]
IsPowerOfTwo(n) == \E k \in 0 .. ByteBits * U32 : n = 2 ^ k
ExceedsTolerance(residual, tolerance) == IsNaN(residual) \/ residual > tolerance

BrokenDifferenceRule(d) ==
  \/ d.domain > 1 \/ d.popcount = 0 \/ d.first_offset > d.last_offset
  \/ d.window_offset # (d.first_offset \div WordBytes) * WordBytes
  \/ Len(d.expected) # Len(d.actual) \/ d.expected = <<>> \/ Len(d.expected) > MaxWindow
  \/ ~InWindow(d, d.first_offset) \/ ~DiffersAt(d, d.first_offset)
  \/ InWindow(d, d.last_offset) /\ ~DiffersAt(d, d.last_offset)
BrokenKindRule(kind, f) ==
  CASE kind = 1 ->
         \/ f.side > 1 \/ f.check = <<>> \/ Len(f.check) > MaxText \/ f.line_bytes < WordBytes \/ ~IsPowerOfTwo(f.line_bytes)
         \/ f.difference # <<>> /\ BrokenDifferenceRule(f.difference[1])
    [] kind = 2 ->
         Len(f.check) > MaxText \/ ~IsFinite(f.tolerance) \/ f.tolerance <= Zero \/ ~ExceedsTolerance(f.residual, f.tolerance)
    [] kind = 3 -> Len(f.what) > MaxText \/ Len(f.why) > MaxText
BrokenRule(r) ==
  \/ r.fields.workload # <<>> /\ Len(r.fields.workload[1]) > MaxText
  \/ ~Presents(r.fields.isa, 0 .. IsaPaths - 1) \/ ~Presents(r.fields.input_integrity, 0 .. 3)
  \/ BrokenKindRule(r.kind, r.fields)
DifferenceIsValid(d) ==
  /\ d.domain <= 1 /\ d.popcount >= 1 /\ d.first_offset <= d.last_offset
  /\ d.window_offset = d.first_offset - (d.first_offset % WordBytes)
  /\ Len(d.expected) = Len(d.actual) /\ Len(d.expected) \in 1 .. MaxWindow
  /\ DiffersAt(d, d.first_offset) /\ (InWindow(d, d.last_offset) => DiffersAt(d, d.last_offset))
RecordIsValid(r) ==
  /\ r.fields.workload # <<>> => Len(r.fields.workload[1]) <= MaxText
  /\ Presents(r.fields.isa, 0 .. IsaPaths - 1) /\ Presents(r.fields.input_integrity, 0 .. 3)
  /\ r.kind = 1 =>
       /\ r.fields.side <= 1 /\ Len(r.fields.check) \in 1 .. MaxText
       /\ r.fields.line_bytes >= WordBytes /\ IsPowerOfTwo(r.fields.line_bytes)
       /\ \A i \in DOMAIN r.fields.difference : DifferenceIsValid(r.fields.difference[i])
  /\ r.kind = 2 =>
       /\ Len(r.fields.check) <= MaxText /\ IsFinite(r.fields.tolerance) /\ r.fields.tolerance > Zero
       /\ ExceedsTolerance(r.fields.residual, r.fields.tolerance)
  /\ r.kind = 3 => Len(r.fields.what) <= MaxText /\ Len(r.fields.why) <= MaxText
(* Of the bytes of a name, 0 is a digit and the largest is no character.   *)
IsValidName(name) == name # <<>> /\ name[1] # 0 /\ Base - 1 \notin ToSet(name)
Thousand == 10
MessageIsValid(m) ==
  /\ m.kind = 4 => m.fields.busy_permille \in 1 .. Thousand /\ m.fields.period_ns > 0 /\ ~IsSigned(m.fields.period_ns)
  /\ m.kind = 5 =>
       /\ m.fields.cpus # <<>> /\ Last(m.fields.cpus) < MaxCpu
       /\ \A i \in 1 .. Len(m.fields.cpus) - 1 : m.fields.cpus[i] < m.fields.cpus[i + 1]
  /\ m.kind = 6 => IsValidName(m.fields.name) /\ m.fields.footprint > 0
AckIsValid(a) == a.fields.status <= 1 /\ Len(a.fields.detail) <= MaxText

Refused(fault) == [fault |-> fault, kind |-> 0, fields |-> <<>>]
Made(kind, fields) == [fault |-> "", kind |-> kind, fields |-> fields]
RecordOf(bytes, got) ==
  IF got.fault # "" THEN Refused(got.fault)
  ELSE IF BrokenRule(Made(bytes[2], got.value)) THEN Refused("invalid")
  ELSE IF got.at # Len(bytes) THEN Refused("trailing") ELSE Made(bytes[2], got.value)
DecodeRecord(bytes) ==
  IF bytes = <<>> THEN Refused("empty") ELSE IF bytes[1] # RecordVersion THEN Refused("version")
  ELSE IF Len(bytes) < 2 THEN Refused("truncated") ELSE IF bytes[2] \notin 1 .. 3 THEN Refused("kind")
  ELSE RecordOf(bytes, GetAll(bytes, GetProvenance \o GetKind(bytes[2]), 2, <<>>))
CheckHeader(bytes) ==
  CASE bytes = <<>> -> "empty" [] bytes # <<>> /\ bytes[1] # ControlVersion -> "version"
    [] Len(bytes) = 1 -> "truncated" [] OTHER -> ""
ControlIsValid(v) == IF v.kind = AckKind THEN AckIsValid(v) ELSE MessageIsValid(v)
CheckEnd(bytes, got) ==
  IF got.fault # "" THEN Refused(got.fault)
  ELSE IF got.at # Len(bytes) THEN Refused("trailing")
  ELSE IF ~ControlIsValid(Made(bytes[2], got.value)) THEN Refused("invalid") ELSE Made(bytes[2], got.value)
DecodeControl(bytes, kinds, names) ==
  IF CheckHeader(bytes) # "" THEN Refused(CheckHeader(bytes))
  ELSE IF bytes[2] \notin kinds THEN Refused("kind")
  ELSE CheckEnd(bytes, GetAll(bytes, names, 2, <<>>))
DecodeMessage(bytes) ==
  DecodeControl(bytes, 1 .. 6, IF Len(bytes) > 1 THEN GetCommand(bytes[2]) ELSE <<>>)
DecodeAck(bytes) == DecodeControl(bytes, {AckKind}, Acknowledged)
DecodeMemory(bytes) ==
  IF \/ Len(bytes) < 3 \/ bytes[1] # MemoryVersion \/ bytes[2] > 2 \/ bytes[3] > 2
     \/ Len(bytes) - 3 > MaxText \/ (Len(bytes) > 3 /\ bytes[3] # 2) THEN Refused("memory")
  ELSE Made(0, [policy |-> bytes[2], outcome |-> bytes[3], detail |-> SubSeq(bytes, 4, Len(bytes))])
DecodeTally(bytes) ==
  IF Len(bytes) # 1 + Counters * U64 \/ bytes[1] # TallyVersion THEN Refused("tally")
  ELSE Made(0, [i \in 1 .. Counters |-> NumberAt(bytes, 1 + (i - 1) * U64, U64)])

-----------------------------------------------------------------------------
(* What two buffers differ in, and the record it makes.                    *)
Bit(byte, k) == (byte \div 2 ^ k) % 2
Differing(expected, actual) ==
  {b \in (1 .. Len(expected)) \X (0 .. ByteBits - 1) : Bit(expected[b[1]], b[2]) # Bit(actual[b[1]], b[2])}
DifferenceOf(expected, actual, domain, at, start, window) ==
  [domain |-> domain, first_offset |-> Min(at), last_offset |-> Max(at), popcount |-> Cardinality(Differing(expected, actual)),
   window_offset |-> start, expected |-> SubSeq(expected, start + 1, start + window), actual |-> SubSeq(actual, start + 1, start + window)]
CompareExact(expected, actual, domain) ==
  LET at == {i \in 0 .. Len(expected) - 1 : expected[i + 1] # actual[i + 1]}
      start == (Min(at) \div WordBytes) * WordBytes IN
  IF Len(expected) # Len(actual) THEN [outcome |-> "length mismatch", difference |-> <<>>]
  ELSE IF expected = <<>> THEN [outcome |-> "nothing compared", difference |-> <<>>]
  ELSE IF expected = actual THEN [outcome |-> "match", difference |-> <<>>]
  ELSE [outcome |-> "mismatch",
        difference |-> <<DifferenceOf(expected, actual, domain, at, start, Min({MaxWindow, Len(expected) - start}))>>]
(* The lengths, as appended to the check.                                  *)
Lengths == <<0, 0>>
NotPerformed(subject) ==
  [kind |-> 3, fields |-> subject.provenance @@ [what |-> subject.check, why |-> <<1>>, blocks_compared |-> 0]]
ToRecord(comparison, subject) ==
  LET check == subject.check \o (IF comparison.outcome = "length mismatch" THEN Lengths ELSE <<>>) IN
  CASE comparison.outcome = "match" -> <<>>
    [] comparison.outcome = "nothing compared" -> <<NotPerformed(subject)>>
    [] OTHER ->
         <<[kind |-> 1,
            fields |-> subject.provenance @@ [side |-> subject.side, check |-> check, line_bytes |-> subject.line_bytes,
                                              difference |-> comparison.difference]]>>
ClassifyBits(popcount, first, last, line) ==
  CASE popcount = 1 -> "single bit"
    [] popcount # 1 /\ first \div WordBytes = last \div WordBytes -> "in word"
    [] popcount # 1 /\ first \div WordBytes # last \div WordBytes /\ first \div line = last \div line -> "within line"
    [] OTHER -> "across lines"
Classify(r) ==
  LET d == r.fields.difference[1] IN ClassifyBits(d.popcount, d.first_offset, d.last_offset, r.fields.line_bytes)

-----------------------------------------------------------------------------
(* The journal: records of a length, a check over it and the payload, and  *)
(* the payload.  The check tells every change the runs make.               *)
EntryType == 1
TerminatorType == 2
HeaderBytes == 2 * U32
Prime == 61
Check(length, payload) ==
  LET bytes == length \o payload IN
  MapThenSumSet(LAMBDA i : ((bytes[i] + 1) * 2 ^ (i % 25)) % Prime, DOMAIN bytes) % Prime
Frame(payload) ==
  LET length == LittleEndian(Len(payload), U32) IN length \o LittleEndian(Check(length, payload), U32) \o payload
TerminatorPayload == <<TerminatorType>>
PutLabel(label) == <<Len(label)>> \o label
EncodeEntry(e) ==
  <<EntryType>> \o LittleEndian(e.elapsed_ns, U64)
  \o <<MapThenSumSet(LAMBDA k : IF e.optionals[k] = <<>> THEN 0 ELSE 2 ^ (k - 1), 1 .. Optionals)>>
  \o PutLabel(e.phase) \o PutLabel(e.workload)
  \o FlattenSeq([k \in 1 .. Optionals |-> LittleEndian(IF e.optionals[k] = <<>> THEN 0 ELSE e.optionals[k][1], U64)])
  \o LittleEndian(e.workers_alive, U32) \o LittleEndian(e.workers_stale, U32)
(* Every byte of a payload is one of an entry's.                           *)
PhaseSizeAt == 2 + U64
EntryFixedBytes == 4 + U64 + U64 * Optionals + 2 * U32
Sized(payload) ==
  /\ Len(payload) >= EntryFixedBytes /\ payload[PhaseSizeAt + 1] <= MaxLabel
  /\ Len(payload) >= EntryFixedBytes + payload[PhaseSizeAt + 1]
EntryOf(payload, elapsed, present, phase, workload, values, counts) ==
  IF \/ IsSigned(elapsed) \/ present >= 2 ^ Optionals
     \/ workload > MaxLabel \/ Len(payload) # EntryFixedBytes + phase + workload
     \/ \E k \in 1 .. Optionals : Bit(present, k - 1) = 0 /\ NumberAt(payload, values + (k - 1) * U64, U64) # 0
  THEN <<>>
  ELSE <<[elapsed_ns |-> elapsed, phase |-> SubSeq(payload, PhaseSizeAt + 2, PhaseSizeAt + 1 + phase),
          workload |-> SubSeq(payload, PhaseSizeAt + phase + 3, values),
          optionals |-> [k \in 1 .. Optionals |->
                           IF Bit(present, k - 1) = 1 THEN <<NumberAt(payload, values + (k - 1) * U64, U64)>> ELSE <<>>],
          workers_alive |-> NumberAt(payload, counts, U32), workers_stale |-> NumberAt(payload, counts + U32, U32)]>>
DecodeEntry(payload) ==
  LET phase == payload[PhaseSizeAt + 1]
      workload == payload[PhaseSizeAt + phase + 2]
      values == PhaseSizeAt + phase + workload + 2 IN
  IF ~Sized(payload) THEN <<>>
  ELSE EntryOf(payload, NumberAt(payload, 1, U64), payload[PhaseSizeAt], phase, workload, values, values + Optionals * U64)
CouldBeCutShort(seen, length) ==
  LET phase == seen[PhaseSizeAt + 1]
      workload == seen[PhaseSizeAt + phase + 2]
      knowsPhase == Len(seen) > PhaseSizeAt IN
  \/ seen = <<>>
  \/ /\ seen[1] = EntryType
     /\ length >= EntryFixedBytes
     /\ IF knowsPhase
        THEN /\ phase <= MaxLabel
             /\ IF Len(seen) > PhaseSizeAt + 1 + phase
                THEN workload <= MaxLabel /\ length = EntryFixedBytes + phase + workload
                ELSE length \in EntryFixedBytes + phase .. EntryFixedBytes + phase + MaxLabel
        ELSE length <= EntryFixedBytes + 2 * MaxLabel
EndingOfShortRecord(rest, length) ==
  IF CouldBeCutShort(SubSeq(rest, HeaderBytes + 1, Len(rest)), length) THEN "torn" ELSE "corrupt"
Unchecked(rest, length) == TRUE
ChecksOut(rest, length) ==
  Check(SubSeq(rest, 1, U32), SubSeq(rest, HeaderBytes + 1, HeaderBytes + length)) = NumberAt(rest, U32, U32)
RECURSIVE ScanFrom(_, _)
Ends(entries, ending) == [entries |-> entries, ending |-> ending]
ScanEntry(after, entries, type, entry) ==
  IF type # EntryType \/ entry = <<>> THEN Ends(entries, "corrupt") ELSE ScanFrom(after, entries \o entry)
ScanPayload(after, entries, payload) ==
  IF payload[1] = TerminatorType THEN Ends(entries, IF Len(payload) = 1 /\ after = <<>> THEN "terminated" ELSE "corrupt")
  ELSE ScanEntry(after, entries, payload[1], DecodeEntry(payload))
ScanRecord(rest, entries, length) ==
  IF length \notin 1 .. MaxPayload THEN Ends(entries, "corrupt")
  ELSE IF Len(rest) - HeaderBytes < length THEN Ends(entries, EndingOfShortRecord(rest, length))
  ELSE IF ~ChecksOut(rest, length) THEN Ends(entries, "corrupt")
  ELSE ScanPayload(SubSeq(rest, HeaderBytes + length + 1, Len(rest)), entries, SubSeq(rest, HeaderBytes + 1, HeaderBytes + length))
ScanFrom(rest, entries) ==
  IF rest = <<>> THEN Ends(entries, "unterminated") ELSE IF Len(rest) < HeaderBytes THEN Ends(entries, "torn")
  ELSE ScanRecord(rest, entries, NumberAt(rest, 0, U32))
Scan(bytes) == IF bytes = <<>> THEN Ends(<<>>, "empty") ELSE ScanFrom(bytes, <<>>)
(* An entry of too long a label is refused and leaves the storage alone.   *)
Appended(journal) == SelectSeq(journal.entries, LAMBDA e : Len(e.phase) <= MaxLabel /\ Len(e.workload) <= MaxLabel)
BytesOf(entries) == FlattenSeq([i \in DOMAIN entries |-> Frame(EncodeEntry(entries[i]))])
JournalBytes(journal) == BytesOf(Appended(journal)) \o (IF journal.closed THEN Frame(TerminatorPayload) ELSE <<>>)

-----------------------------------------------------------------------------
(* What is written is read back, whole or hurt on the way: cut short, with *)
(* a byte changed, or followed by another.                                 *)
Compared(c) == ToRecord(CompareExact(c.expected, c.actual, c.domain), c.subject)
Bytes(it) ==
  CASE it.is = "record" -> EncodeRecord(it.value) [] it.is = "message" -> EncodeMessage(it.value)
    [] it.is = "ack" -> EncodeAck(it.value) [] it.is = "memory" -> EncodeMemory(it.value)
    [] it.is = "tally" -> EncodeTally(it.value) [] it.is = "journal" -> JournalBytes(it.value)
    [] it.is = "compare" -> IF Compared(it.value) = <<>> THEN <<>> ELSE EncodeRecord(Compared(it.value)[1])
Read(is, bytes) ==
  CASE is \in {"record", "compare"} -> DecodeRecord(bytes) [] is = "message" -> DecodeMessage(bytes)
    [] is = "ack" -> DecodeAck(bytes) [] is = "memory" -> DecodeMemory(bytes)
    [] is = "tally" -> DecodeTally(bytes) [] is = "journal" -> Scan(bytes)
Valid(it) ==
  CASE it.is = "record" -> RecordIsValid(it.value) [] it.is = "message" -> MessageIsValid(it.value)
    [] it.is = "ack" -> AckIsValid(it.value) [] it.is = "memory" -> it.value.detail # <<>> => it.value.outcome = 2
    [] it.is = "tally" -> TRUE
CodecInit ==
  /\ \E i \in DOMAIN Items : item \in Items[i]
  /\ wire = <<>> /\ hurt = "unsent" /\ taken = <<>>
Write == hurt = "unsent" /\ wire' = Bytes(item) /\ hurt' = "" /\ UNCHANGED <<item, taken>>
(* What the rules refuse is read as it is.                                 *)
Travels == hurt = "" /\ taken = <<>> /\ item.is # "compare" /\ (item.is = "journal" \/ Valid(item)) = TRUE
Cut ==
  /\ Travels
  /\ \E n \in 0 .. Len(wire) - 1 : wire' = SubSeq(wire, 1, n)
  /\ hurt' = "cut" /\ UNCHANGED <<item, taken>>
Change ==
  /\ Travels
  /\ \E i \in DOMAIN wire, by \in {1, Base \div 2} : wire' = [wire EXCEPT ![i] = (@ + by) % Base]
  /\ hurt' = "changed" /\ UNCHANGED <<item, taken>>
Lengthen ==
  /\ Travels
  /\ \E byte \in {0, 1} : wire' = Append(wire, byte)
  /\ hurt' = "longer" /\ UNCHANGED <<item, taken>>
ReadBack == hurt # "unsent" /\ taken = <<>> /\ taken' = <<Read(item.is, wire)>> /\ UNCHANGED <<item, wire, hurt>>
Finished == taken # <<>> /\ UNCHANGED codecVars
CodecNext == Write \/ Cut \/ Change \/ Lengthen \/ ReadBack \/ Finished

-----------------------------------------------------------------------------
Decodes == {"record", "message", "ack", "memory", "tally"}
IsRead == taken # <<>>
Answer == taken[1]
Same(got, value) == got.fault = "" /\ got.kind = value.kind /\ got.fields = value.fields
(* record.hpp, control.hpp, frames.hpp: what is valid is read as it was    *)
(* written, what is not is refused as such; the rules the decoder names    *)
(* and those of is_valid agree.                                            *)
ReadAsWritten ==
  IsRead /\ hurt = "" /\ item.is \in Decodes =>
    /\ Valid(item) <=> Answer.fault = ""
    /\ item.is \in {"record", "message", "ack"} => IF Valid(item) THEN Same(Answer, item.value) ELSE Answer.fault = "invalid"
    /\ item.is = "record" => BrokenRule(item.value) = ~RecordIsValid(item.value)
    /\ item.is = "tally" => Answer.fields = item.value
    /\ item.is = "memory" /\ Valid(item) =>
         Answer.fields = [item.value EXCEPT !.detail = SubSeq(@, 1, Min({Len(@), MaxText}))]

(* codec.hpp: whatever bytes are accepted, hurt or not, are those that     *)
(* what was read is written as; a message cut short or with more after it  *)
(* is refused as that.                                                     *)
NothingIsGuessed ==
  IsRead /\ item.is \in Decodes =>
    /\ Answer.fault = "" =>
         wire = Bytes([is |-> item.is, value |-> IF item.is \in {"memory", "tally"} THEN Answer.fields ELSE Answer])
    /\ item.is \in {"record", "message", "ack"} /\ Valid(item) =>
         /\ hurt = "cut" => Answer.fault = (IF wire = <<>> THEN "empty" ELSE "truncated")
         /\ hurt = "longer" => Answer.fault = "trailing"

(* compare.hpp: two buffers that differ make a record that is valid and    *)
(* read as it is, of the bits that differ and of where they are, and only  *)
(* two that are the same, and are not empty, make none.                    *)
Within(bits, size) == \A x, y \in bits : (x[1] - 1) \div size = (y[1] - 1) \div size
IsDifference(v, made, bits) ==
    /\ made = <<>> <=> v.expected = v.actual /\ v.expected # <<>>
    /\ made # <<>> => RecordIsValid(made[1]) /\ Same(Answer, made[1])
    /\ made # <<>> /\ Len(v.expected) = Len(v.actual) /\ v.expected # <<>> =>
         Classify(made[1]) = CASE Cardinality(bits) = 1 -> "single bit"
                               [] Cardinality(bits) > 1 /\ Within(bits, WordBytes) -> "in word"
                               [] ~Within(bits, WordBytes) /\ Within(bits, v.subject.line_bytes) -> "within line"
                               [] OTHER -> "across lines"
DifferenceIsTrue ==
  IsRead /\ item.is = "compare" =>
    IsDifference(item.value, Compared(item.value),
      IF Len(item.value.expected) = Len(item.value.actual) THEN Differing(item.value.expected, item.value.actual) ELSE {})

(* journal.hpp of a replay: of a journal cut anywhere, the entries that    *)
(* lie whole before the cut, never corrupt; with any byte changed, a       *)
(* prefix of those written, never ended cleanly.                           *)
IsReplay(entries, end) ==
    /\ IsPrefix(Answer.entries, entries)
    /\ hurt = "" => /\ Answer.entries = entries
                    /\ Answer.ending = CASE item.value.closed -> "terminated" [] wire = <<>> -> "empty" [] OTHER -> "unterminated"
    /\ hurt = "cut" =>
         /\ Len(Answer.entries) = Max({n \in DOMAIN end : end[n] <= Len(wire)})
         /\ Answer.ending = CASE wire = <<>> -> "empty"
                              [] wire # <<>> /\ \E n \in DOMAIN end : end[n] = Len(wire) -> "unterminated"
                              [] OTHER -> "torn"
    /\ hurt \in {"changed", "longer"} => Answer.ending # "terminated"
ReplayIsTrue ==
  IsRead /\ item.is = "journal" =>
    IsReplay(Appended(item.value), [n \in 0 .. Len(Appended(item.value)) |-> Len(BytesOf(SubSeq(Appended(item.value), 1, n)))])
BytesAreExact == ReadAsWritten /\ NothingIsGuessed /\ DifferenceIsTrue /\ ReplayIsTrue
=============================================================================
