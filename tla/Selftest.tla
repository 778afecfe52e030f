------------------------------ MODULE Selftest ------------------------------
(***************************************************************************)
(* Two tripwires LoadForge keeps on its own build: the golden vectors      *)
(* (verification/golden/golden.cpp), a recorded run's digests in a text    *)
(* file that a later build is compared with, and `loadforge selftest`      *)
(* (main/selftest_command.cpp), which decides whether this build on this   *)
(* machine can give a hardware verdict at all.                             *)
(*                                                                         *)
(* A golden file is a sequence of lines.  A line holds its key, a word, a  *)
(* number with the form it is spelled in (a canonical decimal, sixteen     *)
(* lower-case hexadecimal digits, or some looser spelling of the same      *)
(* number), and for a unit its index and its second digest.  CRC-64 is     *)
(* ideal: different outputs have different digests.                        *)
(***************************************************************************)
EXTENDS Integers, Sequences, SequencesExt, FiniteSetsExt

CONSTANTS MaxU32, MaxU64,  \* the widths of the numbers of a golden file
          IsaPaths,        \* the four ISA paths
          Names            \* the registry's workloads

VARIABLES asked,   \* what is asked for, and the build and machine asked about
          text,    \* the golden file, or the checks selftest made
          edit,    \* how the file was edited, or which checks remain
          told     \* what was reported: <<>> until it is

vars == <<asked, text, edit, told>>

(* The path of a run is chosen as the controller chooses it.               *)
Controller == INSTANCE Plan WITH
  request <- asked, plan <- told, sent <- text, queue <- edit, workers <- told,
  Requests <- {}, MaxSteps <- 0, MaxCommands <- 0, MinInterval <- 0, MaxInterval <- 0

(* --------------------------- golden vectors ---------------------------- *)

GoldenKey(workload, version, config, resolved, units) ==
  [workload |-> workload, version |-> version, isa |-> config.isa, seed |-> config.seed,
   footprint_bytes |-> config.footprint_bytes, decomposition |-> config.decomposition,
   resolved_decomposition |-> resolved, units |-> units]
ConfigOf(key) ==
  [isa |-> key.isa, seed |-> key.seed, footprint_bytes |-> key.footprint_bytes,
   decomposition |-> key.decomposition]

(* A build's workload: the version it declares, what it resolves the       *)
(* decomposition to, and the bits of each unit.                            *)
Crc64(seed, bits) == (4 * seed + bits) % (MaxU64 + 1)
SealOf(outputs) == FoldLeft(LAMBDA sum, output : sum * (MaxU64 + 1) + output, 1, outputs)
UnitDigest(build, config, index) ==
  [input |-> Crc64(config.seed, index), output |-> Crc64(config.seed, build.bits[index + 1])]
RecordGolden(build, config, units) ==
  LET recorded == [i \in 1..units |-> UnitDigest(build, config, i - 1)]
  IN  [key |-> GoldenKey(build.name, build.version, config, build.resolved, units),
       units |-> recorded,
       digest |-> SealOf([i \in 1..units |-> recorded[i].output])]

Line(key, word, form, value) ==
  [key |-> key, index |-> 0, word |-> word, form |-> form, value |-> value, output |-> 0]
Comment == Line("#", "", "text", 0)
Word(key, word) == Line(key, word, "text", 0)
Decimal(key, value) == Line(key, "", "decimal", value)
Hex16(key, value) == Line(key, "", "hex", value)
UnitLine(index, unit) ==
  [Hex16("unit", unit.input) EXCEPT !.index = index, !.output = unit.output]
FormatGolden(v) ==
  <<Comment, Word("loadforge-golden", "1"), Word("workload", v.key.workload),
    Decimal("version", v.key.version), Word("isa", v.key.isa), Hex16("seed", v.key.seed),
    Decimal("footprint_bytes", v.key.footprint_bytes), Decimal("decomposition", v.key.decomposition),
    Decimal("resolved_decomposition", v.key.resolved_decomposition),
    Decimal("units", v.key.units)>>
  \o [i \in 1..Len(v.units) |-> UnitLine(i - 1, v.units[i])]
  \o <<Hex16("digest", v.digest)>>

(* Parser: decimal, hexadecimal and one line where another is expected.    *)
Lenient(line, limit) == line.form \in {"decimal", "loose"} /\ line.value <= limit
IsDecimal(line, limit) == line.form = "decimal" /\ line.value <= limit
IsHexadecimal(line) == line.form = "hex"
KeyOrder == <<"loadforge-golden", "workload", "version", "isa", "seed", "footprint_bytes",
              "decomposition", "resolved_decomposition", "units">>
IsKeyLine(line, i) ==
  /\ line.key = KeyOrder[i]
  /\ CASE i = 1 -> line.word = "1"
       [] i = 2 -> line.word \in Names
       [] i = 4 -> line.word \in IsaPaths
       [] i = 5 -> IsHexadecimal(line)
       [] i \in {3, 8} -> IsDecimal(line, MaxU32) /\ line.value # 0
       [] i = 7 -> IsDecimal(line, MaxU32)
       [] i = 6 -> IsDecimal(line, MaxU64)
       [] i = 9 -> IsDecimal(line, MaxU64) /\ line.value # 0
AnyOrder(line, index) == line.key = "unit" /\ IsHexadecimal(line)
IsUnitLine(line, index) == line.key = "unit" /\ line.index = index /\ IsHexadecimal(line)
IsFactLine(body, i, units) ==
  CASE i <= 9 -> IsKeyLine(body[i], i)
    [] i \in 10..(9 + units) -> IsUnitLine(body[i], i - 10)
    [] i = 10 + units -> body[i].key = "digest" /\ IsHexadecimal(body[i])
    [] OTHER -> FALSE

(* next, keyed and fail: the lines that are not comments are read in turn, *)
(* and the first that is not what is expected, or the file's end, is named.*)
IsComment(line) == line.key = "#"
NumberOf(lines, i) ==
  LET Facts == {n \in DOMAIN lines : ~IsComment(lines[n])}
  IN  IF i > Len(SelectSeq(lines, LAMBDA line : ~IsComment(line))) THEN Len(lines)
      ELSE CHOOSE n \in Facts : Cardinality({m \in Facts : m <= n}) = i
VectorOf(body) ==
  [key |-> [workload |-> body[2].word, version |-> body[3].value, isa |-> body[4].word,
            seed |-> body[5].value, footprint_bytes |-> body[6].value,
            decomposition |-> body[7].value, resolved_decomposition |-> body[8].value,
            units |-> body[9].value],
   units |-> [i \in 1..body[9].value |-> [input |-> body[9 + i].value, output |-> body[9 + i].output]],
   digest |-> body[10 + body[9].value].value]
ParseBody(lines, body, units) ==
  LET Wrong == {i \in 1..(Len(body) + 1) : i > Len(body) \/ ~IsFactLine(body, i, units)}
      first == Min(Wrong)
  IN  IF first = 11 + units /\ Len(body) = 10 + units THEN [line |-> 0, vector |-> <<VectorOf(body)>>]
      ELSE [line |-> NumberOf(lines, first), vector |-> <<>>]
ParseGolden(lines) ==
  LET body == SelectSeq(lines, LAMBDA line : ~IsComment(line))
  IN  ParseBody(lines, body, IF Len(body) < 9 THEN 0 ELSE body[9].value)

(* compare_golden.                                                         *)
ComparedKeys == {"workload", "isa", "seed", "footprint_bytes", "decomposition", "units"}
KeyChanges(recorded, fresh) == {field \in ComparedKeys : recorded[field] # fresh[field]}
DigestChanges(recorded, fresh) ==
  {"unit input" : i \in {i \in 1..Min({Len(recorded.units), Len(fresh.units)}) :
                           recorded.units[i].input # fresh.units[i].input}}
  \cup {"unit output" : i \in {i \in 1..Min({Len(recorded.units), Len(fresh.units)}) :
                           recorded.units[i].output # fresh.units[i].output}}
  \cup {field \in {"digest"} : recorded[field] # fresh[field]}
PlanChanges(recorded, fresh) ==
  {field \in {"version", "resolved_decomposition"} : recorded[field] # fresh[field]}
Report(verdict, changes) == [verdict |-> verdict, changes |-> changes]
AnyDeclares(recorded, fresh, changes) ==
  IF PlanChanges(recorded.key, fresh.key) # {} THEN "declared" ELSE IF changes # {} THEN "changed" ELSE "unchanged"
VerdictOf(recorded, fresh, changes) ==
  IF "version" \in changes THEN "declared" ELSE IF changes # {} THEN "changed" ELSE "unchanged"
CompareGolden(recorded, fresh) ==
  LET changes == PlanChanges(recorded.key, fresh.key) \cup DigestChanges(recorded, fresh)
  IN  IF recorded.key.units = 0 \/ recorded.units = <<>> THEN Report("nothing compared", {})
      ELSE IF KeyChanges(recorded.key, fresh.key) # {}
           THEN Report("not comparable", KeyChanges(recorded.key, fresh.key))
      ELSE Report(VerdictOf(recorded, fresh, changes), changes)

(* What may be asked for: a vector recorded by one build, and the build it *)
(* is compared with later, of the same or another version.                 *)
Builds == [name : Names, version : 1..2, resolved : 1..2, bits : {<<1, 2>>, <<1, 3>>}]
Configs == [isa : {"scalar"}, seed : 0..1, footprint_bytes : {2}, decomposition : {0, 2}]
GoldenInit ==
  /\ asked \in [then : Builds, now : Builds, config : Configs, units : 0..2]
  /\ asked.then.name = asked.now.name /\ asked.then.version = 1
  /\ text = <<>> /\ edit = <<>> /\ told = <<>>

(* record_golden refuses a vector of no unit.                              *)
Record ==
  /\ text = <<>> /\ told = <<>>
  /\ IF asked.units = 0 THEN told' = <<Report("refused", {})>> /\ UNCHANGED text
     ELSE text' = FormatGolden(RecordGolden(asked.then, asked.config, asked.units)) /\ UNCHANGED told
  /\ UNCHANGED <<asked, edit>>

(* A person edits one line of the file kept in the repository.             *)
Edited(lines, n, how) ==
  CASE how = "removed" -> RemoveAt(lines, n)
    [] how = "repeated" -> InsertAt(lines, n, lines[n])
    [] how = "moved" -> IF n < Len(lines)
                        THEN [lines EXCEPT ![n] = lines[n + 1], ![n + 1] = lines[n]] ELSE lines
    [] how = "respelled" -> [lines EXCEPT ![n].form = IF @ = "text" THEN @ ELSE "loose"]
    [] how = "changed" -> IF lines[n].form = "text" THEN [lines EXCEPT ![n].word = "avx2"]
                          ELSE [lines EXCEPT ![n].value = 1 - Min({@, 1})]
    [] how = "commented" -> InsertAt(lines, n, Comment)
Edit ==
  /\ text # <<>> /\ edit = <<>> /\ told = <<>>
  /\ \E n \in DOMAIN text, how \in {"removed", "repeated", "moved", "respelled", "changed", "commented"} :
       /\ text' = Edited(text, n, how)
       /\ edit' = <<n>>
  /\ UNCHANGED <<asked, told>>

(* The vector is read, the run it names is made again, the two compared.   *)
Compare ==
  /\ text # <<>> /\ told = <<>>
  /\ LET read == ParseGolden(text)
     IN  told' = IF read.vector = <<>> THEN <<Report("refused", {})>>
                 ELSE <<CompareGolden(read.vector[1],
                          RecordGolden([asked.now EXCEPT !.name = read.vector[1].key.workload],
                                       ConfigOf(read.vector[1].key), read.vector[1].key.units))>>
  /\ UNCHANGED <<asked, text, edit>>

GoldenDone == told # <<>> /\ UNCHANGED vars
GoldenNext == Record \/ Edit \/ Compare \/ GoldenDone

(* ---- what the golden vectors promise ---- *)

Facts(lines) == SelectSeq(lines, LAMBDA line : ~IsComment(line))
Recorded == RecordGolden(asked.then, asked.config, asked.units)

(* golden.hpp: parse_golden(format_golden(v)) = v.                         *)
ReadAsRecorded ==
  text # <<>> /\ edit = <<>> => ParseGolden(text) = [line |-> 0, vector |-> <<Recorded>>]

(* golden.hpp: "a vector that parses loosely is one that can silently mean *)
(* less".  Every file that is accepted is, comments aside, exactly what    *)
(* format_golden writes of the vector read; a refusal names a line of the  *)
(* file, never one before the edit that spoilt it.                         *)
NothingIsLoose ==
  text # <<>> =>
    LET read == ParseGolden(text)
    IN  IF read.vector # <<>> THEN Facts(FormatGolden(read.vector[1])) = Facts(text)
        ELSE edit # <<>> /\ read.line \in (edit[1] - 1)..Len(text) /\ read.line # 0

(* golden.hpp, GoldenVerdict: of a file nobody edited, "unchanged" means   *)
(* the build of now computes every recorded unit with the same bits, under *)
(* the same version and decomposition; "declared" that its version moved,  *)
(* and "changed" that bits moved under a version that did not.  A report   *)
(* of a change lists one, and no other report does.                        *)
SameBits == \A i \in 1..asked.units : asked.then.bits[i] = asked.now.bits[i]
GoldenVerdictIsTrue ==
  told # <<>> =>
    /\ told[1].changes = {} <=> told[1].verdict \in {"unchanged", "refused"}
    /\ edit = <<>> /\ asked.units # 0 =>
         told[1].verdict = IF asked.then.version # asked.now.version THEN "declared"
                           ELSE IF SameBits /\ asked.then.resolved = asked.now.resolved THEN "unchanged"
                           ELSE "changed"

(* ------------------------------ selftest ------------------------------- *)

(* main/selftest.cpp: the digest of the parsing corpus, and the digest of  *)
(* the scalar kernels chained onto a basis.                                *)
CorpusDigest(env) == IF env.corpus THEN 1 ELSE 2
WorkloadsDigest(basis, env) == 10 * basis + (IF env.kernels THEN 1 ELSE 2)
ExpectedDigests == [corpus |-> 1, full |-> 11]

(* A check is of a workload on a path; 0 is the golden part.               *)
Check(workload, path, passed) == [workload |-> workload, path |-> path, passed |-> passed]
KernelsBlamed(env) ==
  <<Check(0, "corpus", CorpusDigest(env) = ExpectedDigests.corpus),
    Check(0, "kernels", WorkloadsDigest(CorpusDigest(env), env) = ExpectedDigests.full)>>
GoldenChecks(env) ==
  <<Check(0, "corpus", CorpusDigest(env) = ExpectedDigests.corpus),
    Check(0, "kernels", WorkloadsDigest(ExpectedDigests.corpus, env) = ExpectedDigests.full)>>

(* selftest_paths: the path a run would use, then scalar if that is        *)
(* another; scalar alone where the request cannot be met by this workload. *)
IsPath(chosen) == chosen \notin {"not compiled", "not supported"}
ChosenOnly(requested, supported, compiled, paths) ==
  IF IsPath(Controller!ChooseIsa(requested, supported, compiled, paths))
  THEN <<Controller!ChooseIsa(requested, supported, compiled, paths)>> ELSE <<"scalar">>
SelftestPaths(requested, supported, compiled, paths) ==
  LET chosen == Controller!ChooseIsa(requested, supported, compiled, paths)
  IN  IF ~IsPath(chosen) \/ chosen = "scalar" THEN <<"scalar">> ELSE <<chosen, "scalar">>

(* oracle_checks: the registry's workloads in order, each on its paths; a  *)
(* workload the registry would not describe has no path to be run on.      *)
PathsOf(env, w) ==
  IF ~env.workloads[w].described THEN <<"undescribed">>
  ELSE SelftestPaths(env.isa, env.supported, env.compiled, env.workloads[w].paths)
ToCheck(env) ==
  FlattenSeq([w \in DOMAIN env.workloads |->
    [p \in DOMAIN PathsOf(env, w) |-> [workload |-> w, path |-> PathsOf(env, w)[p]]]])

SelftestInit ==
  /\ asked \in [isa : IsaPaths \cup {"none"}, supported : {{"scalar"}, {"scalar", "avx2"}},
                compiled : {{"scalar"}, {"scalar", "avx2", "avx512"}},
                corpus : BOOLEAN, kernels : BOOLEAN,
                workloads : {<<a, b>> : a, b \in
                  [described : BOOLEAN, paths : {{"scalar"}, {"scalar", "avx2"}},
                   bad : {{}, {"scalar"}, {"avx2"}}]}]
  /\ text = <<>> /\ edit = <<>> /\ told = <<>>

(* run_selftest: an --isa this build or CPU cannot run is refused before   *)
(* any check; the golden part comes first.                                 *)
Begin ==
  /\ text = <<>> /\ told = <<>>
  /\ IF asked.isa # "none" /\ ~IsPath(Controller!SelectPath(asked.isa, asked.supported, asked.compiled))
     THEN told' = <<1>> /\ UNCHANGED <<text, edit>>
     ELSE text' = GoldenChecks(asked) /\ edit' = ToCheck(asked) /\ UNCHANGED told
  /\ UNCHANGED asked

(* oracle_check: setting the workload up fails, the runner refuses, the    *)
(* units are checked and a record is found, or none is.  A finding is made *)
(* where the path computes wrongly.                                        *)
Outcomes(one) ==
  IF one.path = "undescribed" THEN {FALSE}
  ELSE IF one.path \in asked.workloads[one.workload].bad THEN {FALSE} ELSE BOOLEAN
OracleCheck ==
  /\ edit # <<>> /\ told = <<>>
  /\ \E passed \in Outcomes(Head(edit)) :
       text' = Append(text, Check(Head(edit).workload, Head(edit).path, passed))
  /\ edit' = Tail(edit)
  /\ UNCHANGED <<asked, told>>

(* The verdict: 0 when every check passed, kExitSelftestFailed otherwise.  *)
Conclude ==
  /\ text # <<>> /\ edit = <<>> /\ told = <<>>
  /\ told' = <<IF \A i \in DOMAIN text : text[i].passed THEN 0 ELSE 8>>
  /\ UNCHANGED <<asked, text, edit>>

SelftestDone == told # <<>> /\ UNCHANGED vars
SelftestNext == Begin \/ OracleCheck \/ Conclude \/ SelftestDone

(* ---- what selftest promises ---- *)

WasRun(w, path) == \E i \in DOMAIN text : text[i].workload = w /\ text[i].path = path

(* selftest_command.hpp: 0 says this build on this machine reproduced what *)
(* it is expected to.  It is given only when the corpus and the kernels    *)
(* are as expected and every workload was run, and computed rightly, on    *)
(* scalar and on the path a stress run of the same request would use.      *)
PassIsEarned ==
  told = <<0>> =>
    /\ asked.corpus /\ asked.kernels
    /\ \A w \in DOMAIN asked.workloads :
         LET one == asked.workloads[w]
             used == Controller!ChooseIsa(asked.isa, asked.supported, asked.compiled, one.paths)
         IN  /\ one.described
             /\ WasRun(w, "scalar") /\ "scalar" \notin one.bad
             /\ IsPath(used) => WasRun(w, used) /\ used \notin one.bad

(* A requested path is used or refused, never replaced: a path that was    *)
(* neither asked for nor scalar is run only when none was asked for, and a *)
(* refusal runs nothing.                                                   *)
PathIsNotReplaced ==
  /\ \A i \in DOMAIN text : text[i].path \in {"corpus", "kernels", "scalar", "undescribed"} \cup
       (IF asked.isa = "none" THEN asked.supported \cap asked.compiled ELSE {asked.isa})
  /\ told = <<1>> => text = <<>>

(* The golden part says which half differed: a parser that changed is not  *)
(* also reported as kernels that changed.                                  *)
HalvesAreTold ==
  text # <<>> => text[1].passed = asked.corpus /\ text[2].passed = asked.kernels

GoldenIsTrue == ReadAsRecorded /\ NothingIsLoose /\ GoldenVerdictIsTrue
SelftestIsTrue == PassIsEarned /\ PathIsNotReplaced /\ HalvesAreTold
=============================================================================
