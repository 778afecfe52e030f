---------------------------- MODULE Fingerprint ----------------------------
(***************************************************************************)
(* The fingerprint of a run (controller/results/fingerprint.cpp): one file *)
(* of the machine after the other is read and parsed, a field from the     *)
(* first of its files that answers, while the machine goes on changing.    *)
(*                                                                         *)
(* A file is an error or a text, and a text a sequence of tokens; a line   *)
(* of /proc/cpuinfo is a text of its own.                                  *)
(***************************************************************************)
EXTENDS Integers, Sequences, FiniteSets, SequencesExt

CONSTANTS Machines,    \* families of machines; a sequence
          Events,      \* what may happen to a machine meanwhile: a path and its new file
          MaxEvents    \* bound: of these, on a machine of the first family

VARIABLES machine,
          reading,     \* the fingerprint so far, its gaps, the field and the file that are next
          met          \* history: the machines there were since the reading began

fingerprintVars == <<machine, reading, met>>

None == <<>>
Cpuinfo(name, key) == [name |-> name, parse |-> "cpuinfo", key |-> key, paths |-> <<"cpuinfo">>]
Parsed(name, parse, paths) == [name |-> name, parse |-> parse, key |-> "", paths |-> paths]
Fields ==
  <<Cpuinfo("cpu_model", "model name"),
    Cpuinfo("microcode", "microcode"),
    Parsed("kernel", "word", <<"osrelease">>),
    Parsed("smt_enabled", "flag", <<"smt/active">>),
    Parsed("power_source", "mains", <<"AC", "ACAD", "ADP0", "ADP1", "AC0">>),
    Parsed("battery_state", "word", <<"BAT0", "BAT1">>),
    Parsed("cpufreq_governor", "word", <<"governor">>),
    Parsed("energy_performance_preference", "word", <<"preference">>),
    Parsed("platform_profile", "word", <<"profile">>),
    Parsed("turbo_enabled", "no_turbo", <<"no_turbo", "boost">>),
    Parsed("cooling_profile", "word", <<"policy">>),
    Parsed("huge_page_policy", "selected", <<"hugepage">>),
    Parsed("temperature_at_start_c", "millidegrees", <<"temp">>)>>
Names == {Fields[i].name : i \in DOMAIN Fields}
Paths(name) == LET field == CHOOSE f \in {Fields[i] : i \in DOMAIN Fields} : f.name = name IN field.paths

-----------------------------------------------------------------------------
(* The parsers, each a value or None.                                      *)
Flag(text, yes, no) == CASE text = <<"1">> -> <<yes>> [] text = <<"0">> -> <<no>> [] OTHER -> None
Selected(text) ==
  LET At(bracket) == {i \in DOMAIN text : text[i] = bracket} IN
  IF Cardinality(At("[")) # 1 \/ Cardinality(At("]")) # 1 THEN None
  ELSE LET open == CHOOSE i \in At("[") : TRUE
           close == CHOOSE i \in At("]") : TRUE
       IN IF close < open THEN None ELSE SubSeq(text, open + 1, close - 1)
(* A whole number of millidegrees: a sign is a minus, digits are one token.*)
Digits == {"0", "45000", "95500"}
Millidegrees(text) ==
  IF Len(text) \in {1, 2} /\ text[Len(text)] \in Digits /\ (Len(text) = 2 => text[1] = "-")
  THEN Append(text, "/1000") ELSE None
(* The first line that is the key, blanks and a colon, and what follows,   *)
(* which may be nothing, without the blanks around it.                     *)
Blanks == {" ", "tab"}
After(line) == LET rest == {i \in 2 .. Len(line) : line[i] \notin Blanks} IN
               IF rest = {} THEN 0 ELSE CHOOSE i \in rest : \A j \in rest : i <= j
HasKey(line, key) == line # <<>> /\ line[1] = key /\ After(line) # 0 /\ line[After(line)] = ":"
Trim(text) ==
  LET kept == {i \in DOMAIN text : text[i] \notin Blanks} IN
  IF kept = {} THEN <<>>
  ELSE SubSeq(text, CHOOSE i \in kept : \A j \in kept : i <= j, CHOOSE i \in kept : \A j \in kept : i >= j)
CpuinfoValue(lines, key) ==
  LET with == {i \in DOMAIN lines : HasKey(lines[i], key)}
      line == lines[CHOOSE i \in with : \A j \in with : i <= j]
  IN IF with = {} THEN None ELSE <<":">> \o Trim(SubSeq(line, After(line) + 1, Len(line)))
Parse(field, path, file) ==
  CASE field.parse = "cpuinfo" -> CpuinfoValue(file.lines, field.key)
    [] field.parse = "word" -> file.text
    [] field.parse = "flag" -> Flag(file.text, "true", "false")
    [] field.parse = "mains" -> Flag(file.text, "ac", "battery")
    [] field.parse = "no_turbo" /\ path = "no_turbo" -> Flag(file.text, "false", "true")
    [] field.parse = "no_turbo" /\ path # "no_turbo" -> Flag(file.text, "true", "false")
    [] field.parse = "selected" -> Selected(file.text)
    [] field.parse = "millidegrees" -> Millidegrees(file.text)

(* topology::Source, of a file that is read once: why there is no value.   *)
Failure(field, path, file) ==
  CASE file.errno \in {"ENOENT", "ENODEV", "ENXIO"} -> "absent"
    [] file.errno \in {"EACCES", "EPERM"} -> "denied"
    [] file.errno # "none" -> "unreadable"
    [] field.parse = "cpuinfo" -> "absent"
    [] OTHER -> "malformed"
Answer(field, path, file) == IF file.errno # "none" THEN None ELSE Parse(field, path, file)

First(failures) == Head(failures)
MostInformative(failures) ==
  LET telling == {i \in DOMAIN failures : failures[i].kind # "absent"} IN
  IF telling = {} THEN Head(failures) ELSE failures[CHOOSE i \in telling : \A j \in telling : i <= j]

-----------------------------------------------------------------------------
(* read_fingerprint                                                        *)
Limit == "cgroup_memory_limit_bytes"
FingerprintInit ==
  \E i \in DOMAIN Machines :
    /\ machine \in Machines[i] /\ met = {machine}
    /\ reading = [values |-> [name \in Names \cup {Limit} |-> None], gaps |-> <<>>, failures |-> <<>>, at |-> 1, file |-> 1,
                  left |-> IF i = 1 THEN MaxEvents ELSE 0]

Gap(name, failure) == [field |-> name, kind |-> failure.kind, path |-> failure.path]
Taken(read, name, value) == [read EXCEPT !.values[name] = value, !.at = @ + 1, !.file = 1, !.failures = <<>>]
NotTaken(read, name, failure) == [read EXCEPT !.gaps = Append(@, Gap(name, failure)), !.at = @ + 1, !.file = 1, !.failures = <<>>]
ReadFile ==
  /\ reading.at \in DOMAIN Fields
  /\ LET field == Fields[reading.at]
         path == field.paths[reading.file]
         answer == Answer(field, path, machine[path])
         failures == Append(reading.failures, [kind |-> Failure(field, path, machine[path]), path |-> path])
     IN reading' = IF answer # None THEN Taken(reading, field.name, answer)
                   ELSE IF reading.file < Len(field.paths) THEN [reading EXCEPT !.file = @ + 1, !.failures = failures]
                   ELSE NotTaken(reading, field.name, MostInformative(failures))
  /\ UNCHANGED <<machine, met>>
(* resources::read_memory_budget: a limit, no limit, or no answer.         *)
ReadBudget ==
  /\ reading.at = Len(Fields) + 1
  /\ \/ \E limit \in {<<"limit">>, None} : reading' = Taken(reading, Limit, limit)
     \/ \E kind \in {"denied", "malformed"} : reading' = NotTaken(reading, Limit, [kind |-> kind, path |-> "cgroup"])
  /\ UNCHANGED <<machine, met>>
MachineChanges(event) ==
  /\ reading.at \in DOMAIN Fields /\ reading.left > 0 /\ machine[event.path] # event.file
  /\ machine' = [machine EXCEPT ![event.path] = event.file]
  /\ met' = met \cup {machine'}
  /\ reading' = [reading EXCEPT !.left = @ - 1]
IsRead == reading.at = Len(Fields) + 2
FingerprintDone == IsRead /\ UNCHANGED fingerprintVars
FingerprintNext == ReadFile \/ ReadBudget \/ (\E event \in Events : MachineChanges(event)) \/ FingerprintDone

(* differing_fields, of those a file says.                                 *)
DifferingFields(left, right) == {name \in Names : left[name] # right[name]}

-----------------------------------------------------------------------------
FieldOf(name) == CHOOSE f \in {Fields[i] : i \in DOMAIN Fields} : f.name = name
AnswerAt(m, name, j) == LET path == FieldOf(name).paths[j] IN Answer(FieldOf(name), path, m[path])
FailureAt(m, name, j) == LET path == FieldOf(name).paths[j] IN Failure(FieldOf(name), path, m[path])

(* A field has no value exactly if its gap is told, once; the gap says     *)
(* "not offered" only if none of the field's files was there, and else     *)
(* what was wrong with one that was.  No limit is no gap.                  *)
GapsAreTrue ==
  LET gaps == reading.gaps
      told == {gaps[i].field : i \in DOMAIN gaps}
  IN /\ \A i, j \in DOMAIN gaps : gaps[i].field = gaps[j].field => i = j
     /\ \A i \in 1 .. (IF reading.at <= Len(Fields) THEN reading.at - 1 ELSE Len(Fields)) :
          (Fields[i].name \in told) = (reading.values[Fields[i].name] = None)
     /\ \A i \in {k \in DOMAIN gaps : gaps[k].field # Limit} :
          LET name == gaps[i].field
              Met(j, kind) == \E m \in met : AnswerAt(m, name, j) = None /\ FailureAt(m, name, j) = kind
          IN IF gaps[i].kind = "absent" THEN \A j \in DOMAIN Paths(name) : Met(j, "absent")
             ELSE \E j \in DOMAIN Paths(name) : Paths(name)[j] = gaps[i].path /\ Met(j, gaps[i].kind)

(* A value is what one of the field's files said while the reading went on,*)
(* after every file asked before it had none.                              *)
ValuesAreRead ==
  \A name \in {n \in Names : reading.values[n] # None} :
    \E j \in DOMAIN Paths(name) :
      /\ \E m \in met : AnswerAt(m, name, j) = reading.values[name]
      /\ \A k \in 1 .. (j - 1) : \E m \in met : AnswerAt(m, name, k) = None

(* Two readings differ only in fields whose files changed in between: what *)
(* was read is what would be read now but for those.                       *)
AtOnce(m) ==
  [name \in Names |->
     LET answers == {j \in DOMAIN Paths(name) : AnswerAt(m, name, j) # None} IN
     IF answers = {} THEN None ELSE AnswerAt(m, name, CHOOSE j \in answers : \A k \in answers : j <= k)]
Changed(name) == \E j \in DOMAIN Paths(name) : \E m \in met : m[Paths(name)[j]] # machine[Paths(name)[j]]
DifferenceHasCause == IsRead => \A name \in DifferingFields(reading.values, AtOnce(machine)) : Changed(name)
FingerprintIsTrue == GapsAreTrue /\ ValuesAreRead /\ DifferenceHasCause
=============================================================================
