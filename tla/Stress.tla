------------------------------- MODULE Stress --------------------------------
(***************************************************************************)
(* A stress run from its setup to its exit code (main/cli.cpp run_stress   *)
(* and conclude_run, main/outcome.cpp, controller/results/verdict.cpp):    *)
(* what is set up before the run and may be refused, the records and ends  *)
(* of the workers while it runs, the journal's end, the repeats of what    *)
(* came out wrong, and the result, its files and the exit code.  A fork    *)
(* whose exec failed comes back through the same code in the child; the    *)
(* model then follows the child.  The command may be killed at any step.   *)
(***************************************************************************)
EXTENDS Integers, Sequences, FiniteSets

CONSTANTS Workers,
          MaxKept,       \* kMaxFindingsKept
          MaxRecords,    \* error records of one worker
          Formats        \* the result files asked for; a sequence

ASSUME StressAssumption == MaxKept \in Nat \ {0} /\ MaxRecords \in Nat

VARIABLES pc,
          process,       \* "controller", or "child": a fork that could not exec
          journal,       \* "none", "open", "terminated"
          worker,        \* what the report says of each
          run,           \* and of the run
          ran,           \* history: the run was not begun, is under way, came back, failed
          stored,        \* the result files that are in place
          exit

vars == <<pc, process, journal, worker, run, ran, stored, exit>>

Records == {"wrong", "not_performed"}
Errors == {"corrected", "uncorrected"}

Init ==
  /\ pc = "prepare" /\ process = "controller" /\ journal = "none" /\ exit = "none"
  /\ worker \in [Workers -> [verified : BOOLEAN, kept : {<<>>}, wrong : {0}, dropped : {0},
                             compared : {FALSE}, fate : {"running"}]]
  /\ run = [edac |-> {}, blind |-> FALSE, ceiling |-> FALSE, signal |-> FALSE]
  /\ ran = "no" /\ stored = {}

Leave(code) == pc' = "done" /\ exit' = code
Goto(place) == pc' = place /\ UNCHANGED exit

-----------------------------------------------------------------------------
(* run_stress, up to the run                                               *)

Prepare(ok) ==
  /\ pc = "prepare"
  /\ IF ok \/ Formats = <<>> THEN Goto("journal") ELSE Leave("refused")
  /\ UNCHANGED <<process, journal, worker, run, ran, stored>>

BeginJournal(asked, ok) ==
  /\ pc = "journal"
  /\ IF ~asked \/ ok THEN Goto("rig") ELSE Leave("refused")
  /\ journal' = IF asked /\ ok THEN "open" ELSE journal
  /\ UNCHANGED <<process, worker, run, ran, stored>>

MakeRig(ok) ==
  /\ pc = "rig"
  /\ IF ok THEN Goto("signals") ELSE Leave("refused")
  /\ UNCHANGED <<process, journal, worker, run, ran, stored>>

Closed(ok) == IF journal = "open" /\ ok THEN "terminated" ELSE journal

InstallStop(ok, closes) ==
  /\ pc = "signals"
  /\ IF ok THEN Goto("run") /\ UNCHANGED journal
     ELSE Leave("refused") /\ journal' = Closed(closes)
  /\ UNCHANGED <<process, worker, run, ran, stored>>

-----------------------------------------------------------------------------
(* While the controller runs                                               *)

Running == pc = "run" /\ process = "controller" /\ ran # "yes"
Begun == Running /\ ran' = "live" /\ UNCHANGED <<pc, process, journal, stored, exit>>

(* take_error_record: counted, and kept while there is room                *)
Taken(w, record) ==
  LET room == Len(worker[w].kept) < MaxKept
  IN  [worker EXCEPT ![w].wrong = @ + (IF record = "wrong" THEN 1 ELSE 0),
                     ![w].kept = IF room THEN Append(@, record) ELSE @,
                     ![w].dropped = IF room THEN @ ELSE @ + 1]

ErrorRecord(w, record) ==
  /\ Begun /\ worker[w].verified /\ worker[w].fate = "running"
  /\ Len(worker[w].kept) + worker[w].dropped < MaxRecords
  /\ worker' = Taken(w, record) /\ UNCHANGED run

(* A tally in which the oracle and the bracket compared something          *)
Compares(w) ==
  /\ Begun /\ worker[w].verified /\ worker[w].fate = "running"
  /\ worker' = [worker EXCEPT ![w].compared = TRUE] /\ UNCHANGED run

Ends(w, fate) ==
  /\ Begun /\ worker[w].fate = "running"
  /\ worker' = [worker EXCEPT ![w].fate = fate] /\ UNCHANGED run

Happens(what) ==
  /\ Begun /\ what # run /\ run' = what /\ UNCHANGED worker

Meanwhile ==
  \/ \E w \in Workers : \/ \E record \in Records : ErrorRecord(w, record)
                        \/ Compares(w) \/ Ends(w, "completed") \/ Ends(w, "unclean")
  \/ Happens([run EXCEPT !.ceiling = TRUE]) \/ Happens([run EXCEPT !.signal = TRUE])
  \/ Happens([run EXCEPT !.blind = TRUE]) \/ \E e \in Errors : Happens([run EXCEPT !.edac = @ \union {e}])

(* supervisor.run returns: with an error, in a child, or with a report.    *)
RunFails ==
  /\ Running /\ Leave("refused") /\ ran' = "failed"
  /\ UNCHANGED <<process, journal, worker, run, stored>>

RunForks == /\ Running /\ ran = "no" /\ process' = "child"
            /\ UNCHANGED <<pc, journal, worker, run, ran, stored, exit>>

RunReports ==
  /\ Running /\ \A w \in Workers : worker[w].fate # "running"
  /\ ran' = "yes" /\ UNCHANGED <<pc, process, journal, worker, run, stored, exit>>

AfterRun(closes) == IF process = "child" THEN Leave("child") /\ UNCHANGED journal
                    ELSE Goto("isolate") /\ journal' = Closed(closes)

Returned(closes) ==
  /\ pc = "run" /\ (process = "child" \/ ran = "yes")
  /\ AfterRun(closes)
  /\ UNCHANGED <<process, worker, run, ran, stored>>

-----------------------------------------------------------------------------
(* after_isolation, conclude_run                                           *)

WrongResults == {w \in Workers : worker[w].wrong > 0}

Isolate(forked) ==
  /\ pc = "isolate"
  /\ IF WrongResults # {} /\ forked THEN process' = "child" /\ Leave("child")
     ELSE Goto("conclude") /\ UNCHANGED process
  /\ UNCHANGED <<journal, worker, run, ran, stored>>

Kept(record) == {w \in Workers : \E i \in DOMAIN worker[w].kept : worker[w].kept[i] = record}
Verified == {w \in Workers : worker[w].verified}
AllClean == \A w \in Workers : worker[w].fate = "completed"
OnlyIfAll == IF \E w \in Verified : worker[w].compared THEN {} ELSE Verified
Unchecked == {w \in Verified : ~worker[w].compared}

Verdict ==
  IF Kept("wrong") # {} \/ "uncorrected" \in run.edac THEN "findings"
  ELSE IF Verified = {} \/ Kept("not_performed") # {} \/ Unchecked # {} \/ ~AllClean \/ run.blind
       THEN "incomplete"
  ELSE IF run.edac # {} THEN "corrected_errors" ELSE "clean"

ExitCode ==
  IF Verdict \in {"findings", "corrected_errors"} THEN "fault"
  ELSE IF run.ceiling THEN "temperature"
  ELSE IF run.signal THEN "signal"
  ELSE IF ~AllClean THEN "unclean"
  ELSE IF Verified # {} /\ Verdict = "incomplete" THEN "not_verified" ELSE "ok"

WithOutputFailure(code) == IF code \in {"fault", "temperature"} THEN code ELSE "output_failed"

(* write_results: each format, up to the first that fails                  *)
Unwritten == {i \in DOMAIN Formats : Formats[i] \notin stored}
Conclude(ok) ==
  /\ pc = "conclude"
  /\ IF Unwritten = {} THEN Leave(ExitCode) /\ UNCHANGED stored
     ELSE IF ok THEN /\ stored' = stored \union {Formats[CHOOSE i \in Unwritten : \A j \in Unwritten : i <= j]}
                     /\ UNCHANGED <<pc, exit>>
     ELSE Leave(WithOutputFailure(ExitCode)) /\ UNCHANGED stored
  /\ UNCHANGED <<process, journal, worker, run, ran>>

(* SIGKILL, or the machine                                                 *)
Killed == pc # "done" /\ process = "controller" /\ Leave("killed") /\ UNCHANGED <<process, journal, worker, run, ran, stored>>
Done == pc = "done" /\ UNCHANGED vars

Next ==
  \/ \E ok \in BOOLEAN :
       \/ Prepare(ok) \/ MakeRig(ok) \/ Returned(ok) \/ Isolate(ok) \/ Conclude(ok)
       \/ \E also \in BOOLEAN : BeginJournal(ok, also) \/ InstallStop(ok, also)
  \/ Meanwhile \/ RunFails \/ RunForks \/ RunReports \/ Killed \/ Done

Spec == Init /\ [][Next]_vars

-----------------------------------------------------------------------------
(* The variables keep their types, and no more records are kept than may   *)
(* be.                                                                     *)
TypeOK ==
  /\ pc \in {"prepare", "journal", "rig", "signals", "run", "isolate", "conclude", "done"}
  /\ process \in {"controller", "child"} /\ journal \in {"none", "open", "terminated"}
  /\ \A w \in Workers : /\ Len(worker[w].kept) <= MaxKept
                        /\ worker[w].wrong <= Len(worker[w].kept) + worker[w].dropped
                        /\ worker[w].dropped > 0 => Len(worker[w].kept) = MaxKept
  /\ run.edac \subseteq Errors /\ ran \in {"no", "live", "yes", "failed"}
  /\ exit \in {"none", "refused", "child", "killed", "fault", "temperature", "signal", "unclean",
               "not_verified", "output_failed", "ok"}

Reported == exit \in {"fault", "temperature", "signal", "unclean", "not_verified", "output_failed", "ok"}

(* Exit code 0 is a pass: every worker completed, every verified one was   *)
(* compared and sent no record of any kind, kept or not, the hardware      *)
(* reported nothing it was seen to report, nothing ended the run early,    *)
(* and every result file is in place.                                      *)
ZeroIsAPass ==
  exit = "ok" =>
    /\ AllClean /\ (\A w \in Verified : worker[w].compared) /\ ~run.ceiling /\ ~run.signal
    /\ \A w \in Workers : worker[w].wrong = 0 /\ worker[w].dropped = 0 /\ worker[w].kept = <<>>
    /\ Verified # {} => run.edac = {} /\ ~run.blind
    /\ stored = {Formats[i] : i \in DOMAIN Formats}

(* "When several apply the first of 5, 7, 4, 130/143, 3, 6 is the code."   *)
Applies(code) ==
  CASE code = "fault" -> Verdict \in {"findings", "corrected_errors"}
    [] code = "temperature" -> run.ceiling
    [] code = "output_failed" -> stored # {Formats[i] : i \in DOMAIN Formats}
    [] code = "signal" -> run.signal
    [] code = "unclean" -> ~AllClean
    [] code = "not_verified" -> Verified # {} /\ (Kept("not_performed") # {} \/ Unchecked # {} \/ run.blind)
    [] code = "ok" -> TRUE
Precedence == <<"fault", "temperature", "output_failed", "signal", "unclean", "not_verified", "ok">>
FirstThatApplies ==
  Reported => \E i \in DOMAIN Precedence :
    exit = Precedence[i] /\ Applies(exit) /\ \A j \in 1 .. i - 1 : ~Applies(Precedence[j])

(* The journal's end mark is there only when the run came back with a      *)
(* report and its workers are gone, or was never begun; a child that could *)
(* not exec, a failed run and a killed one leave it unmarked.              *)
MarkedMeansEnded == journal = "terminated" => ran = "yes" \/ (ran = "no" /\ exit = "refused")

(* A child that could not exec writes nothing the controller is to write:  *)
(* no result file, no end of the journal, and it leaves with its own code. *)
ChildTouchesNothing ==
  [][process' = "child" => UNCHANGED <<journal, stored>> /\ exit' \in {"none", "child"}]_vars

(* "5 a fault: a wrong result ...; it outranks every other"                *)
WrongIsFive == Reported /\ WrongResults # {} => exit = "fault"

(* What the command leaves is true: its exit code, and the journal's end.  *)
OutcomeIsTrue == ZeroIsAPass /\ FirstThatApplies /\ MarkedMeansEnded
=============================================================================
