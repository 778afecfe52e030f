------------------------------ MODULE Isolation ------------------------------
(***************************************************************************)
(* The repeats of wrong results after a run (controller/isolate.cpp,       *)
(* controller/rerun.cpp, verification/isolation/ladder.cpp, placement.cpp, *)
(* worker/entry.cpp run_rerun): each finding of each worker goes up the    *)
(* ladder of re-runs, each in a process of its own that is polled for a    *)
(* bounded time.  A wrong result has a cause, which decides where the unit *)
(* comes out wrong again; a re-run may also fail to fork or to exec, fail  *)
(* to check, die of a signal, or hang.                                     *)
(***************************************************************************)
EXTENDS Integers, Sequences, FiniteSets

CONSTANTS Workers,            \* 1 .. n, in the report's order
          Cpus, Core, Node, Shape, Level,  \* the snapshot: of each CPU its core, node and shape,
                              \* and the lowest cache level that two CPUs share
          Unknown,            \* a CPU that the snapshot does not have
          Limit, Polls,
          Reports             \* what the run may say of a worker, before the isolation

Kinds == {"wrong", "not_performed", "no_cpu"}   \* no_cpu: wrong, on several CPUs
None == "none"
NotYet(kind) == [kind |-> kind, isolation |-> None, why |-> None]

VARIABLES report,      \* of each worker: [work, cpu, threads, cause, findings]
          hasMachine,
          w, f,        \* the worker and finding the loop is at
          done,        \* isolated_here
          ladder,      \* [rung, same, other, single]; rung None: not in it
          child,       \* the re-run: None, "running", "hung", "clean", "reproduced", "no_answer"
          polls,
          process      \* "controller", or "child": this is a fork that could not exec

vars == <<report, hasMachine, w, f, done, ladder, child, polls, process>>

AtRung(rung) == [rung |-> rung, same |-> "unknown", other |-> "unknown", single |-> "unknown"]

AtStart ==
  /\ w = 1 /\ f = 1 /\ done = 0 /\ ladder = AtRung(None)
  /\ child = None /\ polls = 0 /\ process = "controller"

Init ==
  /\ report \in [Workers -> Reports] /\ hasMachine \in BOOLEAN /\ AtStart

-----------------------------------------------------------------------------
(* placement_for: the CPU of another core that is on the same node, shares *)
(* the lowest cache, has the same shape and the lowest number, in turn.    *)
OtherCores(c) == IF c = Unknown THEN {} ELSE {d \in Cpus : Core[d] # Core[c]}
Rank(c, d) == <<IF Node[d] = Node[c] THEN 0 ELSE 1, Level[c][d], IF Shape[d] = Shape[c] THEN 0 ELSE 1, d>>
Nearer(c, d, e) ==
  \E i \in 1 .. 4 : Rank(c, d)[i] < Rank(c, e)[i] /\ \A j \in 1 .. i - 1 : Rank(c, d)[j] = Rank(c, e)[j]
OtherCore(c) == CHOOSE d \in OtherCores(c) : \A e \in OtherCores(c) \ {d} : Nearer(c, d, e)

-----------------------------------------------------------------------------
(* isolate_findings                                                        *)

Here == report[w]
Finding == Here.findings[f]
InLoop == process = "controller" /\ ladder.rung = None /\ w \in Workers

NextWorker ==
  /\ InLoop /\ (~Here.work \/ f > Len(Here.findings))
  /\ w' = w + 1 /\ f' = 1 /\ done' = 0
  /\ UNCHANGED <<report, hasMachine, ladder, child, polls, process>>

OneMore == done > Limit
PastLimit == done >= Limit
WhyNot == CASE Finding.kind = "not_performed" -> "not_wrong"
            [] Finding.kind # "not_performed" /\ PastLimit -> "past_limit"
            [] Finding.kind = "no_cpu" /\ ~PastLimit -> "several_cpus"
            [] Finding.kind = "wrong" /\ ~PastLimit /\ ~hasMachine -> "no_topology"
            [] OTHER -> None

PassOver ==
  /\ InLoop /\ Here.work /\ f <= Len(Here.findings) /\ WhyNot # None
  /\ report' = [report EXCEPT ![w].findings[f].why = WhyNot] /\ f' = f + 1
  /\ UNCHANGED <<hasMachine, w, done, ladder, child, polls, process>>

StartLadder ==
  /\ InLoop /\ Here.work /\ f <= Len(Here.findings) /\ WhyNot = None
  /\ ladder' = AtRung("same_core")
  /\ UNCHANGED <<report, hasMachine, w, f, done, child, polls, process>>

-----------------------------------------------------------------------------
(* LadderIsolator::isolate: one rung after the other                       *)

OneThread == Here.threads = 1
RungCpu == IF ladder.rung = "other_core" THEN OtherCore(Here.cpu) ELSE Here.cpu
RungThreads == IF ladder.rung = "single_thread" THEN 1 ELSE Here.threads

AnswerOf(outcome) == CASE outcome = "reproduced" -> "yes" [] outcome = "clean" -> "no" [] OTHER -> "unknown"

(* The rung after this one, given its answer                               *)
AfterSame(answer) == IF answer # "yes" THEN "over"
                     ELSE IF OtherCores(Here.cpu) # {} THEN "other_core"
                     ELSE IF ~OneThread THEN "single_thread" ELSE "over"
Climbed(answer) ==
  CASE ladder.rung = "same_core" ->
         [ladder EXCEPT !.same = answer, !.single = IF OneThread THEN answer ELSE @, !.rung = AfterSame(answer)]
    [] ladder.rung = "other_core" ->
         [ladder EXCEPT !.other = answer, !.rung = IF OneThread THEN "over" ELSE "single_thread"]
    [] OTHER -> [ladder EXCEPT !.single = answer, !.rung = "over"]

OtherFirst(a) ==
  CASE a.same = "unknown" -> "inconclusive" [] a.same = "no" -> "transient"
    [] a.same = "yes" /\ a.other = "no" -> "core_local" [] a.same = "yes" /\ a.other = "yes" -> "not_core_local"
    [] OTHER -> IF a.single = "no" THEN "concurrency" ELSE "unlocated"
DeriveFinding(a) ==
  CASE a.same = "unknown" -> "inconclusive"
    [] a.same = "no" -> "transient"
    [] a.same = "yes" /\ a.single = "no" -> "concurrency"
    [] a.same = "yes" /\ a.single = "unknown" -> "inconclusive"
    [] a.same = "yes" /\ a.single = "yes" /\ a.other = "no" -> "core_local"
    [] a.same = "yes" /\ a.single = "yes" /\ a.other = "yes" -> "not_core_local"
    [] OTHER -> "unlocated"

Climb(outcome) == ladder' = Climbed(AnswerOf(outcome))

EndLadder ==
  /\ ladder.rung = "over"
  /\ report' = [report EXCEPT ![w].findings[f].isolation = DeriveFinding(ladder)]
  /\ done' = done + 1 /\ f' = f + 1 /\ ladder' = AtRung(None)
  /\ UNCHANGED <<hasMachine, w, child, polls, process>>

-----------------------------------------------------------------------------
(* RealRerunner::rerun                                                     *)

OnRung == ladder.rung \notin {None, "over"}

Unaware == TRUE
MayFork == process = "controller"

(* No pipe, no fork, a provenance that lacks a field, or this is the child *)
(* of an earlier rung: not performed.                                      *)
RerunRefused ==
  /\ OnRung /\ child = None /\ Climb("not_performed")
  /\ UNCHANGED <<report, hasMachine, w, f, done, child, polls, process>>

RerunForks ==
  /\ OnRung /\ child = None /\ MayFork /\ child' = "running" /\ polls' = 0
  /\ UNCHANGED <<report, hasMachine, w, f, done, ladder, process>>

(* The behaviour goes on as the fork, whose exec failed: it climbs the rest *)
(* of the ladder without a re-run, and isolate_findings returns.           *)
ExecFails ==
  /\ OnRung /\ child = None /\ MayFork
  /\ process' = "child" /\ Climb("not_performed")
  /\ UNCHANGED <<report, hasMachine, w, f, done, child, polls>>

(* What the unit comes to when it is run there                             *)
WrongAgain ==
  CASE Here.cause = "transient" -> FALSE
    [] Here.cause = "core" -> ladder.rung # "other_core" \/ Core[RungCpu] = Core[Here.cpu]
    [] Here.cause = "memory" -> TRUE
    [] Here.cause = "concurrency" -> RungThreads > 1

RerunEnds(how) ==
  /\ OnRung /\ child = "running" /\ child' = how
  /\ UNCHANGED <<report, hasMachine, w, f, done, ladder, polls, process>>

Ended == child \notin {None, "running", "hung"}

Uncounted == polls
Counted == polls + 1

Poll ==
  /\ OnRung /\ child # None /\ ~Ended /\ polls < Polls
  /\ polls' = Counted
  /\ UNCHANGED <<report, hasMachine, w, f, done, ladder, child, process>>

OutcomeOf(how) == IF how = "no_answer" THEN "not_performed" ELSE how

(* The pipe is hung up: the re-run is reaped and its code is the answer.   *)
RerunReaped ==
  /\ OnRung /\ Ended
  /\ Climb(OutcomeOf(child)) /\ child' = None
  /\ UNCHANGED <<report, hasMachine, w, f, done, polls, process>>

(* Out of polls, or the poll fails: killed and reaped, and no answer.      *)
RerunKilled ==
  /\ OnRung /\ child # None
  /\ Climb("not_performed") /\ child' = None
  /\ UNCHANGED <<report, hasMachine, w, f, done, polls, process>>

OutOfTime == polls >= Polls /\ RerunKilled

Rerun == RerunRefused \/ RerunForks \/ ExecFails
Controller == NextWorker \/ PassOver \/ StartLadder \/ EndLadder \/ Rerun \/ RerunReaped \/ OutOfTime \/ Poll
Environment == RerunKilled \/ RerunEnds("no_answer") \/ RerunEnds("hung")
               \/ RerunEnds(IF WrongAgain THEN "reproduced" ELSE "clean")
Done == ((process = "child" /\ ladder.rung = None) \/ w \notin Workers) /\ UNCHANGED vars

Next == Controller \/ Environment \/ Done
Spec == Init /\ [][Next]_vars /\ WF_vars(Controller)

-----------------------------------------------------------------------------
Over == process = "controller" /\ w \notin Workers

(* The variables keep their types, and no worker has more isolations than   *)
(* the limit of isolate_findings.                                          *)
TypeOK ==
  /\ w \in 1 .. Cardinality(Workers) + 1 /\ f \in Nat /\ done \in 0 .. Limit /\ polls \in 0 .. Polls
  /\ child \in {None, "running", "hung", "clean", "reproduced", "no_answer"}
  /\ process \in {"controller", "child"}
  /\ ladder.rung \in {None, "same_core", "other_core", "single_thread", "over"}

(* What the ladder (LadderIsolator::isolate) says is what the cause is, or  *)
(* that it cannot be said: no re-run that failed, died or hung makes it    *)
(* name a wrong place.  With one thread concurrency is no cause: the unit  *)
(* does not come out wrong again.                                          *)
Fits(cause, what) ==
  what \in CASE cause = "transient" -> {"transient", "inconclusive"}
             [] cause = "core" -> {"core_local", "unlocated", "inconclusive"}
             [] cause = "memory" -> {"not_core_local", "unlocated", "inconclusive"}
             [] cause = "concurrency" -> {"concurrency", "inconclusive"}
SaysTheCause ==
  \A v \in Workers : \A i \in DOMAIN report[v].findings :
    report[v].findings[i].isolation # None =>
      IF report[v].cause = "concurrency" /\ report[v].threads = 1
      THEN report[v].findings[i].isolation \in {"transient", "inconclusive"}
      ELSE Fits(report[v].cause, report[v].findings[i].isolation)

(* Every finding has an isolation or the reason it has none, never both,   *)
(* and the limit is each worker's own: its first wrong results with a CPU  *)
(* are isolated however many another worker had.                           *)
EachIsAccounted ==
  Over => \A v \in {v \in Workers : report[v].work} : \A i \in DOMAIN report[v].findings :
    LET here == report[v].findings[i]
        before == {j \in 1 .. i - 1 : report[v].findings[j].isolation # None}
    IN  /\ (here.isolation = None) # (here.why = None)
        /\ here.kind = "wrong" /\ hasMachine /\ Cardinality(before) < Limit => here.isolation # None

(* One re-run at a time, and none left when the ladder moves on: a process *)
(* that hangs is killed and reaped before the next is started.             *)
OneAtATime ==
  [][/\ ladder' # ladder => child' = None
     /\ child = None /\ child' # None => child' = "running"]_vars

(* The rung "another core" is on another core, and on the same node if any *)
(* other core is: it changes the core and as little else as it can.        *)
OnlyTheCoreChanges ==
  ladder.rung = "other_core" =>
    /\ Core[RungCpu] # Core[Here.cpu]
    /\ (\E c \in Cpus : Core[c] # Core[Here.cpu] /\ Node[c] = Node[Here.cpu]) => Node[RungCpu] = Node[Here.cpu]

(* A fork whose exec failed starts no re-run of its own (child_exit_) and  *)
(* leaves isolate_findings with the finding it was made for.               *)
ChildLeaves == [][process = "child" => child' = None /\ w' = w /\ (f' = f \/ ladder'.rung = None)]_vars

(* However the re-runs go, the isolation comes to an end: RealRerunner     *)
(* bounds its wait by a count of polls.                                    *)
IsolationEnds == <>(Over \/ (process = "child" /\ ladder.rung = None))

(* The isolation says of each finding what can be said, from re-runs that  *)
(* change one thing at a time.                                             *)
FindingsAreTrue == SaysTheCause /\ EachIsAccounted /\ OnlyTheCoreChanges
=============================================================================
