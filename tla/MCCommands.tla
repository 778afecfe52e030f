----------------------------- MODULE MCCommands -----------------------------
(***************************************************************************)
(* The commands: a stress run from its setup to its exit code, the repeats *)
(* of what came out wrong after it, a search, and the drift correction of  *)
(* its scores.  Stress and Explore take what a run, a repeat or a trial    *)
(* answers as any answer it can give, and the correction only reads what   *)
(* the search measured, so each is explored with the others at rest.  A    *)
(* trial, around the run that is its load, is a part of its own.           *)
(*                                                                         *)
(* The repeats are on a machine of three cores: CPUs 0 and 3 are threads   *)
(* of one, CPU 1 is on another node, and CPU 2 shares a last-level cache   *)
(* with the first core.                                                    *)
(***************************************************************************)
EXTENDS Stress, TLC

VARIABLES part,
          report, hasMachine, w, f, done, ladder, child, polls, fork,
          phase, then, state, which, pass, target, rounds, fresh, since, references, corrected,
          referenceStop, trials, asked, stopped, error, code, found,
          points, times,
          setup, attempt, clock, readings

isolationVars == <<report, hasMachine, w, f, done, ladder, child, polls, fork>>
searchVars == <<phase, then, state, which, pass, target, rounds, fresh, since, references, corrected,
                referenceStop, trials, asked, stopped, error, code, found>>
driftVars == <<points, times>>
trialVars == <<setup, attempt, clock, readings>>

FourCpus == 0 .. 3
CoreOf == <<"b", "c", "a">> @@ (0 :> "a")
NodeOf == <<1, 0, 0>> @@ (0 :> 0)
ShapeOf == <<1, 1, 2>> @@ (0 :> 2)
LevelOf == [c \in FourCpus |-> [d \in FourCpus |-> IF CoreOf[c] = CoreOf[d] THEN 1 ELSE IF 1 \in {c, d} THEN 9 ELSE 3]]
Found == {<<>>, <<"wrong">>, <<"wrong", "wrong">>, <<"not_performed", "wrong">>, <<"no_cpu", "wrong">>}
Marked(kinds) == [i \in DOMAIN kinds |-> [kind |-> kinds[i], isolation |-> "none", why |-> "none"]]
FewReports == [work : {TRUE}, cpu : {0, 7}, threads : {1, 2}, cause : {"transient", "core", "memory", "concurrency"},
               findings : {Marked(k) : k \in Found}]
              \cup [work : {FALSE}, cpu : {0}, threads : {1}, cause : {"core"}, findings : {Marked(<<"wrong">>)}]
FewerReports == {r \in FewReports : r.cpu = 0 /\ r.threads = 2 /\ Len(r.findings) < 2}
Unremarkable == [work |-> FALSE, cpu |-> 0, threads |-> 1, cause |-> "core", findings |-> Marked(<<"wrong">>)]

Repeat == INSTANCE Isolation WITH process <- fork, Cpus <- FourCpus, Core <- CoreOf, Node <- NodeOf,
            Shape <- ShapeOf, Level <- LevelOf, Unknown <- 7, Limit <- 1, Polls <- 2, Reports <- FewReports
Worst == INSTANCE Explore WITH exit <- code, NCandidates <- 3, BaseReplicates <- 1, EliminationFactor <- 2,
           FinalReplicates <- 2, InterleaveEvery <- 2, ReferenceReplicates <- 1, Scores <- {0, 1}
Correction == INSTANCE Drift WITH Values <- {0, 1, 3}, AnchorCount <- 2, Gaps <- {1, 2}, Unit <- 420,
                MaxTime <- 7, MaxTrials <- 3, MaxReferences <- 5

(* A trial: of every machine of two metrics, of every candidate, of every  *)
(* search, of every settle phase, and of every few replicates.             *)
Plain == [report |-> <<[name |-> "t", scope |-> "cpu", index |-> 0, kind |-> "gauge", readable |-> TRUE, celsius |-> TRUE]>>,
          objective |-> [metric |-> "t", index |-> 0, statistic |-> "mean"], ceiling |-> FALSE, interval |-> 4,
          search |-> [base |-> 1, factor |-> 2, final |-> 2, every |-> 1, references |-> 1,
                      ids |-> <<"c">>, reference |-> "r", duty |-> 1],
          candidate |-> [workloads |-> <<"a">>, threads |-> 1, duration |-> 3, cpus |-> {}, settle |-> <<>>, duty |-> 1],
          samples |-> <<0>>, correction |-> [variance |-> 0, degrees |-> 1]]
Statuses == {[name |-> n, scope |-> "cpu", index |-> i, kind |-> k, readable |-> r, celsius |-> n = "t"] :
               n \in {"t", "x"}, i \in {0, 1}, k \in {"gauge", "counter"}, r \in BOOLEAN}
Brief == <<[metric |-> "t", window |-> 2, max |-> 2, slope |-> 1]>>
Machines == {[Plain EXCEPT !.report = r, !.objective.statistic = s, !.ceiling = c, !.candidate.settle = Brief] :
               r \in {<<>>} \cup {<<m>> : m \in Statuses} \cup (Statuses \X Statuses),
               s \in {"mean", "slope", "rate", "delta"}, c \in BOOLEAN}
Candidates == {[Plain EXCEPT !.candidate = [workloads |-> w2, threads |-> n, duration |-> d, cpus |-> p,
                                            settle |-> <<>>, duty |-> y]] :
                 w2 \in {<<>>, <<"a">>, <<"z">>, <<"a", "b">>, <<"b", "a">>, <<"a", "z">>},
                 n \in 0 .. 5, d \in {0, 1, 4, 20, 21}, p \in {{}, {0}, {0, 1}, {2}}, y \in {0, 1}}
Searches == {[Plain EXCEPT !.search = [base |-> b, factor |-> x, final |-> n, every |-> e, references |-> r,
                                       ids |-> i, reference |-> "r", duty |-> 1]] :
               b \in 0 .. 1, x \in 1 .. 2, n \in 1 .. 2, e \in 0 .. 1, r \in 0 .. 1,
               i \in {<<>>, <<"c">>, <<"">>, <<"r">>, <<"c", "c">>, <<"c", "d">>}}
Settles == {[Plain EXCEPT !.candidate.settle = <<[metric |-> "t", window |-> v[1], max |-> v[2], slope |-> l]>>, !.interval = v[3]] :
              v \in ({0, 1, 2, 4} \X {0, 3, 6} \X {1}) \cup ({12} \X {12, 21} \X {4}), l \in {-1, 0, 1}}
Replicates == {[Plain EXCEPT !.samples = q, !.correction = [variance |-> v, degrees |-> g]] :
                 q \in UNION {[1 .. n -> {0, 1, 4}] : n \in 1 .. 4}, v \in {0, 1, 3}, g \in {1, 2, 6}}
Tried == INSTANCE Trial WITH trial <- attempt, Setups <- <<Machines, Candidates, Searches, Settles, Replicates>>,
           Known <- {"a", "b"}, Allowed <- {0, 1}, MostThreads <- 4, Longest <- 20, Millisecond <- 2,
           MarginRounds <- 3, Late <- 1, Interrupts <- 1, Levels <- {0, 1}

TwoWorkers == 1 .. 2
JsonAndCsv == <<"json", "csv">>

CommandsInit ==
  /\ part \in {"stress", "repeat", "search", "drift", "trial"}
  /\ Worst!Init
  /\ IF part = "repeat" THEN Repeat!Init /\ report[2] \in FewerReports
     ELSE Repeat!AtStart /\ report = [i \in Workers |-> Unremarkable] /\ hasMachine = FALSE
  /\ IF part = "drift" THEN Correction!Init ELSE points = <<>> /\ times = <<>>
  /\ IF part = "trial" THEN Tried!TrialInit
     ELSE setup = <<>> /\ attempt = [at |-> "none"] /\ clock = <<>> /\ readings = <<>>
  \* The two workers are alike: of two that differ one order is enough.
  /\ Init /\ (worker[2].verified => worker[1].verified) /\ (part # "stress" => \A i \in Workers : worker[i].verified)

CommandsNext ==
  \/ part = "stress" /\ Next /\ UNCHANGED <<part, isolationVars, searchVars, driftVars, trialVars>>
  \/ part = "repeat" /\ Repeat!Next /\ UNCHANGED <<part, vars, searchVars, driftVars, trialVars>>
  \/ part = "search" /\ Worst!Next /\ UNCHANGED <<part, vars, isolationVars, driftVars, trialVars>>
  \/ part = "drift" /\ Correction!Next /\ UNCHANGED <<part, vars, isolationVars, searchVars, trialVars>>
  \/ part = "trial" /\ Tried!TrialNext /\ UNCHANGED <<part, vars, isolationVars, searchVars, driftVars>>

allVars == <<part, vars, isolationVars, searchVars, driftVars, trialVars>>
RepeatStep == part = "repeat" /\ Repeat!Controller /\ UNCHANGED <<part, vars, searchVars, driftVars, trialVars>>
SearchStep == part = "search" /\ Worst!Search /\ UNCHANGED <<part, vars, isolationVars, driftVars, trialVars>>

(* A command goes on by itself: nothing it waits for is left to others,    *)
(* except for a repeat's answer, and that wait is bounded.                 *)
CommandsSpec == CommandsInit /\ [][CommandsNext]_allVars /\ WF_allVars(RepeatStep \/ SearchStep)

-----------------------------------------------------------------------------
(* The variables of the five keep their types; the isolations and the kept *)
(* records keep their limits.                                              *)
TypesOK == TypeOK /\ Repeat!TypeOK /\ Worst!TypeOK /\ (part = "drift" => Correction!TypeOK)
           /\ (part = "trial" => Tried!TypeOK)

(* The isolation says of each finding what can be said.                    *)
FindingsAreTrue == Repeat!FindingsAreTrue

(* A fork that could not exec ends no journal, writes no result and starts *)
(* no re-run, and the controller has one re-run at a time; an elimination  *)
(* keeps the worst, and someone.                                           *)
StepsAreAllowed == ChildTouchesNothing /\ Repeat!ChildLeaves /\ Repeat!OneAtATime /\ Worst!KeepsTheWorst

(* What the search concludes rests on equal, bracketed and fresh evidence, *)
(* and a fault outranks it; the correction of its scores takes out the     *)
(* drift, once and for all; and each trial is the one that was asked for,  *)
(* started as settled as it says, and scored as the objective says.        *)
SearchIsTrue ==
  /\ Worst!SearchIsTrue /\ (part = "drift" => Correction!DriftIsRemoved)
  /\ (part = "trial" => Tried!TrialIsTrue)

(* Every isolation and every search ends, whatever its re-runs and trials  *)
(* do.                                                                     *)
CommandsEnd == (part = "repeat" => Repeat!IsolationEnds) /\ (part = "search" => Worst!SearchEnds)

(* A fault that was found is the exit code, also when a reading is missing.*)
FaultIsFive == Worst!FaultIsFive
=============================================================================
